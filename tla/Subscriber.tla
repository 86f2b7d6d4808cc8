----------------------------- MODULE Subscriber -----------------------------
(***************************************************************************)
(* class Subscriber (rmw_sub.cpp), requestSync (sync.hpp), requestData     *)
(* (topic.hpp) and the publisher half of class DiscoveryClient             *)
(* (discovery.hpp): one process with the subscriptions Subs to the topic.  *)
(*                                                                         *)
(* A subscription runs one chain of requests per discovered publisher: a   *)
(* sync request finds the end of the stream, each answer asks for the      *)
(* packet that follows, and an error starts over with a sync request.      *)
(*                                                                         *)
(* SubscriberSpec runs the process alone: peers announce any identifier    *)
(* and answer any interest they may have received.                         *)
(***************************************************************************)
EXTENDS NdnFace, FiniteSets

CONSTANTS
  Subs,         \* the Subscriber objects that may be created
  MaxInbox,     \* bound: the messages waiting in _queue
  MaxSeq        \* bound: the highest sequence number a peer answers with

ASSUME SubscriberAssumption ==
  /\ MaxInbox \in Nat \ {0}
  /\ MaxSeq \in Nat

VARIABLES
  created,      \* the Subscriber objects built
  discovered,   \* _discovered_publishers of the topic
  pit,          \* the pending interests of the subscriptions, each with the
                \*   Subscriber its callbacks are bound to
  inbox,        \* _queue
  position,     \* history: one past the last sequence number each
                \*   subscription received from an identifier
  refused,      \* history: the chains a Nack of a sync request ended
  drawn         \* the sync requests named since std::rand() was last seeded

subVars == <<created, discovered, pit, inbox, position, refused, drawn>>

Pending(s, i) == {e \in pit : e.sub = s /\ e.interest.id = i}

SubscriberInit ==
  /\ created = {}
  /\ discovered = {}
  /\ pit = {}
  /\ inbox = [s \in Subs |-> <<>>]
  /\ position = [s \in Subs |-> [i \in Ids |-> 0]]
  /\ refused = {}
  /\ drawn = {}

\* Mutant of FreshNonce: the same component is drawn again and again.
FreshNonceReused(i) == Nonces

(***************************************************************************)
(* The last component of a sync request is std::rand().  One run of        *)
(* std::rand() does not name two requests alike.  Nothing is said of the   *)
(* requests of an earlier run, whose replies the network may still hold.   *)
(***************************************************************************)
FreshNonce(i) == {n \in Nonces : SyncInterest(i, n) \notin drawn}

\* expressInterest for every entry of `new', once the entries `done' are settled.
Request(new, done) ==
  LET interests == {e.interest : e \in new}
  IN  /\ pit' = (pit \ done) \cup new
      /\ drawn' = drawn \cup {x \in interests : x.type = "sync"}
      /\ ExpressInterests(interests)

SyncRequest(s, i, n) == [sub |-> s, interest |-> SyncInterest(i, n)]

DataRequest(s, i, k) == [sub |-> s, interest |-> DataInterest(i, k)]

\* Mutant of CreateSubscription: only publishers discovered later are followed.
CreateSubscriptionBlind(s) ==
  /\ s \notin created
  /\ created' = created \cup {s}
  /\ UNCHANGED <<discovered, pit, inbox, position, refused, drawn, faceVars>>

\* rmw_create_subscription: a sync request to every publisher known already.
CreateSubscription(s) ==
  /\ s \notin created
  /\ created' = created \cup {s}
  /\ \E nonce \in [discovered -> Nonces] :
       /\ \A i \in discovered : nonce[i] \in FreshNonce(i)
       /\ Request({SyncRequest(s, i, nonce[i]) : i \in discovered}, {})
  /\ UNCHANGED <<discovered, inbox, position, refused, net, announced, filter>>

\* Mutant of OnHeartbeat: every heartbeat runs the callbacks.
OnHeartbeatAgain(i) ==
  /\ i \in announced
  /\ discovered' = discovered \cup {i}
  /\ \E nonce \in [created -> FreshNonce(i)] :
       /\ \A s, t \in created : s # t => nonce[s] # nonce[t]
       /\ Request({SyncRequest(s, i, nonce[s]) : s \in created}, {})
  /\ UNCHANGED <<created, inbox, position, refused, net, announced, filter>>

\* DiscoveryClient::onInterest: the first heartbeat of an identifier runs the
\* callback of every subscription, the next ones do nothing.
OnHeartbeat(i) ==
  /\ i \in announced \ discovered
  /\ discovered' = discovered \cup {i}
  /\ \E nonce \in [created -> FreshNonce(i)] :
       /\ \A s, t \in created : s # t => nonce[s] # nonce[t]
       /\ Request({SyncRequest(s, i, nonce[s]) : s \in created}, {})
  /\ UNCHANGED <<created, inbox, position, refused, net, announced, filter>>

\* Mutant of OnData: the packet after the next is requested.
OnDataSkips(s, x, d) ==
  LET done == [sub |-> s, interest |-> x]
  IN  /\ done \in pit
      /\ d \in net /\ Satisfies(d, x)
      /\ Len(inbox[s]) < MaxInbox
      /\ inbox' = [inbox EXCEPT ![s] = Append(@, d)]
      /\ position' = [position EXCEPT ![s][x.id] = d.seq + 1]
      /\ Request({DataRequest(s, x.id, d.seq + 2)}, {done})
      /\ UNCHANGED <<created, discovered, refused, net, announced, filter>>

\* onData, of a sync or a data request.
OnData(s, x, d) ==
  LET done == [sub |-> s, interest |-> x]
  IN  /\ done \in pit
      /\ d \in net /\ Satisfies(d, x)
      /\ Len(inbox[s]) < MaxInbox
      /\ inbox' = [inbox EXCEPT ![s] = Append(@, d)]
      /\ position' = [position EXCEPT ![s][x.id] = d.seq + 1]
      /\ Request({DataRequest(s, x.id, d.seq + 1)}, {done})
      /\ UNCHANGED <<created, discovered, refused, net, announced, filter>>

\* Mutant of OnError: the request that failed is sent again.
OnErrorRepeats(s, x) ==
  /\ [sub |-> s, interest |-> x] \in pit
  /\ ExpressInterests({x})
  /\ UNCHANGED <<subVars, net, announced, filter>>

\* onError: a data request timed out or got a Nack, or a sync request timed out.
OnError(s, x) ==
  LET done == [sub |-> s, interest |-> x]
  IN  /\ done \in pit
      /\ \E n \in FreshNonce(x.id) : Request({SyncRequest(s, x.id, n)}, {done})
      /\ UNCHANGED <<created, discovered, inbox, position, refused, net,
                     announced, filter>>

\* Mutant of OnSyncNack: the request stays pending.
OnSyncNackKeeps(s, x) ==
  /\ x.type = "sync"
  /\ [sub |-> s, interest |-> x] \in pit
  /\ refused' = refused \cup {<<s, x.id>>}
  /\ UNCHANGED <<created, discovered, pit, inbox, position, drawn, faceVars>>

\* The Nack of a sync request is bound to an empty function.
OnSyncNack(s, x) ==
  LET done == [sub |-> s, interest |-> x]
  IN  /\ x.type = "sync"
      /\ done \in pit
      /\ pit' = pit \ {done}
      /\ refused' = refused \cup {<<s, x.id>>}
      /\ UNCHANGED <<created, discovered, inbox, position, drawn, faceVars>>

\* rmw_take_with_info and take
Take(s) ==
  /\ inbox[s] # <<>>
  /\ inbox' = [inbox EXCEPT ![s] = Tail(@)]
  /\ UNCHANGED <<created, discovered, pit, position, refused, drawn, faceVars>>

\* The network forgets a sync request nobody waits for and its replies: the few
\* components of a finite model can be drawn again.
ForgetSync(i, n) ==
  /\ SyncInterest(i, n) \in wire
  /\ \A e \in pit : e.interest # SyncInterest(i, n)
  /\ wire' = wire \ {SyncInterest(i, n)}
  /\ net' = {d \in net : ~(d.type = "sync" /\ d.id = i /\ d.nonce = n)}
  /\ drawn' = drawn \ {SyncInterest(i, n)}
  /\ UNCHANGED <<created, discovered, pit, inbox, position, refused, announced,
                 filter>>

\* std::rand() starts again, and with it the components: rmw_create_publisher seeds
\* it with the time in seconds, so a second publisher of the same process may begin
\* the sequence of the first anew.
Reseed ==
  /\ drawn' = {}
  /\ UNCHANGED <<created, discovered, pit, inbox, position, refused, faceVars>>

SubscriberStep ==
  \/ \E s \in Subs : CreateSubscription(s) \/ Take(s)
  \/ \E i \in announced : OnHeartbeat(i)
  \/ \E e \in pit :
       \/ \E d \in net : OnData(e.sub, e.interest, d)
       \/ OnError(e.sub, e.interest)
       \/ OnSyncNack(e.sub, e.interest)
  \/ \E i \in Ids, n \in Nonces : ForgetSync(i, n)

-----------------------------------------------------------------------------
(* The process alone. *)

ProcessInit == SubscriberInit /\ FaceInit

PeerAnnounces(i) ==
  /\ announced' = announced \cup {i}
  /\ UNCHANGED <<subVars, wire, net, filter>>

PeerAnswers(x, p, k) ==
  /\ x \in wire
  /\ LET m == [pub |-> p, n |-> k]
     IN  \/ x.type = "sync" /\ Put(SyncPacket(x.id, x.nonce, k, m))
         \/ x.type = "data" /\ x.seq = k /\ Put(DataPacket(x.id, k, m))
  /\ UNCHANGED <<subVars, wire, announced, filter>>

SubscriberNext ==
  \/ SubscriberStep
  \/ Reseed
  \/ \E i \in Ids : PeerAnnounces(i)
  \/ \E x \in wire, p \in Pubs, k \in 0..MaxSeq : PeerAnswers(x, p, k)

SubscriberSpec ==
  ProcessInit /\ [][SubscriberNext]_<<subVars, faceVars>>

-----------------------------------------------------------------------------
\* A subscription never runs two chains towards one publisher, which would hand it
\* every message twice: the constructor and the discovery callback both start chains
\* (rmw_sub.cpp:66 and discovery.hpp:155).  A data request of the chain is for the
\* packet right after the last one received: only a sync request skips packets.
SingleChain ==
  \A s \in Subs, i \in Ids :
    /\ Cardinality(Pending(s, i)) <= 1
    /\ \A e \in Pending(s, i) :
         e.interest.type = "data" => e.interest.seq = position[s][i]

\* A subscription that knows a publisher always has a request pending to it,
\* unless a sync request was refused with a Nack.
ChainAlive ==
  \A s \in created, i \in discovered :
    <<s, i>> \notin refused => Pending(s, i) # {}

\* A chain a Nack ended is never started again.
RefusedForever ==
  \A s \in created, i \in discovered :
    <<s, i>> \in refused => Pending(s, i) = {}
=============================================================================
