------------------------------- MODULE RmwNdn -------------------------------
(***************************************************************************)
(* One topic of rmw_ndn: its publishers and a process with subscriptions,  *)
(* joined by the interests on the wire, the data packets in the network,   *)
(* the heartbeats and the interest filters (NdnFace).                      *)
(***************************************************************************)
EXTENDS Publisher, Subscriber

ownVars == <<topicVars, syncVars, heartbeatId, publisherVars>>

vars == <<ownVars, subVars, faceVars>>

Init == PublisherInit /\ SubscriberInit /\ FaceInit

\* The probe of p is answered by any reply the network has for its name.
ProbeAnswered(p) ==
  \E d \in net : Satisfies(d, SyncInterest(id[p], NoNonce))

PublisherStep(p) ==
  /\ \/ \E i \in Ids : Create(p, i)
     \/ \E i \in Ids : ProbeAnswered(p) /\ OnUsedId(p, i)
     \/ OnFreeId(p)
     \/ Push(p)
     \/ SendHeartbeat(p)
     \/ \E x \in wire : ReceiveInterest(p, x)
  /\ UNCHANGED subVars

Next ==
  \/ \E p \in Pubs : PublisherStep(p)
  \/ SubscriberStep /\ UNCHANGED ownVars

Spec == Init /\ [][Next]_vars

-----------------------------------------------------------------------------
\* p is the only publisher that serves identifier i or ever named a packet
\* with it.  Nothing in the code guarantees it: two publishers created in the
\* same second draw the same identifier, and a probe misses an owner that has
\* published nothing.
SoleOwner(p, i) ==
  /\ filter[p] = i
  /\ \A q \in Pubs \ {p} :
       /\ filter[q] # i
       /\ \A k \in 1..Len(log[q]) : log[q][k].id # i

\* Whatever waits to be taken is a message that was published, under the number its
\* name carries: a sync reply never pairs the number of one message with the bytes of
\* another, however late it arrives (sync.hpp:84), and a data packet has the name its
\* message was given.
InboxGenuine ==
  \A s \in Subs : \A k \in DOMAIN inbox[s] :
    LET d == inbox[s][k]
    IN  /\ d.msg.n = d.seq
        /\ d.seq < Len(log[d.msg.pub])
        /\ d.type = "data" => log[d.msg.pub][d.seq + 1].id = d.id

\* No subscription is ahead of the stream it follows: it has received nothing that
\* was not published, and asks the publisher for no more than its next packet, so
\* that _req_seq_num holds one number at most.
NeverAhead ==
  \A p \in Pubs, i \in Ids : SoleOwner(p, i) =>
    /\ \A s \in Subs : position[s][i] <= Len(log[p])
    /\ reqSeqNum[p] \subseteq {Len(log[p])}

\* A publisher, and a subscription that follows it under the first identifier.
ThePub == CHOOSE p \in Pubs : TRUE

TheSub == CHOOSE s \in Subs : TRUE

\* What the subscription makes of that identifier.
Mode ==
  LET waits(type) == \E e \in Pending(TheSub, 0) : e.interest.type = type
  IN  CASE <<TheSub, 0>> \in refused -> "refused"
        [] waits("sync") -> "find"
        [] waits("data") -> "follow"
        [] OTHER -> "unknown"

Stream == INSTANCE TopicStream WITH
  published <- Len(log[ThePub]),
  next <- position[TheSub][0],
  mode <- Mode,
  inbox <- [k \in DOMAIN inbox[TheSub] |-> inbox[TheSub][k].seq]

\* A subscription to a topic of one publisher follows its stream as TopicStream
\* promises.  (Where Pubs = {p} and Ids = {0}, and within one run of std::rand().)
ImplementsStream == Stream!StreamSpec

-----------------------------------------------------------------------------
(***************************************************************************)
(* Fairness: both processes keep calling rmw_wait, which runs the          *)
(* scheduler and the face; the application takes what it is offered; and   *)
(* the network is fair-lossy: a sync request repeated for ever reaches its *)
(* publisher, and a reply sent for ever reaches its subscription, before   *)
(* the lifetime of one second ends.  Data requests need no such            *)
(* assumption: they may all be lost.                                       *)
(***************************************************************************)
ByPublisher(A) == A /\ UNCHANGED subVars

BySubscriber(A) == A /\ UNCHANGED ownVars

SyncReaches(p, s, i) ==
  \E e \in Pending(s, i) :
    e.interest.type = "sync" /\ ReceiveInterest(p, e.interest)

SyncAnswered(s, i) ==
  \E e \in Pending(s, i), d \in net :
    e.interest.type = "sync" /\ OnData(s, e.interest, d)

RequestEnds(s, i) == \E e \in Pending(s, i) : OnError(s, e.interest)

Fairness ==
  /\ \A p \in Pubs : WF_vars(ByPublisher(SendHeartbeat(p)))
  /\ \A i \in Ids : /\ WF_vars(BySubscriber(OnHeartbeat(i)))
                    /\ \A n \in Nonces : WF_vars(BySubscriber(ForgetSync(i, n)))
  /\ \A s \in Subs : WF_vars(BySubscriber(Take(s)))
  /\ \A s \in Subs, i \in Ids :
       /\ WF_vars(BySubscriber(RequestEnds(s, i)))
       /\ SF_vars(BySubscriber(SyncAnswered(s, i)))
       /\ \A p \in Pubs : SF_vars(ByPublisher(SyncReaches(p, s, i)))

LiveSpec == Spec /\ Fairness

\* Once a publisher has published its last message, every subscription receives
\* it, unless a Nack ended its chain: nothing else can keep a subscription from
\* catching up, neither the messages it missed nor those that left the window.
\* (While the publisher is the only one under its identifier.)
CatchesUp ==
  \A p \in Pubs, s \in Subs, i \in Ids :
    (s \in created /\ SoleOwner(p, i) /\ Len(log[p]) = MaxPublish)
      ~> \/ position[s][i] = MaxPublish
         \/ <<s, i>> \in refused
         \/ ~SoleOwner(p, i)
=============================================================================
