----------------------------- MODULE Publisher -----------------------------
(***************************************************************************)
(* class Publisher (rmw_pub.cpp) with the three objects it owns, and the   *)
(* rmw functions that create it and publish with it.                       *)
(*                                                                         *)
(* A publisher draws an identifier, asks the network whether somebody      *)
(* answers under it (the probe), and claims it when nobody does.  The      *)
(* application may publish at any time, before the claim too.              *)
(*                                                                         *)
(* PublisherSpec runs publishers alone: any interest a peer can send may   *)
(* reach them, and the answer to a probe is arbitrary.  RmwNdn composes    *)
(* the same actions with the subscribers.                                  *)
(***************************************************************************)
EXTENDS TopicPublisher, SyncPublisher, HeartbeatEmiter

CONSTANT MaxPublish   \* bound: the messages one publisher publishes

ASSUME MaxPublishAssumption == MaxPublish \in Nat

VARIABLES
  phase,    \* "absent", "probing" (its probe is pending), "claimed"
  id,       \* _id; NoId before construction
  seqNum,   \* _seq_num
  log       \* history: the packets handed to TopicPublisher::push, in order

publisherVars == <<phase, id, seqNum, log>>

pubVars == <<topicVars, syncVars, heartbeatId, publisherVars, faceVars>>

PublisherInit ==
  /\ TopicInit
  /\ SyncInit
  /\ HeartbeatInit
  /\ phase = [p \in Pubs |-> "absent"]
  /\ id = [p \in Pubs |-> NoId]
  /\ seqNum = [p \in Pubs |-> 0]
  /\ log = [p \in Pubs |-> <<>>]

(***************************************************************************)
(* rmw_create_publisher and the constructor.  The identifier is the first  *)
(* std::rand() after std::srand(time), so two publishers may draw the same *)
(* one.  The heartbeat is constructed with the literal 0, not with _id.    *)
(***************************************************************************)
Create(p, i) ==
  /\ phase[p] = "absent"
  /\ phase' = [phase EXCEPT ![p] = "probing"]
  /\ id' = [id EXCEPT ![p] = i]
  /\ StartHeartbeat(p, 0)
  /\ ExpressInterests({SyncInterest(i, NoNonce)})
  /\ UNCHANGED <<topicVars, syncVars, seqNum, log, net, filter>>

\* Mutant of OnUsedId: an answer is also taken after the probe timed out.
OnUsedIdLate(p, i) ==
  /\ phase[p] # "absent"
  /\ id' = [id EXCEPT ![p] = i]
  /\ ExpressInterests({SyncInterest(i, NoNonce)})
  /\ UNCHANGED <<topicVars, syncVars, heartbeatId, phase, seqNum, log, net,
                 announced, filter>>

\* onUsedId: somebody answered the probe.
OnUsedId(p, i) ==
  /\ phase[p] = "probing"
  /\ id' = [id EXCEPT ![p] = i]
  /\ ExpressInterests({SyncInterest(i, NoNonce)})
  /\ UNCHANGED <<topicVars, syncVars, heartbeatId, phase, seqNum, log, net,
                 announced, filter>>

\* Mutant of OnFreeId: the filters are not set.
OnFreeIdNoFilter(p) ==
  /\ phase[p] = "probing"
  /\ phase' = [phase EXCEPT ![p] = "claimed"]
  /\ SetHeartbeatName(p, id[p])
  /\ UNCHANGED <<topicVars, syncVars, id, seqNum, log, wire, net, filter>>

\* onFreeId: the probe got a Nack or timed out.
OnFreeId(p) ==
  /\ phase[p] = "probing"
  /\ phase' = [phase EXCEPT ![p] = "claimed"]
  /\ SetHeartbeatName(p, id[p])
  /\ filter' = [filter EXCEPT ![p] = id[p]]
  /\ UNCHANGED <<topicVars, syncVars, id, seqNum, log, wire, net>>

\* rmw_publish and push: the packet is named with the current identifier,
\* claimed or not.
Push(p) ==
  LET m == [pub |-> p, n |-> Len(log[p])]
      d == DataPacket(id[p], seqNum[p], m)
  IN  /\ phase[p] # "absent"
      /\ Len(log[p]) < MaxPublish
      /\ SyncPush(p, seqNum[p], m)
      /\ TopicPush(p, d)
      /\ seqNum' = [seqNum EXCEPT ![p] = @ + 1]
      /\ log' = [log EXCEPT ![p] = Append(@, d)]
      /\ UNCHANGED <<heartbeatId, phase, id, wire, announced, filter>>

\* An interest that matches one of the two filters is given to its handler.
ReceiveInterest(p, x) ==
  /\ \/ TopicOnInterest(p, x) /\ UNCHANGED syncVars
     \/ SyncOnInterest(p, x) /\ UNCHANGED topicVars
  /\ UNCHANGED <<heartbeatId, publisherVars, wire, announced, filter>>

SendHeartbeat(p) ==
  /\ Heartbeat(p)
  /\ UNCHANGED <<topicVars, syncVars, publisherVars>>

-----------------------------------------------------------------------------
(***************************************************************************)
(* The publishers alone.  An interest of a subscriber names a sequence     *)
(* number at most one past the last packet, hence the bound MaxPublish.    *)
(***************************************************************************)
PeerInterest ==
  {SyncInterest(i, n) : i \in Ids, n \in Nonces \cup {NoNonce}} \cup
  {DataInterest(i, k) : i \in Ids, k \in 0..MaxPublish}

AloneInit == PublisherInit /\ FaceInit

PublisherNext ==
  \E p \in Pubs :
    \/ \E i \in Ids : Create(p, i) \/ OnUsedId(p, i)
    \/ OnFreeId(p)
    \/ Push(p)
    \/ SendHeartbeat(p)
    \/ \E x \in PeerInterest : ReceiveInterest(p, x)

PublisherSpec == AloneInit /\ [][PublisherNext]_pubVars

-----------------------------------------------------------------------------
PublisherTypeOK ==
  /\ FaceTypeOK
  /\ TopicTypeOK
  /\ SyncTypeOK
  /\ HeartbeatTypeOK
  /\ phase \in [Pubs -> {"absent", "probing", "claimed"}]
  /\ id \in [Pubs -> Ids \cup {NoId}]
  /\ \A p \in Pubs : phase[p] # "absent" => id[p] \in Ids
  /\ seqNum \in [Pubs -> Nat]
  /\ log \in [Pubs -> Seq(Packet)]

\* Entry k of a log carries sequence number k - 1 and the message of that rank.
LogNumbered ==
  \A p \in Pubs : \A k \in 1..Len(log[p]) :
    /\ log[p][k].type = "data"
    /\ log[p][k].seq = k - 1
    /\ log[p][k].msg = [pub |-> p, n |-> k - 1]

\* The three copies of the sequence number agree: a request resolved by the
\* TopicPublisher, a reply of the SyncPublisher and the name of the next packet
\* speak of the same stream (Publisher::push, TopicPublisher::push).
Lockstep ==
  \A p \in Pubs :
    /\ tSeqNum[p] = Len(log[p])
    /\ seqNum[p] = Len(log[p])
    /\ log[p] = <<>> => content[p] = NoContent
    /\ log[p] # <<>> => /\ sSeqNum[p] = Len(log[p]) - 1
                        /\ content[p] = log[p][Len(log[p])].msg

\* The queue is the end of the log, as long as the window allows: the
\* index _queue.size() - diff of onInterest relies on it.
IsWindowOf(q, l) ==
  /\ Len(q) = IF Len(l) < Window THEN Len(l) ELSE Window
  /\ \A j \in 1..Len(q) : q[j] = l[Len(l) - Len(q) + j]

WindowIsSuffix == \A p \in Pubs : IsWindowOf(queue[p], log[p])

\* A request is answered exactly when its packet is one of the last Window, and
\* the packet picked by the index arithmetic is the one that was asked for.
AnswersInWindow ==
  \A p \in Pubs : \A k \in 0..Len(log[p]) - 1 :
    /\ InWindow(p, k) <=> k >= Len(log[p]) - Window
    /\ InWindow(p, k) => Answer(p, k) = log[p][k + 1]

\* No recorded request is left behind by the stream: what is still in
\* _req_seq_num has not been produced yet (topic.hpp, push).
RequestsAhead ==
  \A p \in Pubs : \A k \in reqSeqNum[p] : k >= Len(log[p])

\* Whatever a publisher put on the network is a packet it produced, or a sync
\* reply that pairs a sequence number with the message of that number.
AnswersGenuine ==
  \A d \in net :
    \E p \in Pubs :
      /\ d.seq < Len(log[p])
      /\ d.type = "data" => d = log[p][d.seq + 1]
      /\ d.type = "sync" => d.msg = log[p][d.seq + 1].msg

\* An identifier announced by a heartbeat is one some publisher serves, except
\* for the 0 every heartbeat starts with: discovery never sends a subscriber
\* to an identifier that is only being probed.
AnnouncedServed ==
  \A i \in announced : i = 0 \/ \E p \in Pubs : filter[p] = i /\ id[p] = i

\* A message published before the claim carries the identifier that was being
\* probed, which may not be the one that is served then (rmw_pub.cpp:109).  No peer
\* misses it: whatever message a sync reply of an identifier is about, all the later
\* ones are named with that identifier.
NamedAsServed ==
  \A d \in net : d.type = "sync" =>
    \A k \in d.seq + 1..Len(log[d.msg.pub]) - 1 : log[d.msg.pub][k + 1].id = d.id

\* A request recorded as early is answered by the very push that produces its
\* packet: there is no window between the two where it is forgotten.
EarlyRequestsAnswered ==
  [][\A p \in Pubs : \A k \in reqSeqNum[p] :
       \/ k \in reqSeqNum'[p]
       \/ /\ Len(log'[p]) = k + 1
          /\ log'[p][k + 1] \in net']_pubVars

\* The publisher implements the log it promises.
Promise == INSTANCE PublisherLog WITH waiting <- reqSeqNum

ImplementsLog == Promise!LogSpec
=============================================================================
