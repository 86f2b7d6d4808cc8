-------------------------- MODULE TopicPublisher --------------------------
(***************************************************************************)
(* class TopicPublisher (topic.hpp): the last Window data packets of a     *)
(* publisher, and the requests for packets it has not produced yet.        *)
(***************************************************************************)
EXTENDS NdnFace

CONSTANT Window     \* TopicPublisher::WINDOW

ASSUME WindowAssumption == Window \in Nat \ {0}

VARIABLES
  tSeqNum,      \* _seq_num, the sequence number of the next packet
  reqSeqNum,    \* _req_seq_num, the requests that came too early
  queue         \* _queue, the packets kept, oldest first

topicVars == <<tSeqNum, reqSeqNum, queue>>

TopicInit ==
  /\ tSeqNum = [p \in Pubs |-> 0]
  /\ reqSeqNum = [p \in Pubs |-> {}]
  /\ queue = [p \in Pubs |-> <<>>]

TopicTypeOK ==
  /\ tSeqNum \in [Pubs -> Nat]
  /\ reqSeqNum \in [Pubs -> SUBSET Nat]
  /\ queue \in [Pubs -> Seq(Packet)]

\* Mutant of Trim: the window holds one packet less.
TrimEarly(q) == IF Len(q) >= Window THEN Tail(q) ELSE q

Trim(q) == IF Len(q) > Window THEN Tail(q) ELSE q

\* Mutant of TopicPush: the request is erased and its packet is not sent.
TopicPushForgets(p, d) ==
  /\ reqSeqNum' = [reqSeqNum EXCEPT ![p] = @ \ {tSeqNum[p]}]
  /\ queue' = [queue EXCEPT ![p] = Trim(Append(@, d))]
  /\ tSeqNum' = [tSeqNum EXCEPT ![p] = @ + 1]
  /\ UNCHANGED net

(***************************************************************************)
(* TopicPublisher::push.  The packet goes out at once when it was already  *)
(* asked for.                                                              *)
(***************************************************************************)
TopicPush(p, d) ==
  /\ net' = IF tSeqNum[p] \in reqSeqNum[p] THEN net \cup {d} ELSE net
  /\ reqSeqNum' = [reqSeqNum EXCEPT ![p] = @ \ {tSeqNum[p]}]
  /\ queue' = [queue EXCEPT ![p] = Trim(Append(@, d))]
  /\ tSeqNum' = [tSeqNum EXCEPT ![p] = @ + 1]

(***************************************************************************)
(* TopicPublisher::onInterest.  Nothing happens while the queue is empty   *)
(* and when the packet asked for has left the window: those two early      *)
(* returns are the steps that this action does not take.                   *)
(***************************************************************************)
\* Mutant of RecordRequest: the last packet counts as not produced.
RecordRequestLate(p, k) ==
  /\ k >= tSeqNum[p] - 1
  /\ reqSeqNum' = [reqSeqNum EXCEPT ![p] = @ \cup {k}]
  /\ UNCHANGED net

RecordRequest(p, k) ==
  /\ k >= tSeqNum[p]
  /\ reqSeqNum' = [reqSeqNum EXCEPT ![p] = @ \cup {k}]
  /\ UNCHANGED net

InWindow(p, k) ==
  /\ k < tSeqNum[p]
  /\ tSeqNum[p] - k <= Len(queue[p])

\* Mutant of Answer: the queue is indexed like a ring buffer.
AnswerOfRing(p, k) == queue[p][(k % Window) + 1]

\* The element _queue[_queue.size() - diff_seq_num]
Answer(p, k) == queue[p][Len(queue[p]) - (tSeqNum[p] - k) + 1]

AnswerRequest(p, k) ==
  /\ InWindow(p, k)
  /\ Put(Answer(p, k))
  /\ UNCHANGED reqSeqNum

\* Mutant of TopicOnInterest: no test for an empty queue.
TopicOnInterestEmpty(p, x) ==
  /\ x.type = "data"
  /\ x.id = filter[p]
  /\ RecordRequest(p, x.seq) \/ AnswerRequest(p, x.seq)
  /\ UNCHANGED <<tSeqNum, queue>>

TopicOnInterest(p, x) ==
  /\ x.type = "data"
  /\ x.id = filter[p]
  /\ queue[p] # <<>>
  /\ RecordRequest(p, x.seq) \/ AnswerRequest(p, x.seq)
  /\ UNCHANGED <<tSeqNum, queue>>
=============================================================================
