---------------------------- MODULE RmwNdnProofs ----------------------------
(***************************************************************************)
(* Proofs about the publishers, the process with subscriptions and the     *)
(* topic they make up, for every number of them, of identifiers, nonces    *)
(* and messages, every window and every network.                           *)
(*                                                                         *)
(* Part 1 proves the publishers alone right, against any peers; part 2 the *)
(* process with subscriptions alone, against any peers; part 3 composes    *)
(* them.  The two invariants hold together: what one side does to the wire *)
(* and to the network is something its peers may do in the other's own     *)
(* specification.                                                          *)
(***************************************************************************)
EXTENDS RmwNdn, FiniteSetTheorems, SequenceTheorems, TLAPS

USE DEF NoId, NoNonce

-----------------------------------------------------------------------------
(***************************************************************************)
(* Part 1.  Publisher.                                                     *)
(***************************************************************************)

(* Facts about the operators the actions are built from. *)

\* TopicPublisher::push keeps its queue a sequence and drops at most the oldest
\* packet: what stays is the end of what was there.
LEMMA TrimIsSuffix ==
  ASSUME NEW S, NEW q \in Seq(S)
  PROVE  /\ Trim(q) \in Seq(S)
         /\ Len(Trim(q)) = IF Len(q) > Window THEN Len(q) - 1 ELSE Len(q)
         /\ \A j \in 1..Len(Trim(q)) :
              Trim(q)[j] = q[Len(q) - Len(Trim(q)) + j]
<1>1. CASE Len(q) > Window
  <2>1. q # <<>>
    BY <1>1, WindowAssumption
  <2>2. Trim(q) = Tail(q)
    BY <1>1 DEF Trim
  <2>3. /\ Tail(q) \in Seq(S)
        /\ Len(Tail(q)) = Len(q) - 1
        /\ \A j \in 1..Len(q) - 1 : Tail(q)[j] = q[j + 1]
    BY <2>1
  <2> QED
    BY <1>1, <2>2, <2>3
<1>2. CASE ~(Len(q) > Window)
  BY <1>2 DEF Trim
<1> QED
  BY <1>1, <1>2

\* The names a peer can send are interests of the model.
LEMMA PeerInterestIsInterest == PeerInterest \subseteq Interest
  BY FaceAssumption, MaxPublishAssumption
     DEF PeerInterest, Interest, SyncInterest, DataInterest

LEMMA DataPacketType ==
  ASSUME NEW i \in Ids, NEW k \in Nat, NEW m \in Message
  PROVE  DataPacket(i, k, m) \in Packet
  BY DEF DataPacket, Packet

LEMMA SyncPacketType ==
  ASSUME NEW i \in Ids, NEW n \in Nonces \cup {NoNonce}, NEW k \in Nat,
         NEW m \in Message
  PROVE  SyncPacket(i, n, k, m) \in Packet
  BY DEF SyncPacket, Packet

-----------------------------------------------------------------------------
(* Type correctness. *)

LEMMA TypeInit == PublisherInit /\ FaceInit => PublisherTypeOK
  BY FaceAssumption
     DEF PublisherInit, FaceInit, TopicInit, SyncInit, HeartbeatInit,
         PublisherTypeOK, FaceTypeOK, TopicTypeOK, SyncTypeOK, HeartbeatTypeOK

LEMMA TypeStep == PublisherTypeOK /\ [PublisherNext]_pubVars => PublisherTypeOK'
<1> SUFFICES ASSUME PublisherTypeOK, [PublisherNext]_pubVars
             PROVE  PublisherTypeOK'
  OBVIOUS
<1> USE DEF PublisherTypeOK, FaceTypeOK, TopicTypeOK, SyncTypeOK,
            HeartbeatTypeOK
<1>1. ASSUME NEW p \in Pubs, NEW i \in Ids, Create(p, i)
      PROVE  PublisherTypeOK'
  <2>1. SyncInterest(i, NoNonce) \in Interest
    BY DEF SyncInterest, Interest
  <2> QED
    BY <1>1, <2>1, FaceAssumption
       DEF Create, StartHeartbeat, ExpressInterests, topicVars, syncVars
<1>2. ASSUME NEW p \in Pubs, NEW i \in Ids, OnUsedId(p, i)
      PROVE  PublisherTypeOK'
  <2>1. SyncInterest(i, NoNonce) \in Interest
    BY DEF SyncInterest, Interest
  <2> QED
    BY <1>2, <2>1 DEF OnUsedId, ExpressInterests, topicVars, syncVars
<1>3. ASSUME NEW p \in Pubs, OnFreeId(p)
      PROVE  PublisherTypeOK'
  BY <1>3 DEF OnFreeId, SetHeartbeatName, topicVars, syncVars
<1>4. ASSUME NEW p \in Pubs, Push(p)
      PROVE  PublisherTypeOK'
  <2> DEFINE m == [pub |-> p, n |-> Len(log[p])]
             d == DataPacket(id[p], seqNum[p], m)
  <2>1. m \in Message
    BY DEF Message
  <2>2. d \in Packet
    BY <1>4, <2>1, DataPacketType DEF Push
  <2> HIDE DEF m, d
  <2>3. /\ sSeqNum' = [sSeqNum EXCEPT ![p] = seqNum[p]]
        /\ content' = [content EXCEPT ![p] = m]
        /\ seqNum' = [seqNum EXCEPT ![p] = @ + 1]
        /\ log' = [log EXCEPT ![p] = Append(@, d)]
        /\ TopicPush(p, d)
        /\ UNCHANGED <<heartbeatId, phase, id, wire, announced, filter>>
    BY <1>4 DEF Push, SyncPush, m, d
  <2>4. Append(queue[p], d) \in Seq(Packet) /\ Append(log[p], d) \in Seq(Packet)
    BY <2>2
  <2>5. Trim(Append(queue[p], d)) \in Seq(Packet)
    BY <2>4, TrimIsSuffix
  <2>6. TopicTypeOK' /\ net' \subseteq Packet
    BY <2>2, <2>3, <2>5 DEF TopicPush
  <2>7. SyncTypeOK' /\ seqNum' \in [Pubs -> Nat]
    BY <2>1, <2>3
  <2>8. log' \in [Pubs -> Seq(Packet)]
    BY <2>3, <2>4
  <2>9. FaceTypeOK' /\ HeartbeatTypeOK'
    BY <2>3, <2>6
  <2> QED
    BY <2>3, <2>6, <2>7, <2>8, <2>9
<1>5. ASSUME NEW p \in Pubs, SendHeartbeat(p)
      PROVE  PublisherTypeOK'
  BY <1>5 DEF SendHeartbeat, Heartbeat, topicVars, syncVars, publisherVars
<1>6. ASSUME NEW p \in Pubs, NEW x \in PeerInterest, ReceiveInterest(p, x)
      PROVE  PublisherTypeOK'
  <2>1. x \in Interest
    BY PeerInterestIsInterest
  <2>2. CASE TopicOnInterest(p, x) /\ UNCHANGED syncVars
    <3>1. CASE RecordRequest(p, x.seq)
      <4>1. x.seq \in Nat
        BY <2>1 DEF Interest
      <4> QED
        BY <1>6, <2>2, <3>1, <4>1
           DEF ReceiveInterest, TopicOnInterest, RecordRequest, syncVars,
               publisherVars
    <3>2. CASE AnswerRequest(p, x.seq)
      <4> DEFINE diff == tSeqNum[p] - x.seq
      <4>1. x.seq \in Nat /\ diff \in 1..Len(queue[p])
        BY <2>1, <3>2 DEF AnswerRequest, InWindow, Interest
      <4>2. Answer(p, x.seq) \in Packet
        BY <4>1 DEF Answer
      <4> QED
        BY <1>6, <2>2, <3>2, <4>2
           DEF ReceiveInterest, TopicOnInterest, AnswerRequest, Put, syncVars,
               publisherVars
    <3> QED
      BY <2>2, <3>1, <3>2 DEF TopicOnInterest
  <2>3. CASE SyncOnInterest(p, x) /\ UNCHANGED topicVars
    <3>1. x.id \in Ids /\ x.nonce \in Nonces \cup {NoNonce}
      BY <2>1 DEF Interest
    <3>2. SyncPacket(x.id, x.nonce, sSeqNum[p], content[p]) \in Packet
      BY <2>3, <3>1, SyncPacketType DEF SyncOnInterest
    <3> QED
      BY <1>6, <2>3, <3>2
         DEF ReceiveInterest, SyncOnInterest, Put, topicVars, syncVars,
             publisherVars
  <2> QED
    BY <1>6, <2>2, <2>3 DEF ReceiveInterest
<1>7. CASE UNCHANGED pubVars
  BY <1>7 DEF pubVars, topicVars, syncVars, publisherVars, faceVars
<1> QED
  BY <1>1, <1>2, <1>3, <1>4, <1>5, <1>6, <1>7 DEF PublisherNext

\* Every variable of the publishers keeps its type.
THEOREM PublisherTypeCorrect == PublisherSpec => []PublisherTypeOK
  BY TypeInit, TypeStep, PTL DEF PublisherSpec, AloneInit

-----------------------------------------------------------------------------
(***************************************************************************)
(* The stream.  WindowIsSuffix is not inductive alone: that the packet     *)
(* pushed carries the rank of the log needs the copies of the sequence     *)
(* number to agree (Lockstep), and that a recorded request is the next     *)
(* packet or a later one needs RequestsAhead.                              *)
(***************************************************************************)
StreamInv == LogNumbered /\ Lockstep /\ WindowIsSuffix

StreamState == <<tSeqNum, queue, sSeqNum, content, seqNum, log>>

PubInv == PublisherTypeOK /\ StreamInv /\ RequestsAhead /\ AnswersGenuine

\* Of all the steps, only rmw_publish moves the stream.
LEMMA OnlyPushMovesStream ==
  ASSUME [PublisherNext]_pubVars, \A p \in Pubs : ~Push(p)
  PROVE  UNCHANGED StreamState
<1> USE DEF topicVars, syncVars, publisherVars, faceVars, StreamState
<1>1. ASSUME NEW p \in Pubs, NEW x \in PeerInterest, ReceiveInterest(p, x)
      PROVE  UNCHANGED StreamState
  BY <1>1 DEF ReceiveInterest, TopicOnInterest, SyncOnInterest
<1>2. CASE UNCHANGED pubVars
  BY <1>2 DEF pubVars
<1>3. ASSUME NEW p \in Pubs, NEW i \in Ids, Create(p, i) \/ OnUsedId(p, i)
      PROVE  UNCHANGED StreamState
  BY <1>3 DEF Create, OnUsedId
<1>4. ASSUME NEW p \in Pubs, OnFreeId(p) \/ SendHeartbeat(p)
      PROVE  UNCHANGED StreamState
  BY <1>4 DEF OnFreeId, SendHeartbeat
<1> QED
  BY <1>1, <1>2, <1>3, <1>4 DEF PublisherNext

\* What one push does to the log and to the queue of its publisher.
LEMMA PushAppends ==
  ASSUME PublisherTypeOK, Lockstep, NEW p \in Pubs, Push(p)
  PROVE  LET n == Len(log[p])
             m == [pub |-> p, n |-> n]
             d == DataPacket(id[p], n, m)
         IN  /\ d \in Packet
             /\ m \in Message
             /\ log' = [log EXCEPT ![p] = Append(log[p], d)]
             /\ queue' = [queue EXCEPT ![p] = Trim(Append(queue[p], d))]
             /\ tSeqNum' = [tSeqNum EXCEPT ![p] = n + 1]
             /\ seqNum' = [seqNum EXCEPT ![p] = n + 1]
             /\ sSeqNum' = [sSeqNum EXCEPT ![p] = n]
             /\ content' = [content EXCEPT ![p] = m]
             /\ reqSeqNum' = [reqSeqNum EXCEPT ![p] = reqSeqNum[p] \ {n}]
             /\ net' = IF n \in reqSeqNum[p] THEN net \cup {d} ELSE net
<1> DEFINE n == Len(log[p])
           m == [pub |-> p, n |-> n]
           d == DataPacket(id[p], n, m)
<1>1. n \in Nat /\ m \in Message
  BY DEF Message, PublisherTypeOK
<1>2. id[p] \in Ids
  BY DEF Push, PublisherTypeOK
<1>3. d \in Packet
  BY <1>1, <1>2, DataPacketType
<1>4. seqNum[p] = n /\ tSeqNum[p] = n
  BY DEF Lockstep
<1> QED
  BY <1>1, <1>3, <1>4
     DEF Push, SyncPush, TopicPush, PublisherTypeOK, TopicTypeOK

LEMMA StreamInit == PublisherInit /\ FaceInit => StreamInv
  BY WindowAssumption
     DEF PublisherInit, TopicInit, SyncInit, StreamInv, LogNumbered, Lockstep,
         WindowIsSuffix, IsWindowOf

LEMMA StreamStep ==
  ASSUME PublisherTypeOK, StreamInv, [PublisherNext]_pubVars
  PROVE  StreamInv'
<1>1. CASE \A p \in Pubs : ~Push(p)
  <2>1. UNCHANGED StreamState
    BY <1>1, OnlyPushMovesStream
  <2> QED
    BY <2>1 DEF StreamState, StreamInv, LogNumbered, Lockstep, WindowIsSuffix
<1>2. ASSUME NEW p \in Pubs, Push(p)
      PROVE  StreamInv'
  <2> DEFINE n == Len(log[p])
             m == [pub |-> p, n |-> n]
             d == DataPacket(id[p], n, m)
             r == Append(queue[p], d)
  <2>1. /\ d \in Packet
        /\ log' = [log EXCEPT ![p] = Append(log[p], d)]
        /\ queue' = [queue EXCEPT ![p] = Trim(r)]
        /\ tSeqNum' = [tSeqNum EXCEPT ![p] = n + 1]
        /\ seqNum' = [seqNum EXCEPT ![p] = n + 1]
        /\ sSeqNum' = [sSeqNum EXCEPT ![p] = n]
        /\ content' = [content EXCEPT ![p] = m]
    BY <1>2, PushAppends DEF StreamInv
  <2>2. d.type = "data" /\ d.seq = n /\ d.msg = m
    BY DEF DataPacket
  <2> HIDE DEF d
  <2>3. /\ log \in [Pubs -> Seq(Packet)]
        /\ queue \in [Pubs -> Seq(Packet)]
        /\ n \in Nat
        /\ tSeqNum \in [Pubs -> Nat] /\ seqNum \in [Pubs -> Nat]
        /\ sSeqNum \in [Pubs -> Nat]
        /\ content \in [Pubs -> Message \cup {NoContent}]
    BY DEF PublisherTypeOK, TopicTypeOK, SyncTypeOK
  <2>4. /\ log'[p] = Append(log[p], d)
        /\ Len(log'[p]) = n + 1
        /\ \A k \in 1..n : log'[p][k] = log[p][k]
        /\ log'[p][n + 1] = d
    BY <2>1, <2>3
  <2>5. \A q \in Pubs \ {p} : /\ log'[q] = log[q] /\ queue'[q] = queue[q]
                              /\ tSeqNum'[q] = tSeqNum[q]
                              /\ seqNum'[q] = seqNum[q]
                              /\ sSeqNum'[q] = sSeqNum[q]
                              /\ content'[q] = content[q]
    BY <2>1, <2>3
  <2>6. LogNumbered'
    <3> SUFFICES ASSUME NEW q \in Pubs, NEW k \in 1..Len(log'[q])
                 PROVE  /\ log'[q][k].type = "data"
                        /\ log'[q][k].seq = k - 1
                        /\ log'[q][k].msg = [pub |-> q, n |-> k - 1]
      BY DEF LogNumbered
    <3>1. \A j \in 1..Len(log[q]) :
            /\ log[q][j].type = "data"
            /\ log[q][j].seq = j - 1
            /\ log[q][j].msg = [pub |-> q, n |-> j - 1]
      BY DEF StreamInv, LogNumbered
    <3>2. CASE q # p
      BY <2>5, <3>1, <3>2
    <3>3. CASE q = p /\ k \in 1..n
      BY <2>4, <3>1, <3>3
    <3>4. CASE q = p /\ k = n + 1
      BY <2>2, <2>3, <2>4, <3>4
    <3> QED
      BY <2>3, <2>4, <3>2, <3>3, <3>4
  <2>7. Lockstep'
    <3>1. tSeqNum'[p] = n + 1 /\ seqNum'[p] = n + 1
      BY <2>1, <2>3
    <3>2. sSeqNum'[p] = n /\ content'[p] = m
      BY <2>1, <2>3
    <3>3. log'[p] # <<>>
      BY <2>1, <2>3, AppendProperties
    <3>4. content'[p] = log'[p][n + 1].msg
      BY <2>2, <2>4, <3>2
    <3> SUFFICES ASSUME NEW q \in Pubs
                 PROVE  /\ tSeqNum'[q] = Len(log'[q])
                        /\ seqNum'[q] = Len(log'[q])
                        /\ log'[q] = <<>> => content'[q] = NoContent
                        /\ log'[q] # <<>> =>
                             /\ sSeqNum'[q] = Len(log'[q]) - 1
                             /\ content'[q] = log'[q][Len(log'[q])].msg
      BY DEF Lockstep
    <3>5. CASE q = p
      BY <2>3, <2>4, <3>1, <3>2, <3>3, <3>4, <3>5
    <3>6. CASE q # p
      BY <2>5, <3>6 DEF StreamInv, Lockstep
    <3> QED
      BY <3>5, <3>6
  <2>8. WindowIsSuffix'
    <3>1. /\ r \in Seq(Packet)
          /\ Len(r) = Len(queue[p]) + 1
          /\ \A j \in 1..Len(queue[p]) : r[j] = queue[p][j]
          /\ r[Len(r)] = d
      BY <2>1, <2>3
    <3>2. \A j \in 1..Len(r) : r[j] = log'[p][n + 1 - Len(r) + j]
      <4>1. Len(queue[p]) <= n /\ Len(queue[p]) \in Nat
        BY <2>3, WindowAssumption DEF StreamInv, WindowIsSuffix, IsWindowOf
      <4>2. \A j \in 1..Len(queue[p]) :
              queue[p][j] = log[p][n - Len(queue[p]) + j]
        BY DEF StreamInv, WindowIsSuffix, IsWindowOf
      <4> QED
        BY <2>3, <2>4, <3>1, <4>1, <4>2
    <3> HIDE DEF r
    <3>3. /\ Len(Trim(r)) = IF Len(r) > Window THEN Len(r) - 1 ELSE Len(r)
          /\ \A j \in 1..Len(Trim(r)) :
               Trim(r)[j] = r[Len(r) - Len(Trim(r)) + j]
      BY <3>1, TrimIsSuffix
    <3>4. queue'[p] = Trim(r)
      BY <2>1, <2>3
    <3>5. Len(queue[p]) = IF n < Window THEN n ELSE Window
      BY DEF StreamInv, WindowIsSuffix, IsWindowOf
    <3>6. Len(Trim(r)) = IF Len(log'[p]) < Window THEN Len(log'[p]) ELSE Window
      BY <2>3, <2>4, <3>1, <3>3, <3>5, WindowAssumption
    <3>7. \A j \in 1..Len(Trim(r)) :
            Trim(r)[j] = log'[p][Len(log'[p]) - Len(Trim(r)) + j]
      <4> TAKE j \in 1..Len(Trim(r))
      <4> DEFINE h == Len(r) - Len(Trim(r)) + j
      <4>1. Len(r) \in Nat /\ Len(Trim(r)) \in Nat
        BY <2>3, <3>1, <3>3
      <4>2. h \in 1..Len(r)
        BY <3>3, <4>1
      <4>3. r[h] = log'[p][n + 1 - Len(r) + h]
        BY <3>2, <4>2
      <4>4. n + 1 - Len(r) + h = Len(log'[p]) - Len(Trim(r)) + j
        BY <2>3, <2>4, <4>1
      <4> QED
        BY <3>3, <4>3, <4>4
    <3>8. IsWindowOf(Trim(r), log'[p])
      BY <3>6, <3>7 DEF IsWindowOf
    <3> QED
      BY <2>5, <3>4, <3>8 DEF StreamInv, WindowIsSuffix
  <2> QED
    BY <2>6, <2>7, <2>8 DEF StreamInv
<1> QED
  BY <1>1, <1>2

-----------------------------------------------------------------------------
(* What the handlers answer, in terms of the log. *)

\* The window of TopicPublisher::onInterest is the end of the log.
LEMMA WindowIsRecent ==
  ASSUME PublisherTypeOK, StreamInv, NEW p \in Pubs, NEW k \in Nat,
         k < Len(log[p])
  PROVE  InWindow(p, k) <=> k >= Len(log[p]) - Window
<1> DEFINE n == Len(log[p])
           l == Len(queue[p])
<1>1. n \in Nat /\ l \in Nat /\ l = IF n < Window THEN n ELSE Window
  BY DEF PublisherTypeOK, TopicTypeOK, StreamInv, WindowIsSuffix, IsWindowOf
<1>2. tSeqNum[p] = n
  BY DEF StreamInv, Lockstep
<1>3. InWindow(p, k) <=> n - k <= l
  BY <1>2 DEF InWindow
<1> HIDE DEF n, l
<1> QED
  BY <1>1, <1>3, WindowAssumption DEF n

\* Its index arithmetic picks the entry that was asked for.
LEMMA AnswerIsEntry ==
  ASSUME PublisherTypeOK, StreamInv, NEW p \in Pubs, NEW k \in Nat,
         InWindow(p, k)
  PROVE  /\ k \in 0..Len(log[p]) - 1
         /\ k >= Len(log[p]) - Window
         /\ Answer(p, k) = log[p][k + 1]
<1> DEFINE n == Len(log[p])
           l == Len(queue[p])
           j == l - (n - k) + 1
<1>1. n \in Nat /\ l \in Nat /\ l <= Window
  BY WindowAssumption
     DEF PublisherTypeOK, TopicTypeOK, StreamInv, WindowIsSuffix, IsWindowOf
<1>2. tSeqNum[p] = n
  BY DEF StreamInv, Lockstep
<1>3. k < n /\ n - k <= l
  BY <1>2 DEF InWindow
<1> HIDE DEF n, l
<1>4. j \in 1..l
  BY <1>1, <1>3
<1>5. queue[p][j] = log[p][n - l + j]
  BY <1>4 DEF n, l, StreamInv, WindowIsSuffix, IsWindowOf
<1>6. n - l + j = k + 1
  BY <1>1
<1> USE DEF n, l
<1>7. Answer(p, k) = queue[p][j]
  BY <1>2 DEF Answer
<1> QED
  BY <1>1, <1>3, <1>5, <1>6, <1>7, WindowAssumption

\* SyncPublisher::onInterest pairs the last message with its own number.
LEMMA SyncIsLast ==
  ASSUME PublisherTypeOK, StreamInv, NEW p \in Pubs, NEW x, SyncOnInterest(p, x)
  PROVE  /\ Len(log[p]) \in Nat /\ Len(log[p]) > 0
         /\ net' = net \cup {SyncPacket(x.id, x.nonce, Len(log[p]) - 1,
                                        log[p][Len(log[p])].msg)}
<1>1. log[p] # <<>>
  BY DEF SyncOnInterest, StreamInv, Lockstep
<1>2. log[p] \in Seq(Packet)
  BY DEF PublisherTypeOK
<1>3. Len(log[p]) \in Nat /\ Len(log[p]) > 0
  BY <1>1, <1>2, EmptySeq
<1> QED
  BY <1>1, <1>3 DEF SyncOnInterest, StreamInv, Lockstep, Put

\* The log only grows.
LEMMA LogGrows ==
  ASSUME PublisherTypeOK, StreamInv, [PublisherNext]_pubVars, NEW q \in Pubs
  PROVE  /\ Len(log[q]) \in Nat /\ Len(log'[q]) \in Nat
         /\ Len(log'[q]) >= Len(log[q])
         /\ \A k \in 1..Len(log[q]) : log'[q][k] = log[q][k]
<1>1. CASE \A p \in Pubs : ~Push(p)
  BY <1>1, OnlyPushMovesStream DEF StreamState, PublisherTypeOK
<1>2. ASSUME NEW p \in Pubs, Push(p)
      PROVE  /\ Len(log[q]) \in Nat /\ Len(log'[q]) \in Nat
             /\ Len(log'[q]) >= Len(log[q])
             /\ \A k \in 1..Len(log[q]) : log'[q][k] = log[q][k]
  <2> DEFINE d == DataPacket(id[p], Len(log[p]), [pub |-> p, n |-> Len(log[p])])
  <2>1. d \in Packet /\ log' = [log EXCEPT ![p] = Append(log[p], d)]
    BY <1>2, PushAppends DEF StreamInv
  <2> HIDE DEF d
  <2> QED
    BY <2>1 DEF PublisherTypeOK
<1> QED
  BY <1>1, <1>2

-----------------------------------------------------------------------------
(* Requests and answers. *)

LEMMA RequestsAheadStep ==
  ASSUME PublisherTypeOK, StreamInv, RequestsAhead, [PublisherNext]_pubVars
  PROVE  RequestsAhead'
<1> USE DEF topicVars, syncVars, publisherVars, faceVars
<1>1. ASSUME NEW p \in Pubs, Push(p)
      PROVE  RequestsAhead'
  <2> DEFINE d == DataPacket(id[p], Len(log[p]), [pub |-> p, n |-> Len(log[p])])
  <2>1. /\ d \in Packet
        /\ log' = [log EXCEPT ![p] = Append(log[p], d)]
        /\ reqSeqNum' = [reqSeqNum EXCEPT ![p] = reqSeqNum[p] \ {Len(log[p])}]
    BY <1>1, PushAppends DEF StreamInv
  <2> HIDE DEF d
  <2>2. /\ log \in [Pubs -> Seq(Packet)] /\ reqSeqNum \in [Pubs -> SUBSET Nat]
    BY DEF PublisherTypeOK, TopicTypeOK
  <2>3. Len(log'[p]) = Len(log[p]) + 1
    BY <2>1, <2>2
  <2>4. \A k \in reqSeqNum'[p] : k \in Nat /\ k >= Len(log[p]) /\ k # Len(log[p])
    BY <2>1, <2>2 DEF RequestsAhead
  <2>5. \A k \in reqSeqNum'[p] : k >= Len(log'[p])
    BY <2>2, <2>3, <2>4
  <2>6. \A q \in Pubs \ {p} : log'[q] = log[q] /\ reqSeqNum'[q] = reqSeqNum[q]
    BY <2>1, <2>2
  <2> QED
    BY <2>5, <2>6 DEF RequestsAhead
<1>2. CASE \A p \in Pubs : ~Push(p)
  <2>1. log' = log
    BY <1>2, OnlyPushMovesStream DEF StreamState
  <2>2. ASSUME NEW p \in Pubs, NEW x \in PeerInterest, ReceiveInterest(p, x)
        PROVE  RequestsAhead'
    <3>1. CASE reqSeqNum' = reqSeqNum
      BY <2>1, <3>1 DEF RequestsAhead
    <3>2. CASE RecordRequest(p, x.seq)
      <4>1. x.seq >= Len(log[p])
        BY <3>2 DEF RecordRequest, StreamInv, Lockstep
      <4> QED
        BY <2>1, <3>2, <4>1
           DEF RecordRequest, RequestsAhead, PublisherTypeOK, TopicTypeOK
    <3> QED
      BY <2>2, <3>1, <3>2
         DEF ReceiveInterest, TopicOnInterest, SyncOnInterest, AnswerRequest
  <2>3. CASE reqSeqNum' = reqSeqNum
    BY <2>1, <2>3 DEF RequestsAhead
  <2> QED
    BY <1>2, <2>2, <2>3
       DEF PublisherNext, pubVars, Create, OnUsedId, OnFreeId, SendHeartbeat
<1> QED
  BY <1>1, <1>2

\* The predicate of AnswersGenuine on one packet.
Genuine(d) ==
  \E p \in Pubs :
    /\ d.seq < Len(log[p])
    /\ d.type = "data" => d = log[p][d.seq + 1]
    /\ d.type = "sync" => d.msg = log[p][d.seq + 1].msg

LEMMA GenuineStays ==
  ASSUME PublisherTypeOK, StreamInv, [PublisherNext]_pubVars, NEW d \in Packet,
         Genuine(d)
  PROVE  Genuine(d)'
<1>1. PICK p \in Pubs : /\ d.seq < Len(log[p])
                        /\ d.type = "data" => d = log[p][d.seq + 1]
                        /\ d.type = "sync" => d.msg = log[p][d.seq + 1].msg
  BY DEF Genuine
<1>2. d.seq \in Nat
  BY DEF Packet
<1>3. /\ d.seq < Len(log'[p])
      /\ log'[p][d.seq + 1] = log[p][d.seq + 1]
  BY <1>1, <1>2, LogGrows
<1> QED
  BY <1>1, <1>3 DEF Genuine

\* Entry k of a log is genuine.
LEMMA EntryGenuine ==
  ASSUME LogNumbered, NEW p \in Pubs, NEW k \in 0..Len(log[p]) - 1,
         Len(log[p]) \in Nat
  PROVE  Genuine(log[p][k + 1])
<1>1. PICK j \in 1..Len(log[p]) : j = k + 1 /\ j - 1 = k
  OBVIOUS
<1>2. log[p][j].type = "data" /\ log[p][j].seq = k
  BY <1>1 DEF LogNumbered
<1> QED
  BY <1>1, <1>2 DEF Genuine

LEMMA GenuineStep ==
  ASSUME PublisherTypeOK, StreamInv, AnswersGenuine, [PublisherNext]_pubVars
  PROVE  AnswersGenuine'
<1> USE DEF topicVars, syncVars, publisherVars, faceVars
<1>1. \A d \in net : Genuine(d)'
  BY GenuineStays DEF AnswersGenuine, Genuine, PublisherTypeOK, FaceTypeOK
<1>2. SUFFICES \A d \in net' : d \in net \/ Genuine(d)'
  BY <1>1 DEF AnswersGenuine, Genuine
<1>3. ASSUME NEW p \in Pubs, Push(p)
      PROVE  \A d \in net' : d \in net \/ Genuine(d)'
  <2> DEFINE n == Len(log[p])
             e == DataPacket(id[p], n, [pub |-> p, n |-> n])
  <2>1. /\ e \in Packet
        /\ log' = [log EXCEPT ![p] = Append(log[p], e)]
        /\ net' = IF n \in reqSeqNum[p] THEN net \cup {e} ELSE net
    BY <1>3, PushAppends DEF StreamInv
  <2>2. e.type = "data" /\ e.seq = n
    BY DEF DataPacket
  <2> HIDE DEF e
  <2>3. n \in Nat /\ Len(log'[p]) = n + 1 /\ log'[p][n + 1] = e
    BY <2>1 DEF PublisherTypeOK
  <2>4. ASSUME NEW d, d = e
        PROVE  Genuine(d)'
    BY <2>2, <2>3, <2>4 DEF Genuine
  <2> QED
    BY <2>1, <2>4
<1>4. ASSUME NEW p \in Pubs, NEW x \in PeerInterest, ReceiveInterest(p, x)
      PROVE  \A d \in net' : d \in net \/ Genuine(d)'
  <2>1. UNCHANGED log
    BY <1>4 DEF ReceiveInterest
  <2>2. x.seq \in Nat
    BY PeerInterestIsInterest DEF Interest
  <2>3. CASE AnswerRequest(p, x.seq)
    <3>1. /\ x.seq \in 0..Len(log[p]) - 1
          /\ net' = net \cup {log[p][x.seq + 1]}
      BY <2>2, <2>3, AnswerIsEntry DEF AnswerRequest, Put
    <3>2. Genuine(log[p][x.seq + 1])
      <4>1. Len(log[p]) \in Nat
        BY DEF PublisherTypeOK
      <4> QED
        BY <3>1, <4>1, EntryGenuine DEF StreamInv
    <3> QED
      BY <2>1, <3>1, <3>2 DEF Genuine
  <2>4. CASE SyncOnInterest(p, x)
    <3> DEFINE n == Len(log[p])
               e == SyncPacket(x.id, x.nonce, n - 1, log[p][n].msg)
    <3>1. n \in Nat /\ n > 0 /\ net' = net \cup {e}
      BY <2>4, SyncIsLast
    <3>2. e.type = "sync" /\ e.seq = n - 1 /\ e.msg = log[p][n].msg
      BY DEF SyncPacket
    <3>3. n - 1 < n /\ (n - 1) + 1 = n
      BY <3>1
    <3> HIDE DEF e
    <3>4. Genuine(e)
      BY <3>2, <3>3 DEF Genuine
    <3> QED
      BY <2>1, <3>1, <3>4 DEF Genuine
  <2> QED
    BY <1>4, <2>3, <2>4 DEF ReceiveInterest, TopicOnInterest, RecordRequest
<1>5. CASE net' = net
  BY <1>5
<1> QED
  BY <1>3, <1>4, <1>5
     DEF PublisherNext, pubVars, Create, OnUsedId, OnFreeId, SendHeartbeat,
         Heartbeat

-----------------------------------------------------------------------------
\* The inductive invariant holds, and with it every invariant it conjoins.
LEMMA PubInvHolds == PublisherSpec => []PubInv
<1>1. PublisherInit /\ FaceInit => PubInv
  <2>1. PublisherInit /\ FaceInit => RequestsAhead /\ AnswersGenuine
    BY DEF PublisherInit, FaceInit, TopicInit, RequestsAhead, AnswersGenuine
  <2> QED
    BY <2>1, TypeInit, StreamInit DEF PubInv
<1>2. PubInv /\ [PublisherNext]_pubVars => PubInv'
  BY TypeStep, StreamStep, RequestsAheadStep, GenuineStep DEF PubInv
<1> QED
  BY <1>1, <1>2, PTL DEF PublisherSpec, AloneInit

\* The three objects of a publisher always agree on where its stream is.
THEOREM LockstepCorrect == PublisherSpec => []Lockstep
<1>1. PubInv => Lockstep
  BY DEF PubInv, StreamInv
<1> QED
  BY <1>1, PubInvHolds, PTL

\* The queue a publisher answers from is always the end of what it published.
THEOREM WindowCorrect == PublisherSpec => []WindowIsSuffix
<1>1. PubInv => WindowIsSuffix
  BY DEF PubInv, StreamInv
<1> QED
  BY <1>1, PubInvHolds, PTL

\* The requests answered are those of the last Window packets, each with the
\* packet it names.
THEOREM AnswersInWindowCorrect == PublisherSpec => []AnswersInWindow
<1>1. PubInv => AnswersInWindow
  <2> SUFFICES ASSUME PubInv, NEW p \in Pubs, NEW k \in 0..Len(log[p]) - 1
               PROVE  /\ InWindow(p, k) <=> k >= Len(log[p]) - Window
                      /\ InWindow(p, k) => Answer(p, k) = log[p][k + 1]
    BY DEF AnswersInWindow
  <2>1. Len(log[p]) \in Nat
    BY DEF PubInv, PublisherTypeOK
  <2>2. k \in Nat /\ k < Len(log[p])
    BY <2>1
  <2> QED
    BY <2>2, WindowIsRecent, AnswerIsEntry DEF PubInv
<1> QED
  BY <1>1, PubInvHolds, PTL

\* A recorded early request never becomes a request for the past.
THEOREM RequestsAheadCorrect == PublisherSpec => []RequestsAhead
<1>1. PubInv => RequestsAhead
  BY DEF PubInv
<1> QED
  BY <1>1, PubInvHolds, PTL

\* Whatever a publisher sends is what it published, under its own number.
THEOREM AnswersCorrect == PublisherSpec => []AnswersGenuine
<1>1. PubInv => AnswersGenuine
  BY DEF PubInv
<1> QED
  BY <1>1, PubInvHolds, PTL

-----------------------------------------------------------------------------
(***************************************************************************)
(* The publisher implements PublisherLog: the queue, the three sequence    *)
(* numbers and the index arithmetic are invisible from the network.        *)
(***************************************************************************)
LEMMA InitImplements == PublisherInit /\ FaceInit => Promise!LogInit
  BY DEF PublisherInit, TopicInit, FaceInit, Promise!LogInit

\* A step on which the log, the requests and the network do not move.
LEMMA StutterImplements ==
  ASSUME UNCHANGED <<log, reqSeqNum, net>>
  PROVE  [Promise!LogNext]_Promise!logVars
  BY DEF Promise!logVars

LEMMA PushImplements ==
  ASSUME PubInv, NEW p \in Pubs, Push(p)
  PROVE  Promise!LogNext
<1> DEFINE n == Len(log[p])
           m == [pub |-> p, n |-> n]
           d == DataPacket(id[p], n, m)
<1>1. /\ log' = [log EXCEPT ![p] = Append(log[p], d)]
      /\ reqSeqNum' = [reqSeqNum EXCEPT ![p] = reqSeqNum[p] \ {n}]
      /\ net' = IF n \in reqSeqNum[p] THEN net \cup {d} ELSE net
  BY PushAppends DEF PubInv, StreamInv
<1>2. id[p] \in Ids
  BY DEF PubInv, PublisherTypeOK, Push
<1>3. d = Promise!DataPacket(id[p], n, m) /\ d.seq = n /\ d.msg = m
  BY DEF DataPacket, Promise!DataPacket, Promise!NoNonce
<1>4. Promise!Publish(p, d)
  BY <1>1, <1>3 DEF Promise!Publish, Promise!Produced
<1> QED
  BY <1>2, <1>3, <1>4 DEF Promise!LogNext, Promise!Produced

LEMMA ReceiveImplements ==
  ASSUME PubInv, NEW p \in Pubs, NEW x \in PeerInterest, ReceiveInterest(p, x)
  PROVE  [Promise!LogNext]_Promise!logVars
<1> USE DEF topicVars, syncVars, publisherVars, PubInv
<1>1. UNCHANGED log
  BY DEF ReceiveInterest
<1>2. x.seq \in Nat /\ x.id \in Ids /\ x.nonce \in Nonces \cup {NoNonce}
  BY PeerInterestIsInterest DEF Interest
<1>3. Len(log[p]) \in Nat
  BY DEF PublisherTypeOK
<1>4. CASE RecordRequest(p, x.seq) /\ queue[p] # <<>>
  <2>1. x.seq >= Len(log[p]) /\ UNCHANGED net
    BY <1>4 DEF RecordRequest, StreamInv, Lockstep
  <2>2. Len(log[p]) > 0
    <3>1. Len(queue[p]) > 0
      BY <1>4, EmptySeq DEF PublisherTypeOK, TopicTypeOK
    <3>2. Len(queue[p]) = IF Len(log[p]) < Window THEN Len(log[p]) ELSE Window
      BY DEF StreamInv, WindowIsSuffix, IsWindowOf
    <3> QED
      BY <1>3, <3>1, <3>2, WindowAssumption
  <2>3. /\ reqSeqNum' = [reqSeqNum EXCEPT ![p] = @ \cup {x.seq}]
        /\ x.seq \in reqSeqNum'[p]
    BY <1>4 DEF RecordRequest, PublisherTypeOK, TopicTypeOK
  <2>4. Promise!AwaitData(p, x.seq)
    BY <1>1, <2>1, <2>2, <2>3 DEF Promise!AwaitData, Promise!Produced
  <2> QED
    BY <2>3, <2>4 DEF Promise!LogNext
<1>5. CASE AnswerRequest(p, x.seq)
  <2>1. /\ x.seq \in 0..Len(log[p]) - 1
        /\ x.seq >= Len(log[p]) - Window
        /\ net' = net \cup {log[p][x.seq + 1]}
        /\ reqSeqNum' = reqSeqNum
    BY <1>2, <1>5, AnswerIsEntry DEF AnswerRequest, Put
  <2>2. x.seq \in Promise!Kept(p) /\ Promise!AnswerData(p, x.seq)
    BY <1>1, <2>1 DEF Promise!Kept, Promise!Produced, Promise!AnswerData
  <2> QED
    BY <2>2 DEF Promise!LogNext
<1>6. CASE SyncOnInterest(p, x) /\ UNCHANGED topicVars
  <2>1. /\ Len(log[p]) > 0
        /\ net' = net \cup {SyncPacket(x.id, x.nonce, Len(log[p]) - 1,
                                       log[p][Len(log[p])].msg)}
    BY <1>6, SyncIsLast
  <2>2. Promise!AnswerSync(p, x.id, x.nonce)
    BY <1>1, <1>6, <2>1
       DEF Promise!AnswerSync, Promise!Produced, SyncPacket, Promise!SyncPacket
  <2> QED
    BY <1>2, <2>2 DEF Promise!LogNext, Promise!NoNonce
<1> QED
  BY <1>4, <1>5, <1>6 DEF ReceiveInterest, TopicOnInterest

LEMMA StepImplements ==
  PubInv /\ [PublisherNext]_pubVars => [Promise!LogNext]_Promise!logVars
<1> SUFFICES ASSUME PubInv, [PublisherNext]_pubVars
             PROVE  [Promise!LogNext]_Promise!logVars
  OBVIOUS
<1>1. ASSUME NEW p \in Pubs, Push(p)
      PROVE  [Promise!LogNext]_Promise!logVars
  BY <1>1, PushImplements
<1>2. ASSUME NEW p \in Pubs, NEW x \in PeerInterest, ReceiveInterest(p, x)
      PROVE  [Promise!LogNext]_Promise!logVars
  BY <1>2, ReceiveImplements
<1>3. CASE UNCHANGED <<log, reqSeqNum, net>>
  BY <1>3, StutterImplements
<1> QED
  BY <1>1, <1>2, <1>3
     DEF PublisherNext, pubVars, topicVars, publisherVars, faceVars, Create,
         OnUsedId, OnFreeId, SendHeartbeat, Heartbeat

\* The publisher keeps the promise of PublisherLog.
THEOREM PublisherImplementsLog == PublisherSpec => ImplementsLog
  BY InitImplements, StepImplements, PubInvHolds, PTL
     DEF PublisherSpec, AloneInit, ImplementsLog, Promise!LogSpec

\* The push that produces a requested packet sends it.
THEOREM EarlyRequestsCorrect == PublisherSpec => EarlyRequestsAnswered
<1> DEFINE Answered ==
      \A p \in Pubs : \A k \in reqSeqNum[p] :
        \/ k \in reqSeqNum'[p]
        \/ /\ Len(log'[p]) = k + 1
           /\ log'[p][k + 1] \in net'
<1>1. PubInv /\ [PublisherNext]_pubVars => [Answered]_pubVars
  <2> SUFFICES ASSUME PubInv, [PublisherNext]_pubVars
               PROVE  [Answered]_pubVars
    OBVIOUS
  <2> USE DEF topicVars, syncVars, publisherVars, faceVars
  <2>1. ASSUME NEW p \in Pubs, Push(p)
        PROVE  Answered
    <3> DEFINE n == Len(log[p])
               d == DataPacket(id[p], n, [pub |-> p, n |-> n])
    <3>1. /\ d \in Packet
          /\ log' = [log EXCEPT ![p] = Append(log[p], d)]
          /\ reqSeqNum' = [reqSeqNum EXCEPT ![p] = reqSeqNum[p] \ {n}]
          /\ net' = IF n \in reqSeqNum[p] THEN net \cup {d} ELSE net
      BY <2>1, PushAppends DEF PubInv, StreamInv
    <3> HIDE DEF d
    <3>2. n \in Nat /\ Len(log'[p]) = n + 1 /\ log'[p][n + 1] = d
      BY <3>1 DEF PubInv, PublisherTypeOK
    <3>3. \A k \in reqSeqNum[p] : k \in reqSeqNum'[p] \/ (k = n /\ d \in net')
      <4>1. reqSeqNum'[p] = reqSeqNum[p] \ {n}
        BY <3>1 DEF PubInv, PublisherTypeOK, TopicTypeOK
      <4>2. n \in reqSeqNum[p] => d \in net'
        BY <3>1
      <4> QED
        BY <4>1, <4>2
    <3>4. \A q \in Pubs \ {p} : reqSeqNum'[q] = reqSeqNum[q]
      BY <3>1 DEF PubInv, PublisherTypeOK, TopicTypeOK
    <3> QED
      BY <3>2, <3>3, <3>4
  <2>2. CASE \A p \in Pubs : reqSeqNum[p] \subseteq reqSeqNum'[p]
    BY <2>2
  <2>3. ASSUME NEW p \in Pubs, NEW x \in PeerInterest, ReceiveInterest(p, x)
        PROVE  \A q \in Pubs : reqSeqNum[q] \subseteq reqSeqNum'[q]
    BY <2>3 DEF ReceiveInterest, TopicOnInterest, SyncOnInterest, RecordRequest,
                AnswerRequest, PubInv, PublisherTypeOK, TopicTypeOK
  <2>4. CASE reqSeqNum' = reqSeqNum
    BY <2>4
  <2> QED
    BY <2>1, <2>2, <2>3, <2>4
       DEF PublisherNext, pubVars, Create, OnUsedId, OnFreeId, SendHeartbeat
<1> QED
  BY <1>1, PubInvHolds, PTL DEF PublisherSpec, AloneInit, EarlyRequestsAnswered

-----------------------------------------------------------------------------
(***************************************************************************)
(* The claim.  That an announced identifier is served is inductive once it *)
(* is known that a filter is set by the claim alone, and that a heartbeat  *)
(* carries the initial 0 until then.                                       *)
(***************************************************************************)
Claim ==
  \A p \in Pubs :
    /\ filter[p] # NoId => phase[p] = "claimed" /\ id[p] = filter[p]
    /\ heartbeatId[p] \in {NoId, 0, filter[p]}

LEMMA ClaimInit == PublisherInit /\ FaceInit => Claim /\ AnnouncedServed
  BY DEF PublisherInit, FaceInit, HeartbeatInit, Claim, AnnouncedServed

LEMMA ClaimStep ==
  ASSUME PublisherTypeOK, Claim, AnnouncedServed, [PublisherNext]_pubVars
  PROVE  Claim' /\ AnnouncedServed'
<1> USE DEF PublisherTypeOK, FaceTypeOK, HeartbeatTypeOK
<1>1. ASSUME NEW p \in Pubs, NEW i \in Ids, Create(p, i) \/ OnUsedId(p, i)
      PROVE  Claim' /\ AnnouncedServed'
  <2>1. filter[p] = NoId /\ filter' = filter
    BY <1>1 DEF Create, OnUsedId, Claim
  <2>2. \A q \in Pubs \ {p} : /\ id'[q] = id[q] /\ phase'[q] = phase[q]
                              /\ heartbeatId'[q] = heartbeatId[q]
    BY <1>1 DEF Create, OnUsedId, StartHeartbeat
  <2>3. heartbeatId'[p] \in {NoId, 0} /\ announced' \subseteq announced \cup {0}
    BY <1>1, <2>1 DEF Create, OnUsedId, StartHeartbeat, Claim
  <2>4. Claim'
    BY <2>1, <2>2, <2>3 DEF Claim
  <2>5. ASSUME NEW j \in announced, j # 0
        PROVE  \E q \in Pubs : filter'[q] = j /\ id'[q] = j
    <3>1. PICK q \in Pubs : filter[q] = j /\ id[q] = j
      BY <2>5 DEF AnnouncedServed
    <3>2. j # NoId
      BY FaceAssumption
    <3> QED
      BY <2>1, <2>2, <3>1, <3>2
  <2> QED
    BY <2>3, <2>4, <2>5 DEF AnnouncedServed
<1>2. ASSUME NEW p \in Pubs, OnFreeId(p)
      PROVE  Claim' /\ AnnouncedServed'
  <2>1. /\ filter[p] = NoId
        /\ filter' = [filter EXCEPT ![p] = id[p]]
        /\ heartbeatId' = [heartbeatId EXCEPT ![p] = id[p]]
        /\ phase' = [phase EXCEPT ![p] = "claimed"]
        /\ id' = id /\ announced' = announced
    BY <1>2 DEF OnFreeId, SetHeartbeatName, Claim
  <2>2. Claim'
    BY <2>1 DEF Claim
  <2>3. ASSUME NEW j \in announced, j # 0
        PROVE  \E q \in Pubs : filter'[q] = j /\ id'[q] = j
    <3>1. PICK q \in Pubs : filter[q] = j /\ id[q] = j
      BY <2>3 DEF AnnouncedServed
    <3>2. q # p
      BY <2>1, <3>1, FaceAssumption
    <3> QED
      BY <2>1, <3>1, <3>2
  <2> QED
    BY <2>1, <2>2, <2>3 DEF AnnouncedServed
<1>3. ASSUME NEW p \in Pubs, SendHeartbeat(p)
      PROVE  Claim' /\ AnnouncedServed'
  BY <1>3 DEF SendHeartbeat, Heartbeat, publisherVars, Claim, AnnouncedServed
<1>4. CASE UNCHANGED <<filter, phase, id, heartbeatId, announced>>
  BY <1>4 DEF Claim, AnnouncedServed
<1> QED
  BY <1>1, <1>2, <1>3, <1>4
     DEF PublisherNext, pubVars, publisherVars, faceVars, Push, ReceiveInterest

\* Discovery never announces an identifier that is still being probed.
THEOREM AnnouncedCorrect == PublisherSpec => []AnnouncedServed
  BY ClaimInit, ClaimStep, PublisherTypeCorrect, PTL DEF PublisherSpec, AloneInit
-----------------------------------------------------------------------------
(***************************************************************************)
(* The names of what is published.  A sync reply is sent by a publisher    *)
(* that has claimed its identifier, and that publisher keeps it: what it   *)
(* pushes later carries the same one.                                      *)
(***************************************************************************)
RepliesServed ==
  \A d \in net :
    d.type = "sync" => d.msg.pub \in Pubs /\ filter[d.msg.pub] = d.id

\* What entry k of a log is.
LEMMA EntryNumbered ==
  ASSUME PublisherTypeOK, StreamInv, NEW p \in Pubs, NEW k \in 1..Len(log[p])
  PROVE  /\ log[p][k].type = "data"
         /\ log[p][k].seq = k - 1
         /\ log[p][k].msg = [pub |-> p, n |-> k - 1]
  BY DEF StreamInv, LogNumbered

\* A sync reply is about the last message of the publisher that sends it.
LEMMA NewReplyIsLast ==
  ASSUME PublisherTypeOK, StreamInv, [PublisherNext]_pubVars,
         NEW d \in net' \ net, d.type = "sync"
  PROVE  \E p \in Pubs :
           /\ d.id = filter[p]
           /\ d.msg = [pub |-> p, n |-> d.seq]
           /\ d.seq = Len(log[p]) - 1
           /\ UNCHANGED <<log, filter>>
<1>1. ASSUME NEW p \in Pubs, Push(p)
      PROVE  FALSE
  <2>1. d = DataPacket(id[p], Len(log[p]), [pub |-> p, n |-> Len(log[p])])
    BY <1>1, PushAppends DEF StreamInv
  <2> QED
    BY <2>1 DEF DataPacket
<1>2. CASE net' = net
  BY <1>2
<1>3. ASSUME NEW p \in Pubs, NEW x \in PeerInterest, ReceiveInterest(p, x)
      PROVE  \E q \in Pubs :
               /\ d.id = filter[q]
               /\ d.msg = [pub |-> q, n |-> d.seq]
               /\ d.seq = Len(log[q]) - 1
               /\ UNCHANGED <<log, filter>>
  <2>1. UNCHANGED <<log, filter>>
    BY <1>3 DEF ReceiveInterest, publisherVars
  <2>2. x.seq \in Nat
    BY PeerInterestIsInterest DEF Interest
  <2>3. CASE AnswerRequest(p, x.seq)
    <3>1. /\ x.seq \in 0..Len(log[p]) - 1
          /\ d = log[p][x.seq + 1]
      BY <2>2, <2>3, AnswerIsEntry DEF AnswerRequest, Put
    <3>2. x.seq + 1 \in 1..Len(log[p])
      BY <3>1 DEF PublisherTypeOK
    <3>3. d.type = "data"
      BY <3>1, <3>2, EntryNumbered
    <3> QED
      BY <3>3
  <2>4. CASE SyncOnInterest(p, x)
    <3> DEFINE n == Len(log[p])
    <3>1. n \in Nat /\ n > 0
      BY <2>4, SyncIsLast
    <3>2. d = SyncPacket(x.id, x.nonce, n - 1, log[p][n].msg)
      BY <2>4, SyncIsLast
    <3>3. n \in 1..n
      BY <3>1
    <3>4. log[p][n].msg = [pub |-> p, n |-> n - 1]
      BY <3>3, EntryNumbered
    <3>5. x.id = filter[p]
      BY <2>4 DEF SyncOnInterest
    <3> QED
      BY <2>1, <3>2, <3>4, <3>5 DEF SyncPacket
  <2> QED
    BY <1>2, <1>3, <2>3, <2>4 DEF ReceiveInterest, TopicOnInterest, RecordRequest
<1> QED
  BY <1>1, <1>2, <1>3
     DEF PublisherNext, pubVars, faceVars, Create, OnUsedId, OnFreeId,
         SendHeartbeat, Heartbeat

\* A filter is set once.
LEMMA FilterStays ==
  ASSUME PublisherTypeOK, Claim, [PublisherNext]_pubVars, NEW p \in Pubs,
         filter[p] # NoId
  PROVE  filter'[p] = filter[p]
<1>1. ASSUME NEW q \in Pubs, OnFreeId(q)
      PROVE  filter'[p] = filter[p]
  BY <1>1 DEF OnFreeId, Claim, PublisherTypeOK, FaceTypeOK
<1>2. CASE filter' = filter
  BY <1>2
<1> QED
  BY <1>1, <1>2
     DEF PublisherNext, pubVars, faceVars, Create, OnUsedId, Push, SendHeartbeat,
         Heartbeat, ReceiveInterest

LEMMA NamedStep ==
  ASSUME PublisherTypeOK, StreamInv, Claim, RepliesServed, NamedAsServed,
         [PublisherNext]_pubVars
  PROVE  RepliesServed' /\ NamedAsServed'
<1> USE DEF PublisherTypeOK, FaceTypeOK
<1>1. SUFFICES ASSUME NEW d \in net', d.type = "sync"
               PROVE  /\ d.msg.pub \in Pubs /\ filter'[d.msg.pub] = d.id
                      /\ \A k \in d.seq + 1..Len(log'[d.msg.pub]) - 1 :
                           log'[d.msg.pub][k + 1].id = d.id
  BY DEF RepliesServed, NamedAsServed
<1>2. CASE d \notin net
  <2>1. PICK p \in Pubs : /\ d.id = filter[p]
                          /\ d.msg = [pub |-> p, n |-> d.seq]
                          /\ d.seq = Len(log[p]) - 1
                          /\ UNCHANGED <<log, filter>>
    BY <1>1, <1>2, NewReplyIsLast
  <2>2. Len(log[p]) \in Nat
    OBVIOUS
  <2> QED
    BY <2>1, <2>2
<1>3. CASE d \in net
  <2> DEFINE q == d.msg.pub
             n == Len(log[q])
  <2>1. q \in Pubs /\ filter[q] = d.id /\ d.id \in Ids /\ d.seq \in Nat
    BY <1>1, <1>3 DEF RepliesServed, Packet
  <2>2. filter[q] # NoId
    BY <2>1, FaceAssumption
  <2>3. filter'[q] = d.id
    BY <2>1, <2>2, FilterStays
  <2>4. \A k \in d.seq + 1..n - 1 : log[q][k + 1].id = d.id
    BY <1>1, <1>3 DEF NamedAsServed
  <2>5. CASE Push(q)
    <3> DEFINE e == DataPacket(id[q], n, [pub |-> q, n |-> n])
    <3>1. e \in Packet /\ log' = [log EXCEPT ![q] = Append(log[q], e)]
      BY <2>1, <2>5, PushAppends DEF StreamInv
    <3>2. e.id = d.id
      BY <2>1, <2>2 DEF DataPacket, Claim
    <3> HIDE DEF e, q
    <3>3. /\ n \in Nat /\ Len(log'[q]) = n + 1
          /\ \A k \in 1..n : log'[q][k] = log[q][k]
          /\ log'[q][n + 1] = e
      BY <2>1, <3>1
    <3>4. \A k \in d.seq + 1..Len(log'[q]) - 1 : log'[q][k + 1].id = d.id
      <4> TAKE k \in d.seq + 1..Len(log'[q]) - 1
      <4>1. CASE k = n
        BY <3>2, <3>3, <4>1
      <4>2. CASE k # n
        <5>1. k \in d.seq + 1..n - 1 /\ k + 1 \in 1..n
          BY <2>1, <3>3, <4>2
        <5> QED
          BY <2>4, <3>3, <5>1
      <4> QED
        BY <4>1, <4>2
    <3> QED
      BY <2>1, <2>3, <3>4 DEF q
  <2>6. CASE ~Push(q)
    <3>1. log'[q] = log[q]
      <4>1. ASSUME NEW p \in Pubs, Push(p)
            PROVE  log'[q] = log[q]
        <5>1. p # q
          BY <2>6, <4>1
        <5>2. log' = [log EXCEPT ![p] =
                        Append(log[p], DataPacket(id[p], seqNum[p],
                                 [pub |-> p, n |-> Len(log[p])]))]
          BY <4>1 DEF Push
        <5> QED
          BY <2>1, <5>1, <5>2
      <4> QED
        BY <4>1, OnlyPushMovesStream DEF StreamState
    <3> QED
      BY <2>1, <2>3, <2>4, <3>1
  <2> QED
    BY <2>5, <2>6
<1> QED
  BY <1>2, <1>3

\* Everything that is known of the publishers together.
PubFullInv == PubInv /\ Claim /\ AnnouncedServed /\ RepliesServed /\ NamedAsServed

LEMMA PubFullInit == PublisherInit /\ FaceInit => PubFullInv
<1>1. PublisherInit /\ FaceInit => RequestsAhead /\ AnswersGenuine
  BY DEF PublisherInit, FaceInit, TopicInit, RequestsAhead, AnswersGenuine
<1>2. FaceInit => RepliesServed /\ NamedAsServed
  BY DEF FaceInit, RepliesServed, NamedAsServed
<1> QED
  BY <1>1, <1>2, TypeInit, StreamInit, ClaimInit DEF PubFullInv, PubInv

LEMMA PubFullStep == PubFullInv /\ [PublisherNext]_pubVars => PubFullInv'
  BY TypeStep, StreamStep, RequestsAheadStep, GenuineStep, ClaimStep, NamedStep
     DEF PubFullInv, PubInv

\* After the message of a sync reply, every message carries the identifier under
\* which the reply was given: a subscriber that goes on from there misses none,
\* although what was published before the claim may carry another identifier.
THEOREM NamedAsServedCorrect == PublisherSpec => []NamedAsServed
<1>1. PubFullInv => NamedAsServed
  BY DEF PubFullInv
<1> QED
  BY <1>1, PubFullInit, PubFullStep, PTL DEF PublisherSpec, AloneInit

-----------------------------------------------------------------------------
(***************************************************************************)
(* Part 2.  Subscriber.  The lemmas about a step are stated for            *)
(* SubscriberStep, what the process itself does, so that they hold in      *)
(* RmwNdn too.                                                             *)
(***************************************************************************)

SubTypeOK ==
  /\ FaceTypeOK
  /\ created \subseteq Subs
  /\ discovered \subseteq Ids
  /\ pit \subseteq [sub : Subs, interest : Interest]
  /\ \A e \in pit : e.interest.type = "sync" => e.interest.nonce \in Nonces
  /\ inbox \in [Subs -> Seq(Packet)]
  /\ position \in [Subs -> [Ids -> Nat]]
  /\ refused \subseteq Subs \X Ids

(***************************************************************************)
(* The chains.  A chain is only ever started for a subscription or for a   *)
(* publisher that is new, because there is no entry of a pair before both  *)
(* are known; and it is over exactly when a Nack ended it.                 *)
(***************************************************************************)
OnlyKnown ==
  /\ \A e \in pit : e.sub \in created /\ e.interest.id \in discovered
  /\ refused \subseteq created \X discovered

OneEach ==
  \A e, f \in pit : e.sub = f.sub /\ e.interest.id = f.interest.id => e = f

NextAsked ==
  \A e \in pit :
    e.interest.type = "data" => e.interest.seq = position[e.sub][e.interest.id]

EndedByNack ==
  \A s \in created, i \in discovered :
    <<s, i>> \in refused <=> Pending(s, i) = {}

Chains == OnlyKnown /\ OneEach /\ NextAsked /\ EndedByNack

SubInv == SubTypeOK /\ Chains

-----------------------------------------------------------------------------
(* Type correctness. *)

LEMMA SyncInterestType ==
  ASSUME NEW i \in Ids, NEW n \in Nonces \cup {NoNonce}
  PROVE  SyncInterest(i, n) \in Interest
  BY DEF SyncInterest, Interest

LEMMA DataInterestType ==
  ASSUME NEW i \in Ids, NEW k \in Nat
  PROVE  DataInterest(i, k) \in Interest
  BY DEF DataInterest, Interest

LEMMA SubTypeInit == SubscriberInit /\ FaceInit => SubTypeOK
  BY DEF SubscriberInit, FaceInit, SubTypeOK, FaceTypeOK

LEMMA SubTypeStep ==
  ASSUME SubTypeOK, SubscriberStep
  PROVE  SubTypeOK'
<1> USE DEF SubTypeOK, FaceTypeOK, faceVars
<1>1. ASSUME NEW s \in Subs, CreateSubscription(s)
      PROVE  SubTypeOK'
  <2>1. PICK nonce \in [discovered -> Nonces] :
          Request({SyncRequest(s, i, nonce[i]) : i \in discovered}, {})
    BY <1>1 DEF CreateSubscription
  <2>2. \A i \in discovered : SyncInterest(i, nonce[i]) \in Interest
    BY SyncInterestType
  <2>3. \A i \in discovered :
          /\ SyncRequest(s, i, nonce[i]) \in [sub : Subs, interest : Interest]
          /\ SyncRequest(s, i, nonce[i]).interest = SyncInterest(i, nonce[i])
          /\ SyncInterest(i, nonce[i]).nonce \in Nonces
    BY <2>2 DEF SyncRequest, SyncInterest
  <2>4. /\ pit' = pit \cup {SyncRequest(s, i, nonce[i]) : i \in discovered}
        /\ wire' = wire \cup
             {e.interest : e \in {SyncRequest(s, i, nonce[i]) : i \in discovered}}
    BY <2>1 DEF Request, ExpressInterests
  <2>5. /\ pit' \subseteq [sub : Subs, interest : Interest]
        /\ \A e \in pit' : e.interest.type = "sync" => e.interest.nonce \in Nonces
    BY <2>3, <2>4
  <2>6. wire' \subseteq Interest
    BY <2>2, <2>3, <2>4
  <2> QED
    BY <1>1, <2>5, <2>6 DEF CreateSubscription
<1>2. ASSUME NEW i \in announced, OnHeartbeat(i)
      PROVE  SubTypeOK'
  <2>1. PICK nonce \in [created -> FreshNonce(i)] :
          Request({SyncRequest(s, i, nonce[s]) : s \in created}, {})
    BY <1>2 DEF OnHeartbeat
  <2>2. \A s \in created : nonce[s] \in Nonces
    BY <2>1 DEF FreshNonce
  <2>3. \A s \in created : SyncInterest(i, nonce[s]) \in Interest
    BY <2>2, SyncInterestType
  <2>4. \A s \in created :
          /\ SyncRequest(s, i, nonce[s]) \in [sub : Subs, interest : Interest]
          /\ SyncRequest(s, i, nonce[s]).interest = SyncInterest(i, nonce[s])
          /\ SyncInterest(i, nonce[s]).nonce \in Nonces
    BY <2>2, <2>3 DEF SyncRequest, SyncInterest
  <2>5. /\ pit' = pit \cup {SyncRequest(s, i, nonce[s]) : s \in created}
        /\ wire' = wire \cup
             {e.interest : e \in {SyncRequest(s, i, nonce[s]) : s \in created}}
    BY <2>1 DEF Request, ExpressInterests
  <2>6. /\ pit' \subseteq [sub : Subs, interest : Interest]
        /\ \A e \in pit' : e.interest.type = "sync" => e.interest.nonce \in Nonces
    BY <2>4, <2>5
  <2>7. wire' \subseteq Interest
    BY <2>3, <2>4, <2>5
  <2> QED
    BY <1>2, <2>6, <2>7 DEF OnHeartbeat
<1>3. ASSUME NEW e \in pit, NEW d \in net, OnData(e.sub, e.interest, d)
      PROVE  SubTypeOK'
  <2> DEFINE s == e.sub
             i == e.interest.id
             f == DataRequest(s, i, d.seq + 1)
  <2>1. s \in Subs /\ i \in Ids /\ d \in Packet /\ d.seq + 1 \in Nat
    BY DEF Interest, Packet
  <2>2. /\ f \in [sub : Subs, interest : Interest]
        /\ f.interest = DataInterest(i, d.seq + 1)
        /\ f.interest.type = "data"
        /\ f.interest \in Interest
    BY <2>1, DataInterestType DEF DataRequest, DataInterest
  <2>3. /\ pit' \subseteq pit \cup {f}
        /\ wire' = wire \cup {f.interest}
    BY <1>3 DEF OnData, Request, ExpressInterests
  <2>4. /\ inbox' = [inbox EXCEPT ![s] = Append(inbox[s], d)]
        /\ position' = [position EXCEPT ![s][i] = d.seq + 1]
        /\ UNCHANGED <<created, discovered, refused, net, announced, filter>>
    BY <1>3 DEF OnData
  <2> HIDE DEF s, i, f
  <2>5. inbox' \in [Subs -> Seq(Packet)] /\ position' \in [Subs -> [Ids -> Nat]]
    BY <2>1, <2>4
  <2>6. /\ pit' \subseteq [sub : Subs, interest : Interest]
        /\ \A g \in pit' : g.interest.type = "sync" => g.interest.nonce \in Nonces
    BY <2>2, <2>3
  <2> QED
    BY <2>2, <2>3, <2>4, <2>5, <2>6
<1>4. ASSUME NEW e \in pit, OnError(e.sub, e.interest)
      PROVE  SubTypeOK'
  <2>1. PICK n \in FreshNonce(e.interest.id) :
          Request({SyncRequest(e.sub, e.interest.id, n)},
                  {[sub |-> e.sub, interest |-> e.interest]})
    BY <1>4 DEF OnError
  <2> DEFINE f == SyncRequest(e.sub, e.interest.id, n)
  <2>2. n \in Nonces /\ e.sub \in Subs /\ e.interest.id \in Ids
    BY <2>1 DEF FreshNonce, Interest
  <2>3. /\ f \in [sub : Subs, interest : Interest]
        /\ f.interest.nonce \in Nonces
        /\ f.interest \in Interest
    BY <2>2, SyncInterestType DEF SyncRequest, SyncInterest
  <2>4. pit' \subseteq pit \cup {f} /\ wire' = wire \cup {f.interest}
    BY <2>1 DEF Request, ExpressInterests
  <2> HIDE DEF f
  <2>5. /\ pit' \subseteq [sub : Subs, interest : Interest]
        /\ \A g \in pit' : g.interest.type = "sync" => g.interest.nonce \in Nonces
    BY <2>3, <2>4
  <2> QED
    BY <1>4, <2>3, <2>4, <2>5 DEF OnError
<1>5. ASSUME NEW e \in pit, OnSyncNack(e.sub, e.interest)
      PROVE  SubTypeOK'
  <2>1. <<e.sub, e.interest.id>> \in Subs \X Ids
    BY DEF Interest
  <2> QED
    BY <1>5, <2>1 DEF OnSyncNack
<1>6. ASSUME NEW s \in Subs, Take(s)
      PROVE  SubTypeOK'
  BY <1>6 DEF Take
<1>7. ASSUME NEW i \in Ids, NEW n \in Nonces, ForgetSync(i, n)
      PROVE  SubTypeOK'
  BY <1>7 DEF ForgetSync, subVars
<1> QED
  BY <1>1, <1>2, <1>3, <1>4, <1>5, <1>6, <1>7 DEF SubscriberStep
-----------------------------------------------------------------------------
(***************************************************************************)
(* The chains.  Every action does one of three things to pit: it starts a  *)
(* chain for pairs that are new, it replaces the request of a chain, or it *)
(* ends one.                                                               *)
(***************************************************************************)
LEMMA ChainsInit == SubscriberInit => Chains
  BY DEF SubscriberInit, Chains, OnlyKnown, OneEach, NextAsked, EndedByNack

\* One sync request for each pair of a subscription and a publisher that was not
\* known before.
LEMMA ChainsStarted ==
  ASSUME Chains, NEW new,
         created \subseteq created', discovered \subseteq discovered',
         UNCHANGED <<position, refused>>,
         pit' = pit \cup new,
         \A e \in new : e.interest.type = "sync",
         \A e \in new : /\ e.sub \in created'
                        /\ e.interest.id \in discovered'
                        /\ ~(e.sub \in created /\ e.interest.id \in discovered),
         \A e, f \in new :
           e.sub = f.sub /\ e.interest.id = f.interest.id => e = f,
         \A s \in created', i \in discovered' :
           \/ s \in created /\ i \in discovered
           \/ \E e \in new : e.sub = s /\ e.interest.id = i
  PROVE  Chains'
<1>1. OnlyKnown'
  BY DEF Chains, OnlyKnown
<1>2. OneEach'
  <2>1. ASSUME NEW e \in pit, NEW f \in new
        PROVE  ~(e.sub = f.sub /\ e.interest.id = f.interest.id)
    BY DEF Chains, OnlyKnown
  <2>2. ASSUME NEW e \in pit, NEW f \in pit, e.sub = f.sub,
               e.interest.id = f.interest.id
        PROVE  e = f
    BY <2>2 DEF Chains, OneEach
  <2> QED
    BY <2>1, <2>2 DEF OneEach
<1>3. NextAsked'
  BY DEF Chains, NextAsked
<1>4. EndedByNack'
  <2> SUFFICES ASSUME NEW s \in created', NEW i \in discovered'
               PROVE  <<s, i>> \in refused <=> Pending(s, i)' = {}
    BY DEF EndedByNack
  <2>1. CASE s \in created /\ i \in discovered
    <3>1. Pending(s, i)' = Pending(s, i)
      BY <2>1 DEF Pending
    <3> QED
      BY <2>1, <3>1 DEF Chains, EndedByNack
  <2>2. CASE ~(s \in created /\ i \in discovered)
    <3>1. <<s, i>> \notin refused
      BY <2>2 DEF Chains, OnlyKnown
    <3>2. PICK e \in new : e.sub = s /\ e.interest.id = i
      BY <2>2
    <3>3. e \in Pending(s, i)'
      BY <3>2 DEF Pending
    <3> QED
      BY <3>1, <3>3
  <2> QED
    BY <2>1, <2>2
<1> QED
  BY <1>1, <1>2, <1>3, <1>4 DEF Chains

\* The request e of a chain is settled, and f is the next one.
LEMMA ChainGoesOn ==
  ASSUME Chains, NEW e \in pit, NEW f,
         f.sub = e.sub, f.interest.id = e.interest.id,
         f.interest.type = "data" =>
           f.interest.seq = position'[e.sub][e.interest.id],
         \A g \in pit \ {e} :
           position'[g.sub][g.interest.id] = position[g.sub][g.interest.id],
         pit' = (pit \ {e}) \cup {f},
         UNCHANGED <<created, discovered, refused>>
  PROVE  Chains'
<1>1. OnlyKnown'
  BY DEF Chains, OnlyKnown
<1>2. OneEach'
  <2>1. ASSUME NEW g \in pit \ {e}
        PROVE  ~(g.sub = f.sub /\ g.interest.id = f.interest.id)
    BY DEF Chains, OneEach
  <2>2. ASSUME NEW g \in pit, NEW h \in pit, g.sub = h.sub,
               g.interest.id = h.interest.id
        PROVE  g = h
    BY <2>2 DEF Chains, OneEach
  <2> QED
    BY <2>1, <2>2 DEF OneEach
<1>3. NextAsked'
  BY DEF Chains, NextAsked
<1>4. EndedByNack'
  <2> SUFFICES ASSUME NEW s \in created, NEW i \in discovered
               PROVE  <<s, i>> \in refused <=> Pending(s, i)' = {}
    BY DEF EndedByNack
  <2>1. CASE e.sub = s /\ e.interest.id = i
    <3>1. e \in Pending(s, i) /\ f \in Pending(s, i)'
      BY <2>1 DEF Pending
    <3> QED
      BY <3>1 DEF Chains, EndedByNack
  <2>2. CASE ~(e.sub = s /\ e.interest.id = i)
    <3>1. Pending(s, i)' = Pending(s, i)
      BY <2>2 DEF Pending
    <3> QED
      BY <3>1 DEF Chains, EndedByNack
  <2> QED
    BY <2>1, <2>2
<1> QED
  BY <1>1, <1>2, <1>3, <1>4 DEF Chains

\* The chain of the request e ends.
LEMMA ChainEnds ==
  ASSUME Chains, NEW e \in pit,
         pit' = pit \ {e},
         refused' = refused \cup {<<e.sub, e.interest.id>>},
         UNCHANGED <<created, discovered, position>>
  PROVE  Chains'
<1>1. OnlyKnown'
  BY DEF Chains, OnlyKnown
<1>2. OneEach' /\ NextAsked'
  BY DEF Chains, OneEach, NextAsked
<1>3. EndedByNack'
  <2> SUFFICES ASSUME NEW s \in created, NEW i \in discovered
               PROVE  <<s, i>> \in refused' <=> Pending(s, i)' = {}
    BY DEF EndedByNack
  <2>1. CASE e.sub = s /\ e.interest.id = i
    <3>1. Pending(s, i)' = {}
      BY <2>1 DEF Pending, Chains, OneEach
    <3> QED
      BY <2>1, <3>1
  <2>2. CASE ~(e.sub = s /\ e.interest.id = i)
    <3>1. Pending(s, i)' = Pending(s, i)
      BY <2>2 DEF Pending
    <3>2. <<s, i>> \in refused' <=> <<s, i>> \in refused
      BY <2>2
    <3> QED
      BY <3>1, <3>2 DEF Chains, EndedByNack
  <2> QED
    BY <2>1, <2>2
<1> QED
  BY <1>1, <1>2, <1>3 DEF Chains
LEMMA ChainsStep ==
  ASSUME SubTypeOK, Chains, SubscriberStep
  PROVE  Chains'
<1>1. ASSUME NEW s \in Subs, CreateSubscription(s)
      PROVE  Chains'
  <2>1. PICK nonce \in [discovered -> Nonces] :
          Request({SyncRequest(s, i, nonce[i]) : i \in discovered}, {})
    BY <1>1 DEF CreateSubscription
  <2> DEFINE new == {SyncRequest(s, i, nonce[i]) : i \in discovered}
  <2>2. \A i \in discovered :
          /\ SyncRequest(s, i, nonce[i]).sub = s
          /\ SyncRequest(s, i, nonce[i]).interest.id = i
          /\ SyncRequest(s, i, nonce[i]).interest.type = "sync"
    BY DEF SyncRequest, SyncInterest
  <2>3. /\ \A e \in new : e.sub = s /\ e.interest.type = "sync"
        /\ \A e \in new : e.interest.id \in discovered
        /\ \A e, f \in new : e.interest.id = f.interest.id => e = f
        /\ \A i \in discovered :
             \E e \in new : e.sub = s /\ e.interest.id = i
    BY <2>2
  <2>4. pit' = pit \cup new
    BY <2>1 DEF Request
  <2> HIDE DEF new
  <2>5. /\ s \notin created
        /\ created' = created \cup {s}
        /\ UNCHANGED <<discovered, position, refused>>
    BY <1>1 DEF CreateSubscription
  <2> QED
    BY <2>3, <2>4, <2>5, ChainsStarted
<1>2. ASSUME NEW i \in announced, OnHeartbeat(i)
      PROVE  Chains'
  <2>1. PICK nonce \in [created -> FreshNonce(i)] :
          Request({SyncRequest(s, i, nonce[s]) : s \in created}, {})
    BY <1>2 DEF OnHeartbeat
  <2> DEFINE new == {SyncRequest(s, i, nonce[s]) : s \in created}
  <2>2. \A s \in created :
          /\ SyncRequest(s, i, nonce[s]).sub = s
          /\ SyncRequest(s, i, nonce[s]).interest.id = i
          /\ SyncRequest(s, i, nonce[s]).interest.type = "sync"
    BY DEF SyncRequest, SyncInterest
  <2>3. /\ \A e \in new : e.interest.id = i /\ e.interest.type = "sync"
        /\ \A e \in new : e.sub \in created
        /\ \A e, f \in new : e.sub = f.sub => e = f
        /\ \A s \in created :
             \E e \in new : e.sub = s /\ e.interest.id = i
    BY <2>2
  <2>4. pit' = pit \cup new
    BY <2>1 DEF Request
  <2> HIDE DEF new
  <2>5. /\ i \notin discovered
        /\ discovered' = discovered \cup {i}
        /\ UNCHANGED <<created, position, refused>>
    BY <1>2 DEF OnHeartbeat
  <2> QED
    BY <2>3, <2>4, <2>5, ChainsStarted
<1>3. ASSUME NEW e \in pit, NEW d \in net, OnData(e.sub, e.interest, d)
      PROVE  Chains'
  <2> DEFINE s == e.sub
             i == e.interest.id
             f == DataRequest(s, i, d.seq + 1)
  <2>1. [sub |-> e.sub, interest |-> e.interest] = e
    BY DEF SubTypeOK
  <2>2. pit' = (pit \ {e}) \cup {f}
    BY <1>3, <2>1 DEF OnData, Request
  <2>3. /\ position' = [position EXCEPT ![s][i] = d.seq + 1]
        /\ UNCHANGED <<created, discovered, refused>>
    BY <1>3 DEF OnData
  <2>4. position \in [Subs -> [Ids -> Nat]] /\ s \in Subs /\ i \in Ids
    BY DEF SubTypeOK, Interest
  <2>5. f.sub = s /\ f.interest.id = i /\ f.interest.seq = d.seq + 1
    BY DEF DataRequest, DataInterest
  <2>6. \A g \in pit \ {e} : ~(g.sub = s /\ g.interest.id = i)
    BY DEF Chains, OneEach
  <2> HIDE DEF f
  <2>7. \A g \in pit \ {e} :
          position'[g.sub][g.interest.id] = position[g.sub][g.interest.id]
    <3> TAKE g \in pit \ {e}
    <3>1. g.sub \in Subs /\ g.interest.id \in Ids
      BY DEF SubTypeOK, Interest
    <3> QED
      BY <2>3, <2>4, <2>6, <3>1
  <2>8. position'[s][i] = d.seq + 1
    BY <2>3, <2>4
  <2> QED
    BY <2>2, <2>3, <2>5, <2>7, <2>8, ChainGoesOn
<1>4. ASSUME NEW e \in pit, OnError(e.sub, e.interest)
      PROVE  Chains'
  <2>1. [sub |-> e.sub, interest |-> e.interest] = e
    BY DEF SubTypeOK
  <2>2. PICK n \in FreshNonce(e.interest.id) :
          Request({SyncRequest(e.sub, e.interest.id, n)}, {e})
    BY <1>4, <2>1 DEF OnError
  <2> DEFINE f == SyncRequest(e.sub, e.interest.id, n)
  <2>3. /\ f.sub = e.sub /\ f.interest.id = e.interest.id
        /\ f.interest.type = "sync"
    BY DEF SyncRequest, SyncInterest
  <2>4. pit' = (pit \ {e}) \cup {f}
    BY <2>2 DEF Request
  <2> HIDE DEF f
  <2>5. UNCHANGED <<created, discovered, position, refused>>
    BY <1>4 DEF OnError
  <2> QED
    BY <2>3, <2>4, <2>5, ChainGoesOn
<1>5. ASSUME NEW e \in pit, OnSyncNack(e.sub, e.interest)
      PROVE  Chains'
  <2>1. [sub |-> e.sub, interest |-> e.interest] = e
    BY DEF SubTypeOK
  <2>2. pit' = pit \ {e}
    BY <1>5, <2>1 DEF OnSyncNack
  <2>3. /\ refused' = refused \cup {<<e.sub, e.interest.id>>}
        /\ UNCHANGED <<created, discovered, position>>
    BY <1>5 DEF OnSyncNack
  <2> QED
    BY <2>2, <2>3, ChainEnds
<1>6. CASE UNCHANGED <<created, discovered, pit, position, refused>>
  BY <1>6 DEF Chains, OnlyKnown, OneEach, NextAsked, EndedByNack, Pending
<1> QED
  BY <1>1, <1>2, <1>3, <1>4, <1>5, <1>6
     DEF SubscriberStep, Take, ForgetSync, subVars

-----------------------------------------------------------------------------
(* The process alone. *)

\* A peer leaves the process as it is.
LEMMA PeerStep ==
  ASSUME SubInv,
         \/ \E i \in Ids : PeerAnnounces(i)
         \/ \E x \in wire, p \in Pubs, k \in 0..MaxSeq : PeerAnswers(x, p, k)
  PROVE  SubInv'
<1> USE DEF SubInv, SubTypeOK, FaceTypeOK, subVars, Chains, OnlyKnown, OneEach,
            NextAsked, EndedByNack, Pending
<1>1. ASSUME NEW i \in Ids, PeerAnnounces(i)
      PROVE  SubInv'
  BY <1>1 DEF PeerAnnounces
<1>2. ASSUME NEW x \in wire, NEW p \in Pubs, NEW k \in 0..MaxSeq,
             PeerAnswers(x, p, k)
      PROVE  SubInv'
  <2> DEFINE m == [pub |-> p, n |-> k]
  <2>1. /\ k \in Nat /\ m \in Message
        /\ x.id \in Ids /\ x.nonce \in Nonces \cup {NoNonce}
    BY SubscriberAssumption DEF Message, Interest
  <2>2. /\ SyncPacket(x.id, x.nonce, k, m) \in Packet
        /\ DataPacket(x.id, k, m) \in Packet
    BY <2>1 DEF SyncPacket, DataPacket, Packet
  <2>3. net' \subseteq Packet
    BY <1>2, <2>2 DEF PeerAnswers, Put
  <2> QED
    BY <1>2, <2>3 DEF PeerAnswers
<1> QED
  BY <1>1, <1>2

LEMMA SubStep == SubInv /\ [SubscriberNext]_<<subVars, faceVars>> => SubInv'
<1> SUFFICES ASSUME SubInv, [SubscriberNext]_<<subVars, faceVars>>
             PROVE  SubInv'
  OBVIOUS
<1>1. CASE SubscriberStep
  BY <1>1, SubTypeStep, ChainsStep DEF SubInv
<1>2. CASE UNCHANGED <<subVars, faceVars>>
  BY <1>2
     DEF SubInv, SubTypeOK, FaceTypeOK, subVars, faceVars, Chains, OnlyKnown,
         OneEach, NextAsked, EndedByNack, Pending
<1>3. CASE Reseed
  BY <1>3
     DEF Reseed, SubInv, SubTypeOK, FaceTypeOK, faceVars, Chains, OnlyKnown,
         OneEach, NextAsked, EndedByNack, Pending
<1> QED
  BY <1>1, <1>2, <1>3, PeerStep DEF SubscriberNext

\* The inductive invariant holds.
LEMMA SubInvHolds == SubscriberSpec => []SubInv
<1>1. ProcessInit => SubInv
  BY SubTypeInit, ChainsInit DEF ProcessInit, SubInv
<1> QED
  BY <1>1, SubStep, PTL DEF SubscriberSpec

\* A set whose elements are all equal has one at most.
LEMMA AtMostOne ==
  ASSUME NEW S, \A e, f \in S : e = f
  PROVE  Cardinality(S) <= 1
<1>1. CASE S = {}
  BY <1>1, FS_EmptySet
<1>2. CASE S # {}
  <2>1. PICK e \in S : TRUE
    BY <1>2
  <2>2. S = {e}
    BY <2>1
  <2> QED
    BY <2>2, FS_Singleton
<1> QED
  BY <1>1, <1>2

LEMMA SingleChainOf == SubInv => SingleChain
<1> SUFFICES ASSUME SubInv, NEW s \in Subs, NEW i \in Ids
             PROVE  /\ Cardinality(Pending(s, i)) <= 1
                    /\ \A e \in Pending(s, i) :
                         e.interest.type = "data" => e.interest.seq = position[s][i]
  BY DEF SingleChain
<1>1. \A e, f \in Pending(s, i) : e = f
  BY DEF SubInv, Chains, OneEach, Pending
<1> QED
  BY <1>1, AtMostOne DEF SubInv, Chains, NextAsked, Pending

\* A subscription runs at most one chain of requests towards a publisher, and a
\* data request of the chain asks for the packet after the last one received.
THEOREM SingleChainCorrect == SubscriberSpec => []SingleChain
  BY SubInvHolds, SingleChainOf, PTL

\* A chain is alive unless a Nack of a sync request ended it.
THEOREM ChainAliveCorrect == SubscriberSpec => []ChainAlive
<1>1. SubInv => ChainAlive
  BY DEF SubInv, Chains, EndedByNack, ChainAlive
<1> QED
  BY <1>1, SubInvHolds, PTL

\* A chain that a Nack ended is never started again.
THEOREM RefusedForeverCorrect == SubscriberSpec => []RefusedForever
<1>1. SubInv => RefusedForever
  BY DEF SubInv, Chains, EndedByNack, RefusedForever
<1> QED
  BY <1>1, SubInvHolds, PTL

-----------------------------------------------------------------------------
(***************************************************************************)
(* Part 3.  RmwNdn.                                                        *)
(***************************************************************************)

LogBounded == \A p \in Pubs : Len(log[p]) <= MaxPublish

\* What is on the wire is what publishers alone have to expect.
WireExpected == wire \subseteq PeerInterest

\* q serves i or named a packet with it.
Names(q, i) ==
  \/ filter[q] = i
  \/ \E k \in 1..Len(log[q]) : log[q][k].id = i

\* Some publisher that i may stand for has published k messages.
Reached(i, k) == \E q \in Pubs : Names(q, i) /\ k <= Len(log[q])

\* Positions, requests under way and requests recorded all stay behind a stream.
BehindNamed ==
  /\ \A s \in Subs, i \in Ids : position[s][i] = 0 \/ Reached(i, position[s][i])
  /\ \A x \in wire : x.type = "data" => Reached(x.id, x.seq)
  /\ \A p \in Pubs : \A k \in reqSeqNum[p] :
       filter[p] \in Ids /\ Reached(filter[p], k)

BothInv ==
  /\ PubFullInv
  /\ SubInv
  /\ LogBounded
  /\ WireExpected
  /\ InboxGenuine
  /\ BehindNamed

\* A reply to a sync request that is pending was given after the request was sent,
\* so it is not behind what the subscription received before that.
ReplyFresh ==
  \A e \in pit, d \in net :
    (/\ e.interest.type = "sync" /\ d.type = "sync"
     /\ d.id = e.interest.id /\ d.nonce = e.interest.nonce)
      => d.seq + 1 >= position[e.sub][e.interest.id]

\* The requests that may still be answered, and the replies the network holds, are
\* of components that were drawn: one that was not has no reply.
Traced ==
  /\ \A x \in wire : x.type = "sync" /\ x.nonce # NoNonce => x \in drawn
  /\ \A d \in net : d.type = "sync" /\ d.nonce # NoNonce =>
       SyncInterest(d.id, d.nonce) \in drawn
-----------------------------------------------------------------------------
(* Each side in the eyes of the other. *)

\* A step of a publisher is one of PublisherSpec.
LEMMA PublisherStepAlone ==
  ASSUME WireExpected, NEW p \in Pubs, PublisherStep(p)
  PROVE  PublisherNext
  BY DEF WireExpected, PublisherStep, PublisherNext, ProbeAnswered

\* What the process with subscriptions does to the NDN side.
LEMMA SubscriberStepFace ==
  ASSUME SubTypeOK, SubscriberStep
  PROVE  /\ UNCHANGED <<announced, filter>>
         /\ net' \subseteq net
         /\ wire' \subseteq wire \cup
              {SyncInterest(i, n) : i \in Ids, n \in Nonces} \cup
              {DataInterest(d.id, d.seq + 1) : d \in net}
<1> DEFINE Goal ==
      /\ UNCHANGED <<announced, filter>>
      /\ net' \subseteq net
      /\ wire' \subseteq wire \cup
           {SyncInterest(i, n) : i \in Ids, n \in Nonces} \cup
           {DataInterest(d.id, d.seq + 1) : d \in net}
<1> USE DEF SubTypeOK, FaceTypeOK, faceVars
<1>1. ASSUME NEW s \in Subs, CreateSubscription(s)
      PROVE  Goal
  <2>1. PICK nonce \in [discovered -> Nonces] :
          Request({SyncRequest(s, i, nonce[i]) : i \in discovered}, {})
    BY <1>1 DEF CreateSubscription
  <2>2. wire' = wire \cup
          {e.interest : e \in {SyncRequest(s, i, nonce[i]) : i \in discovered}}
    BY <2>1 DEF Request, ExpressInterests
  <2>3. \A i \in discovered :
          /\ SyncRequest(s, i, nonce[i]).interest = SyncInterest(i, nonce[i])
          /\ i \in Ids /\ nonce[i] \in Nonces
    BY DEF SyncRequest
  <2>4. wire' \subseteq wire \cup {SyncInterest(i, n) : i \in Ids, n \in Nonces}
    BY <2>2, <2>3
  <2> QED
    BY <1>1, <2>4 DEF CreateSubscription
<1>2. ASSUME NEW i \in announced, OnHeartbeat(i)
      PROVE  Goal
  <2>1. PICK nonce \in [created -> FreshNonce(i)] :
          Request({SyncRequest(s, i, nonce[s]) : s \in created}, {})
    BY <1>2 DEF OnHeartbeat
  <2>2. wire' = wire \cup
          {e.interest : e \in {SyncRequest(s, i, nonce[s]) : s \in created}}
    BY <2>1 DEF Request, ExpressInterests
  <2>3. \A s \in created :
          /\ SyncRequest(s, i, nonce[s]).interest = SyncInterest(i, nonce[s])
          /\ i \in Ids /\ nonce[s] \in Nonces
    BY DEF SyncRequest, FreshNonce
  <2>4. wire' \subseteq wire \cup {SyncInterest(j, n) : j \in Ids, n \in Nonces}
    BY <2>2, <2>3
  <2> QED
    BY <1>2, <2>4 DEF OnHeartbeat
<1>3. ASSUME NEW e \in pit, NEW d \in net, OnData(e.sub, e.interest, d)
      PROVE  Goal
  <2>1. d.id = e.interest.id
    BY <1>3 DEF OnData, Satisfies
  <2>2. wire' = wire \cup {DataInterest(d.id, d.seq + 1)}
    BY <1>3, <2>1 DEF OnData, Request, ExpressInterests, DataRequest
  <2> QED
    BY <1>3, <2>2 DEF OnData
<1>4. ASSUME NEW e \in pit, OnError(e.sub, e.interest)
      PROVE  Goal
  <2>1. PICK n \in FreshNonce(e.interest.id) :
          Request({SyncRequest(e.sub, e.interest.id, n)},
                  {[sub |-> e.sub, interest |-> e.interest]})
    BY <1>4 DEF OnError
  <2>2. wire' = wire \cup {SyncInterest(e.interest.id, n)}
    BY <2>1 DEF Request, ExpressInterests, SyncRequest
  <2>3. e.interest.id \in Ids /\ n \in Nonces
    BY DEF Interest, FreshNonce
  <2> QED
    BY <1>4, <2>2, <2>3 DEF OnError
<1>5. ASSUME NEW e \in pit, OnSyncNack(e.sub, e.interest)
      PROVE  Goal
  BY <1>5 DEF OnSyncNack
<1>6. ASSUME NEW s \in Subs, Take(s)
      PROVE  Goal
  BY <1>6 DEF Take
<1>7. ASSUME NEW i \in Ids, NEW n \in Nonces, ForgetSync(i, n)
      PROVE  Goal
  BY <1>7 DEF ForgetSync
<1> HIDE DEF Goal
<1>8. Goal
  BY <1>1, <1>2, <1>3, <1>4, <1>5, <1>6, <1>7 DEF SubscriberStep
<1> QED
  BY <1>8 DEF Goal

LEMMA SubscriberKeepsPub ==
  ASSUME PubFullInv, SubTypeOK, SubTypeOK', SubscriberStep, UNCHANGED ownVars
  PROVE  PubFullInv'
<1>1. /\ net' \subseteq net /\ wire' \subseteq Interest
      /\ UNCHANGED <<announced, filter>>
  BY SubscriberStepFace DEF SubTypeOK, FaceTypeOK
<1> USE DEF ownVars, topicVars, syncVars, publisherVars
<1>2. PublisherTypeOK'
  BY <1>1
     DEF PubFullInv, PubInv, PublisherTypeOK, FaceTypeOK, TopicTypeOK, SyncTypeOK,
         HeartbeatTypeOK
<1>3. StreamInv' /\ RequestsAhead'
  BY DEF PubFullInv, PubInv, StreamInv, LogNumbered, Lockstep, WindowIsSuffix,
         RequestsAhead
<1>4. AnswersGenuine'
  BY <1>1 DEF PubFullInv, PubInv, AnswersGenuine
<1>5. Claim' /\ AnnouncedServed'
  BY <1>1 DEF PubFullInv, Claim, AnnouncedServed
<1>6. RepliesServed' /\ NamedAsServed'
  BY <1>1 DEF PubFullInv, RepliesServed, NamedAsServed
<1> QED
  BY <1>2, <1>3, <1>4, <1>5, <1>6 DEF PubFullInv, PubInv

LEMMA PublisherKeepsSub ==
  ASSUME SubInv, PublisherTypeOK', UNCHANGED subVars
  PROVE  SubInv'
  BY DEF SubInv, SubTypeOK, PublisherTypeOK, subVars, Chains, OnlyKnown, OneEach,
         NextAsked, EndedByNack, Pending

\* What is known of a packet of the network.
LEMMA PacketKnown ==
  ASSUME PubFullInv, NEW d \in net
  PROVE  /\ d.msg.n = d.seq
         /\ d.msg.pub \in Pubs
         /\ d.seq \in Nat
         /\ d.seq < Len(log[d.msg.pub])
         /\ d.type = "data" => log[d.msg.pub][d.seq + 1].id = d.id
         /\ Names(d.msg.pub, d.id)
<1> USE DEF PubFullInv, PubInv
<1>1. PICK p \in Pubs : /\ d.seq < Len(log[p])
                        /\ d.type = "data" => d = log[p][d.seq + 1]
                        /\ d.type = "sync" => d.msg = log[p][d.seq + 1].msg
  BY DEF AnswersGenuine
<1>2. d.seq \in Nat /\ d.type \in {"data", "sync"} /\ Len(log[p]) \in Nat
  BY DEF PublisherTypeOK, FaceTypeOK, Packet
<1>3. d.seq + 1 \in 1..Len(log[p])
  BY <1>1, <1>2
<1>4. log[p][d.seq + 1].msg = [pub |-> p, n |-> d.seq]
  BY <1>2, <1>3, EntryNumbered
<1>5. d.msg = [pub |-> p, n |-> d.seq]
  BY <1>1, <1>2, <1>4
<1>6. Names(p, d.id)
  <2>1. CASE d.type = "data"
    BY <1>1, <1>3, <2>1 DEF Names
  <2>2. CASE d.type = "sync"
    BY <1>5, <2>2 DEF RepliesServed, Names
  <2> QED
    BY <1>2, <2>1, <2>2
<1> QED
  BY <1>1, <1>2, <1>5, <1>6

LEMMA PacketReached ==
  ASSUME PubFullInv, NEW d \in net
  PROVE  Reached(d.id, d.seq + 1)
<1>1. /\ d.msg.pub \in Pubs /\ d.seq \in Nat /\ d.seq < Len(log[d.msg.pub])
      /\ Names(d.msg.pub, d.id)
  BY PacketKnown
<1>2. Len(log[d.msg.pub]) \in Nat
  BY <1>1 DEF PubFullInv, PubInv, PublisherTypeOK
<1> QED
  BY <1>1, <1>2 DEF Reached

\* A publisher never gives up a name or a message.
LEMMA ReachedStays ==
  ASSUME PubFullInv, [PublisherNext]_pubVars, NEW i \in Ids, NEW k \in Nat,
         Reached(i, k)
  PROVE  Reached(i, k)'
<1> USE DEF PubFullInv, PubInv
<1>1. PICK q \in Pubs : Names(q, i) /\ k <= Len(log[q])
  BY DEF Reached
<1>2. /\ Len(log[q]) \in Nat /\ Len(log'[q]) \in Nat
      /\ Len(log'[q]) >= Len(log[q])
      /\ \A j \in 1..Len(log[q]) : log'[q][j] = log[q][j]
  BY LogGrows
<1>3. k <= Len(log'[q])
  BY <1>1, <1>2
<1>4. CASE filter[q] = i
  <2>1. filter[q] # NoId
    BY <1>4, FaceAssumption
  <2> QED
    BY <1>3, <1>4, <2>1, FilterStays DEF Reached, Names
<1>5. ASSUME NEW j \in 1..Len(log[q]), log[q][j].id = i
      PROVE  Reached(i, k)'
  <2>1. j \in 1..Len(log'[q]) /\ log'[q][j].id = i
    BY <1>2, <1>5
  <2> QED
    BY <1>3, <2>1 DEF Reached, Names
<1> QED
  BY <1>1, <1>4, <1>5 DEF Names
-----------------------------------------------------------------------------
(* The steps of a publisher. *)

\* A wire that grew by the probe of a publisher.
LEMMA PublisherStepWire ==
  ASSUME NEW p \in Pubs, PublisherStep(p)
  PROVE  \E i \in Ids : wire' \subseteq wire \cup {SyncInterest(i, NoNonce)}
<1> USE DEF faceVars
<1>1. ASSUME NEW i \in Ids, Create(p, i) \/ OnUsedId(p, i)
      PROVE  wire' = wire \cup {SyncInterest(i, NoNonce)}
  BY <1>1 DEF Create, OnUsedId, ExpressInterests
<1>2. CASE wire' = wire
  BY <1>2, FaceAssumption
<1> QED
  BY <1>1, <1>2
     DEF PublisherStep, OnFreeId, Push, SendHeartbeat, Heartbeat, ReceiveInterest

LEMMA PublisherKeepsBehind ==
  ASSUME BothInv, NEW p \in Pubs, PublisherStep(p)
  PROVE  BehindNamed'
<1> USE DEF BothInv
<1>1. PublisherNext /\ UNCHANGED subVars
  BY PublisherStepAlone DEF PublisherStep
<1>2. \A i \in Ids, k \in Nat : Reached(i, k) => Reached(i, k)'
  BY <1>1, ReachedStays
<1>3. /\ position \in [Subs -> [Ids -> Nat]] /\ wire \subseteq Interest
      /\ reqSeqNum \in [Pubs -> SUBSET Nat]
  BY DEF SubInv, SubTypeOK, FaceTypeOK, PubFullInv, PubInv, PublisherTypeOK,
         TopicTypeOK
<1>4. \A s \in Subs, i \in Ids :
        position'[s][i] = 0 \/ Reached(i, position[s][i])'
  <2> TAKE s \in Subs, i \in Ids
  <2>1. position' = position /\ position[s][i] \in Nat
    BY <1>1, <1>3 DEF subVars
  <2> QED
    BY <1>2, <2>1 DEF BehindNamed, Reached, Names
<1>5. \A x \in wire' : x.type = "data" => Reached(x.id, x.seq)'
  <2>1. ASSUME NEW x \in wire', x.type = "data"
        PROVE  x \in wire
    BY <2>1, PublisherStepWire DEF SyncInterest
  <2>2. ASSUME NEW x \in wire, x.type = "data"
        PROVE  Reached(x.id, x.seq)'
    <3>1. x.id \in Ids /\ x.seq \in Nat
      BY <1>3 DEF Interest
    <3>2. Reached(x.id, x.seq)
      BY <2>2 DEF BehindNamed
    <3> QED
      BY <1>2, <3>1, <3>2
  <2> QED
    BY <2>1, <2>2
<1>6. ASSUME NEW q \in Pubs, NEW k \in reqSeqNum'[q]
      PROVE  filter'[q] \in Ids /\ Reached(filter[q], k)'
  <2>1. CASE k \in reqSeqNum[q]
    <3>1. filter[q] \in Ids /\ Reached(filter[q], k) /\ k \in Nat
      BY <1>3, <2>1 DEF BehindNamed
    <3>2. filter'[q] = filter[q]
      <4>1. filter[q] # NoId
        BY <3>1, FaceAssumption
      <4> QED
        BY <1>1, <4>1, FilterStays DEF PubFullInv, PubInv
    <3> QED
      BY <1>2, <3>1, <3>2 DEF Reached, Names
  <2>2. CASE k \notin reqSeqNum[q]
    <3>1. ~(reqSeqNum'[q] \subseteq reqSeqNum[q])
      BY <2>2
    <3>2. ~Push(p)
      BY <1>3, <3>1 DEF Push, TopicPush
    <3>3. PICK x \in wire : ReceiveInterest(p, x)
      BY <3>1, <3>2
         DEF PublisherStep, Create, OnUsedId, OnFreeId, SendHeartbeat, topicVars
    <3>4. /\ x.type = "data" /\ x.id = filter[p]
          /\ reqSeqNum' = [reqSeqNum EXCEPT ![p] = @ \cup {x.seq}]
          /\ UNCHANGED <<log, filter>>
      BY <2>2, <3>3
         DEF ReceiveInterest, TopicOnInterest, RecordRequest, AnswerRequest,
             topicVars, publisherVars
    <3>5. q = p /\ k = x.seq
      BY <1>3, <2>2, <3>4
    <3>6. x.id \in Ids /\ Reached(x.id, x.seq)
      BY <1>3, <3>4 DEF Interest, BehindNamed
    <3> QED
      BY <3>4, <3>5, <3>6 DEF Reached, Names
  <2> QED
    BY <2>1, <2>2
<1> QED
  BY <1>4, <1>5, <1>6 DEF BehindNamed

LEMMA PublisherKeepsBoth ==
  ASSUME BothInv, NEW p \in Pubs, PublisherStep(p)
  PROVE  BothInv'
<1> USE DEF BothInv
<1>1. PublisherNext /\ UNCHANGED subVars
  BY PublisherStepAlone DEF PublisherStep
<1>2. PubFullInv'
  BY <1>1, PubFullStep
<1>3. SubInv'
  BY <1>1, <1>2, PublisherKeepsSub DEF PubFullInv, PubInv
<1>4. LogBounded'
  <2>1. ASSUME NEW q \in Pubs, Push(q)
        PROVE  LogBounded'
    <3> DEFINE e == DataPacket(id[q], Len(log[q]), [pub |-> q, n |-> Len(log[q])])
    <3>1. e \in Packet /\ log' = [log EXCEPT ![q] = Append(log[q], e)]
      BY <2>1, PushAppends DEF PubFullInv, PubInv, StreamInv
    <3>2. Len(log[q]) < MaxPublish
      BY <2>1 DEF Push
    <3> HIDE DEF e
    <3> QED
      BY <3>1, <3>2, MaxPublishAssumption
         DEF LogBounded, PubFullInv, PubInv, PublisherTypeOK
  <2>2. CASE \A q \in Pubs : ~Push(q)
    BY <1>1, <2>2, OnlyPushMovesStream DEF StreamState, LogBounded
  <2> QED
    BY <2>1, <2>2
<1>5. WireExpected'
  BY PublisherStepWire DEF WireExpected, PeerInterest
<1>6. InboxGenuine'
  <2> SUFFICES ASSUME NEW s \in Subs, NEW k \in DOMAIN inbox[s]
               PROVE  /\ inbox[s][k].msg.n = inbox[s][k].seq
                      /\ inbox[s][k].seq < Len(log'[inbox[s][k].msg.pub])
                      /\ inbox[s][k].type = "data" =>
                           log'[inbox[s][k].msg.pub][inbox[s][k].seq + 1].id =
                             inbox[s][k].id
    BY <1>1 DEF InboxGenuine, subVars
  <2> DEFINE d == inbox[s][k]
             q == d.msg.pub
  <2>1. d \in Packet
    BY DEF SubInv, SubTypeOK
  <2>2. d.seq \in Nat /\ q \in Pubs
    BY <2>1 DEF Packet, Message
  <2>3. /\ d.msg.n = d.seq
        /\ d.seq < Len(log[q])
        /\ d.type = "data" => log[q][d.seq + 1].id = d.id
    BY DEF InboxGenuine
  <2> HIDE DEF d, q
  <2>4. /\ Len(log[q]) \in Nat /\ Len(log'[q]) \in Nat
        /\ Len(log'[q]) >= Len(log[q])
        /\ \A j \in 1..Len(log[q]) : log'[q][j] = log[q][j]
    BY <1>1, <2>2, LogGrows DEF PubFullInv, PubInv
  <2>5. d.seq + 1 \in 1..Len(log[q])
    BY <2>2, <2>3, <2>4
  <2>6. /\ d.msg.n = d.seq
        /\ d.seq < Len(log'[q])
        /\ d.type = "data" => log'[q][d.seq + 1].id = d.id
    BY <2>2, <2>3, <2>4, <2>5
  <2> QED
    BY <2>6 DEF d, q
<1> QED
  BY <1>2, <1>3, <1>4, <1>5, <1>6, PublisherKeepsBehind

-----------------------------------------------------------------------------
(* The steps of the process with subscriptions. *)

LEMMA SubscriberKeepsBoth ==
  ASSUME BothInv, SubscriberStep, UNCHANGED ownVars
  PROVE  BothInv'
<1> USE DEF BothInv
<1>1. SubInv'
  BY SubTypeStep, ChainsStep DEF SubInv
<1>2. PubFullInv'
  BY <1>1, SubscriberKeepsPub DEF SubInv
<1>3. /\ UNCHANGED <<announced, filter>>
      /\ net' \subseteq net
      /\ wire' \subseteq wire \cup
           {SyncInterest(i, n) : i \in Ids, n \in Nonces} \cup
           {DataInterest(d.id, d.seq + 1) : d \in net}
  BY SubscriberStepFace DEF SubInv
<1>4. UNCHANGED <<log, reqSeqNum>>
  BY DEF ownVars, topicVars, publisherVars
<1>5. LogBounded'
  BY <1>4 DEF LogBounded
<1>6. WireExpected'
  <2>1. ASSUME NEW d \in net
        PROVE  DataInterest(d.id, d.seq + 1) \in PeerInterest
    <3>1. d.msg.pub \in Pubs /\ d.seq \in Nat /\ d.seq < Len(log[d.msg.pub])
      BY PacketKnown
    <3>2. Len(log[d.msg.pub]) \in Nat /\ Len(log[d.msg.pub]) <= MaxPublish
      BY <3>1 DEF LogBounded, PubFullInv, PubInv, PublisherTypeOK
    <3>3. d.seq + 1 \in 0..MaxPublish
      BY <3>1, <3>2, MaxPublishAssumption
    <3>4. d.id \in Ids
      BY DEF SubInv, SubTypeOK, FaceTypeOK, Packet
    <3> QED
      BY <3>3, <3>4 DEF PeerInterest
  <2>2. \A i \in Ids, n \in Nonces : SyncInterest(i, n) \in PeerInterest
    BY DEF PeerInterest
  <2> QED
    BY <1>3, <2>1, <2>2 DEF WireExpected
<1>7. InboxGenuine' /\ \A s \in Subs, i \in Ids :
        position'[s][i] = 0 \/ Reached(i, position'[s][i])
  <2>1. ASSUME NEW e \in pit, NEW d \in net, OnData(e.sub, e.interest, d)
        PROVE  InboxGenuine' /\ \A s \in Subs, i \in Ids :
                 position'[s][i] = 0 \/ Reached(i, position'[s][i])
    <3>1. /\ e.sub \in Subs /\ e.interest.id \in Ids /\ d \in Packet
          /\ inbox \in [Subs -> Seq(Packet)]
          /\ position \in [Subs -> [Ids -> Nat]]
      BY DEF SubInv, SubTypeOK, FaceTypeOK, Interest
    <3>2. /\ inbox' = [inbox EXCEPT ![e.sub] = Append(inbox[e.sub], d)]
          /\ position' = [position EXCEPT ![e.sub][e.interest.id] = d.seq + 1]
          /\ d.id = e.interest.id
      BY <2>1 DEF OnData, Satisfies
    <3>3. /\ d.msg.n = d.seq
          /\ d.seq < Len(log[d.msg.pub])
          /\ d.type = "data" => log[d.msg.pub][d.seq + 1].id = d.id
      BY PacketKnown
    <3>4. \A s \in Subs : \A k \in DOMAIN inbox'[s] :
            \/ inbox'[s][k] = d
            \/ k \in DOMAIN inbox[s] /\ inbox'[s][k] = inbox[s][k]
      BY <3>1, <3>2
    <3>5. InboxGenuine'
      BY <1>4, <3>3, <3>4 DEF InboxGenuine
    <3>6. Reached(e.interest.id, d.seq + 1)
      BY <3>2, PacketReached
    <3>7. \A s \in Subs, i \in Ids :
            \/ position'[s][i] = position[s][i]
            \/ i = e.interest.id /\ position'[s][i] = d.seq + 1
      BY <3>1, <3>2
    <3> QED
      BY <3>5, <3>6, <3>7 DEF BehindNamed
  <2>2. ASSUME NEW s \in Subs, Take(s)
        PROVE  InboxGenuine' /\ position' = position
    <3>1. inbox \in [Subs -> Seq(Packet)] /\ inbox[s] # <<>>
      BY <2>2 DEF Take, SubInv, SubTypeOK
    <3>2. /\ inbox' = [inbox EXCEPT ![s] = Tail(inbox[s])]
          /\ position' = position
      BY <2>2 DEF Take
    <3>3. \A t \in Subs : \A k \in DOMAIN inbox'[t] :
            \E j \in DOMAIN inbox[t] : inbox'[t][k] = inbox[t][j]
      <4> TAKE t \in Subs
      <4> TAKE k \in DOMAIN inbox'[t]
      <4>1. CASE t # s
        BY <3>1, <3>2, <4>1
      <4>2. CASE t = s
        <5>1. /\ Len(Tail(inbox[s])) = Len(inbox[s]) - 1
              /\ \A j \in 1..Len(inbox[s]) - 1 : Tail(inbox[s])[j] = inbox[s][j + 1]
              /\ Tail(inbox[s]) \in Seq(Packet)
          BY <3>1
        <5>2. k \in 1..Len(inbox[s]) - 1
          BY <3>1, <3>2, <4>2, <5>1
        <5>3. k + 1 \in DOMAIN inbox[s] /\ inbox'[s][k] = inbox[s][k + 1]
          BY <3>1, <3>2, <5>1, <5>2
        <5> QED
          BY <4>2, <5>3
      <4> QED
        BY <4>1, <4>2
    <3>4. InboxGenuine'
      <4> SUFFICES ASSUME NEW t \in Subs, NEW k \in DOMAIN inbox'[t]
                   PROVE  LET d == inbox'[t][k]
                          IN  /\ d.msg.n = d.seq
                              /\ d.seq < Len(log[d.msg.pub])
                              /\ d.type = "data" =>
                                   log[d.msg.pub][d.seq + 1].id = d.id
        BY <1>4 DEF InboxGenuine
      <4>1. PICK j \in DOMAIN inbox[t] : inbox'[t][k] = inbox[t][j]
        BY <3>3
      <4> QED
        BY <4>1 DEF InboxGenuine
    <3> QED
      BY <3>2, <3>4
  <2>3. CASE UNCHANGED <<inbox, position>>
    BY <1>4, <2>3 DEF InboxGenuine, BehindNamed
  <2> QED
    BY <2>1, <2>2, <2>3
       DEF SubscriberStep, BehindNamed, CreateSubscription, OnHeartbeat, OnError,
           OnSyncNack, ForgetSync, subVars
<1>8. \A x \in wire' : x.type = "data" => Reached(x.id, x.seq)
  BY <1>3, PacketReached DEF BehindNamed, SyncInterest, DataInterest
<1>9. BehindNamed'
  <2>1. \A i, k : Reached(i, k)' <=> Reached(i, k)
    BY <1>3, <1>4 DEF Reached, Names
  <2> QED
    BY <1>3, <1>4, <1>7, <1>8, <2>1 DEF BehindNamed, Reached, Names
<1> QED
  BY <1>1, <1>2, <1>5, <1>6, <1>7, <1>9
-----------------------------------------------------------------------------
(* The two sides together. *)

LEMMA BothInit == Init => BothInv
<1> SUFFICES ASSUME Init PROVE BothInv
  OBVIOUS
<1>1. PubFullInv
  BY PubFullInit DEF Init
<1>2. SubInv
  BY SubTypeInit, ChainsInit DEF Init, SubInv
<1>3. LogBounded /\ WireExpected
  BY MaxPublishAssumption
     DEF Init, PublisherInit, FaceInit, LogBounded, WireExpected
<1>4. InboxGenuine /\ BehindNamed
  BY DEF Init, PublisherInit, TopicInit, SubscriberInit, FaceInit, InboxGenuine,
         BehindNamed
<1> QED
  BY <1>1, <1>2, <1>3, <1>4 DEF BothInv

LEMMA BothStutter ==
  ASSUME BothInv, UNCHANGED vars
  PROVE  BothInv'
<1> USE DEF vars, ownVars, subVars, faceVars, topicVars, syncVars, publisherVars
<1>1. PubFullInv'
  <2>1. UNCHANGED pubVars
    BY DEF pubVars
  <2> QED
    BY <2>1, PubFullStep DEF BothInv
<1>2. SubInv'
  BY <1>1, PublisherKeepsSub DEF BothInv, PubFullInv, PubInv
<1> QED
  BY <1>1, <1>2
     DEF BothInv, LogBounded, WireExpected, InboxGenuine, BehindNamed, Reached,
         Names

LEMMA BothStep == BothInv /\ [Next]_vars => BothInv'
  BY PublisherKeepsBoth, SubscriberKeepsBoth, BothStutter DEF Next

\* The inductive invariant of the composition holds.
LEMMA BothInvHolds == Spec => []BothInv
  BY BothInit, BothStep, PTL DEF Spec

\* Whatever waits to be taken was published under the number and, for a data
\* packet, the name it arrived with.
THEOREM InboxGenuineCorrect == Spec => []InboxGenuine
<1>1. BothInv => InboxGenuine
  BY DEF BothInv
<1> QED
  BY <1>1, BothInvHolds, PTL

\* No subscription is ahead of the stream of the sole owner of an identifier, and
\* the owner holds at most the request for its next packet.
THEOREM NeverAheadCorrect == Spec => []NeverAhead
<1>1. BothInv => NeverAhead
  <2> SUFFICES ASSUME BothInv, NEW p \in Pubs, NEW i \in Ids, SoleOwner(p, i)
               PROVE  /\ \A s \in Subs : position[s][i] <= Len(log[p])
                      /\ reqSeqNum[p] \subseteq {Len(log[p])}
    BY DEF NeverAhead
  <2>1. Len(log[p]) \in Nat /\ reqSeqNum[p] \subseteq Nat
    BY DEF BothInv, PubFullInv, PubInv, PublisherTypeOK, TopicTypeOK
  <2>2. \A q \in Pubs : Names(q, i) => q = p
    BY DEF SoleOwner, Names
  <2>3. \A k : Reached(i, k) => k <= Len(log[p])
    BY <2>2 DEF Reached
  <2>4. \A s \in Subs : position[s][i] <= Len(log[p])
    BY <2>1, <2>3 DEF BothInv, BehindNamed
  <2>5. \A k \in reqSeqNum[p] : k <= Len(log[p]) /\ k >= Len(log[p])
    BY <2>3 DEF BothInv, BehindNamed, SoleOwner, PubFullInv, PubInv, RequestsAhead
  <2>6. \A k \in reqSeqNum[p] : k = Len(log[p])
    BY <2>1, <2>5
  <2> QED
    BY <2>4, <2>6
<1> QED
  BY <1>1, BothInvHolds, PTL
-----------------------------------------------------------------------------
(***************************************************************************)
(* A subscription to a topic of one publisher and one identifier           *)
(* implements TopicStream, whatever the other subscriptions of its process *)
(* do.                                                                     *)
(***************************************************************************)
OneStream == Subs # {} /\ Ids = {0} /\ \E p : Pubs = {p}

LEMMA TheTwo ==
  ASSUME OneStream
  PROVE  TheSub \in Subs /\ ThePub \in Pubs /\ Pubs = {ThePub} /\ 0 \in Ids
<1>1. \E s \in Subs : TRUE
  BY DEF OneStream
<1>2. TheSub \in Subs
  BY <1>1 DEF TheSub
<1>3. PICK p : Pubs = {p}
  BY DEF OneStream
<1>4. ThePub \in Pubs
  BY <1>3 DEF ThePub
<1> QED
  BY <1>2, <1>3, <1>4, FaceAssumption

\* The sequence numbers of a queue.
Numbers(q) == [k \in DOMAIN q |-> q[k].seq]

LEMMA NumbersType ==
  ASSUME NEW q \in Seq(Packet)
  PROVE  /\ Numbers(q) \in Seq(Nat)
         /\ Len(Numbers(q)) = Len(q)
         /\ \A k \in 1..Len(q) : Numbers(q)[k] = q[k].seq
         /\ Numbers(q) = <<>> <=> q = <<>>
<1>1. /\ Len(q) \in Nat /\ DOMAIN q = 1..Len(q)
      /\ \A k \in 1..Len(q) : q[k] \in Packet
  OBVIOUS
<1>2. \A k \in 1..Len(q) : q[k].seq \in Nat
  BY <1>1 DEF Packet
<1>3. Numbers(q) \in [1..Len(q) -> Nat]
  BY <1>1, <1>2 DEF Numbers
<1>4. Numbers(q) \in Seq(Nat)
  BY <1>1, <1>3
<1>5. Len(Numbers(q)) = Len(q)
  BY <1>1, <1>3, <1>4
<1>6. \A k \in 1..Len(q) : Numbers(q)[k] = q[k].seq
  BY <1>1 DEF Numbers
<1>7. Numbers(q) = <<>> <=> q = <<>>
  BY <1>4, <1>5, EmptySeq
<1> QED
  BY <1>4, <1>5, <1>6, <1>7

LEMMA NumbersAppend ==
  ASSUME NEW q \in Seq(Packet), NEW d \in Packet
  PROVE  Numbers(Append(q, d)) = Append(Numbers(q), d.seq)
<1> DEFINE r == Append(q, d)
           a == Numbers(r)
           n == Numbers(q)
           b == Append(n, d.seq)
<1>1. /\ r \in Seq(Packet) /\ Len(r) = Len(q) + 1
      /\ \A k \in 1..Len(q) : r[k] = q[k]
      /\ r[Len(q) + 1] = d
  OBVIOUS
<1>2. d.seq \in Nat /\ Len(q) \in Nat
  BY DEF Packet
<1> HIDE DEF r
<1>3. /\ a \in Seq(Nat) /\ Len(a) = Len(r)
      /\ \A k \in 1..Len(r) : a[k] = r[k].seq
  BY <1>1, NumbersType
<1>4. /\ n \in Seq(Nat) /\ Len(n) = Len(q)
      /\ \A k \in 1..Len(q) : n[k] = q[k].seq
  BY NumbersType
<1> HIDE DEF a, n
<1>5. /\ b \in Seq(Nat) /\ Len(b) = Len(q) + 1
      /\ \A k \in 1..Len(q) : b[k] = n[k]
      /\ b[Len(q) + 1] = d.seq
  BY <1>2, <1>4
<1> HIDE DEF b
<1>6. \A k \in 1..Len(a) : a[k] = b[k]
  <2> TAKE k \in 1..Len(a)
  <2>1. CASE k = Len(q) + 1
    BY <1>1, <1>2, <1>3, <1>5, <2>1
  <2>2. CASE k # Len(q) + 1
    <3>1. k \in 1..Len(q) /\ k \in 1..Len(r)
      BY <1>1, <1>2, <1>3, <2>2
    <3> QED
      BY <1>1, <1>3, <1>4, <1>5, <3>1
  <2> QED
    BY <2>1, <2>2
<1>7. a = b
  BY <1>1, <1>3, <1>5, <1>6, SeqEqual
<1> QED
  BY <1>7 DEF a, b, n, r

LEMMA NumbersTail ==
  ASSUME NEW q \in Seq(Packet), q # <<>>
  PROVE  Numbers(Tail(q)) = Tail(Numbers(q))
<1> DEFINE r == Tail(q)
           a == Numbers(r)
           n == Numbers(q)
           b == Tail(n)
<1>1. /\ r \in Seq(Packet) /\ Len(r) = Len(q) - 1
      /\ \A k \in 1..Len(q) - 1 : r[k] = q[k + 1]
  OBVIOUS
<1>2. Len(q) \in Nat \ {0}
  BY EmptySeq
<1> HIDE DEF r
<1>3. /\ a \in Seq(Nat) /\ Len(a) = Len(r)
      /\ \A k \in 1..Len(r) : a[k] = r[k].seq
  BY <1>1, NumbersType
<1>4. /\ n \in Seq(Nat) /\ Len(n) = Len(q) /\ n # <<>>
      /\ \A k \in 1..Len(q) : n[k] = q[k].seq
  BY NumbersType
<1> HIDE DEF a, n
<1>5. /\ b \in Seq(Nat) /\ Len(b) = Len(q) - 1
      /\ \A k \in 1..Len(q) - 1 : b[k] = n[k + 1]
  BY <1>4
<1> HIDE DEF b
<1>6. \A k \in 1..Len(a) : a[k] = b[k]
  <2> TAKE k \in 1..Len(a)
  <2>1. k \in 1..Len(q) - 1 /\ k + 1 \in 1..Len(q) /\ k \in 1..Len(r)
    BY <1>1, <1>2, <1>3
  <2> QED
    BY <1>1, <1>3, <1>4, <1>5, <2>1
<1>7. a = b
  BY <1>1, <1>3, <1>5, <1>6, SeqEqual
<1> QED
  BY <1>7 DEF a, b, n, r

\* The mode of the stream is told by the one request that is pending, or by the
\* Nack that ended the chain; the same before and after a step.
LEMMA ModeNow ==
  ASSUME SubInv, OneStream
  PROVE  /\ \A e \in pit : e.sub = TheSub =>
              /\ e.interest.type = "sync" => Mode = "find"
              /\ e.interest.type = "data" => Mode = "follow"
         /\ <<TheSub, 0>> \in refused => Mode = "refused"
         /\ Pending(TheSub, 0) = {} /\ <<TheSub, 0>> \notin refused =>
              Mode = "unknown"
<1>1. ASSUME NEW e \in pit, e.sub = TheSub
      PROVE  /\ e \in Pending(TheSub, 0)
             /\ <<TheSub, 0>> \notin refused
             /\ \A f \in Pending(TheSub, 0) : f = e
  <2>1. e.interest.id = 0
    BY DEF SubInv, SubTypeOK, Interest, OneStream
  <2> QED
    BY <1>1, <2>1
       DEF SubInv, Chains, OnlyKnown, OneEach, EndedByNack, Pending
<1>2. \A e \in pit : e.sub = TheSub =>
              /\ e.interest.type = "sync" => Mode = "find"
              /\ e.interest.type = "data" => Mode = "follow"
  BY <1>1 DEF Mode
<1>3. <<TheSub, 0>> \in refused => Mode = "refused"
  BY <1>1 DEF Mode, Pending
<1>4. Pending(TheSub, 0) = {} /\ <<TheSub, 0>> \notin refused => Mode = "unknown"
  BY DEF Mode
<1> QED
  BY <1>2, <1>3, <1>4

LEMMA ModeThen ==
  ASSUME SubInv', OneStream
  PROVE  /\ \A e \in pit' : e.sub = TheSub =>
              /\ e.interest.type = "sync" => Mode' = "find"
              /\ e.interest.type = "data" => Mode' = "follow"
         /\ <<TheSub, 0>> \in refused' => Mode' = "refused"
         /\ Pending(TheSub, 0)' = {} /\ <<TheSub, 0>> \notin refused' =>
              Mode' = "unknown"
<1>1. ASSUME NEW e \in pit', e.sub = TheSub
      PROVE  /\ e \in Pending(TheSub, 0)'
             /\ <<TheSub, 0>> \notin refused'
             /\ \A f \in Pending(TheSub, 0)' : f = e
  <2>1. e.interest.id = 0
    BY DEF SubInv, SubTypeOK, Interest, OneStream
  <2> QED
    BY <1>1, <2>1
       DEF SubInv, Chains, OnlyKnown, OneEach, EndedByNack, Pending
<1>2. \A e \in pit' : e.sub = TheSub =>
              /\ e.interest.type = "sync" => Mode' = "find"
              /\ e.interest.type = "data" => Mode' = "follow"
  BY <1>1 DEF Mode
<1>3. <<TheSub, 0>> \in refused' => Mode' = "refused"
  BY <1>1 DEF Mode, Pending
<1>4. Pending(TheSub, 0)' = {} /\ <<TheSub, 0>> \notin refused' =>
        Mode' = "unknown"
  BY DEF Mode
<1> QED
  BY <1>2, <1>3, <1>4
LEMMA PositionBehind ==
  ASSUME BothInv, OneStream, NEW s \in Subs, NEW i \in Ids
  PROVE  /\ position[s][i] \in Nat /\ Len(log[ThePub]) \in Nat
         /\ position[s][i] <= Len(log[ThePub])
<1>1. position[s][i] \in Nat /\ Len(log[ThePub]) \in Nat
  BY TheTwo
     DEF BothInv, SubInv, SubTypeOK, PubFullInv, PubInv, PublisherTypeOK
<1>2. position[s][i] = 0 \/ Reached(i, position[s][i])
  BY DEF BothInv, BehindNamed
<1> QED
  BY <1>1, <1>2, TheTwo DEF Reached

LEMMA FreshAfterPublisher ==
  ASSUME BothInv, ReplyFresh, OneStream, NEW p \in Pubs, PublisherStep(p)
  PROVE  ReplyFresh'
<1>1. PublisherNext /\ UNCHANGED <<pit, position>>
  BY PublisherStepAlone DEF PublisherStep, subVars, BothInv
<1>2. SUFFICES ASSUME NEW e \in pit, NEW d \in net', d \notin net,
                      e.interest.type = "sync", d.type = "sync"
               PROVE  d.seq + 1 >= position[e.sub][e.interest.id]
  BY <1>1 DEF ReplyFresh
<1>3. PICK q \in Pubs : d.seq = Len(log[q]) - 1
  BY <1>1, <1>2, NewReplyIsLast DEF BothInv, PubFullInv, PubInv
<1>4. q = ThePub
  BY TheTwo
<1>5. e.sub \in Subs /\ e.interest.id \in Ids
  BY DEF BothInv, SubInv, SubTypeOK, Interest
<1>6. position[e.sub][e.interest.id] <= Len(log[ThePub])
  BY <1>5, PositionBehind
<1>7. position[e.sub][e.interest.id] \in Nat /\ Len(log[ThePub]) \in Nat
  BY <1>5, PositionBehind
<1> QED
  BY <1>3, <1>4, <1>6, <1>7

LEMMA TracedAfterPublisher ==
  ASSUME BothInv, Traced, NEW p \in Pubs, PublisherStep(p)
  PROVE  Traced'
<1>1. PublisherNext /\ drawn' = drawn
  BY PublisherStepAlone DEF PublisherStep, subVars, BothInv
<1>2. wire \subseteq Interest
  BY DEF BothInv, SubInv, SubTypeOK, FaceTypeOK
<1>3. \A x \in wire' : x \in wire \/ x.nonce = NoNonce
  BY DEF PublisherStep, Create, OnUsedId, OnFreeId, Push, SendHeartbeat, Heartbeat,
         ReceiveInterest, ExpressInterests, SyncInterest, faceVars
<1>4. ASSUME NEW d \in net', d \notin net, d.type = "sync", d.nonce # NoNonce
      PROVE  SyncInterest(d.id, d.nonce) \in wire
  <2>1. ASSUME Push(p)
        PROVE  FALSE
    <3>1. d = DataPacket(id[p], Len(log[p]), [pub |-> p, n |-> Len(log[p])])
      BY <1>4, <2>1, PushAppends DEF BothInv, PubFullInv, PubInv, StreamInv
    <3> QED
      BY <1>4, <3>1 DEF DataPacket
  <2>2. PICK x \in wire : ReceiveInterest(p, x)
    BY <1>4, <2>1
       DEF PublisherStep, Create, OnUsedId, OnFreeId, SendHeartbeat, Heartbeat
  <2>3. x \in Interest /\ x \in PeerInterest
    BY <1>2 DEF BothInv, WireExpected
  <2>4. ~AnswerRequest(p, x.seq)
    <3>1. SUFFICES ASSUME AnswerRequest(p, x.seq)
                   PROVE  FALSE
      OBVIOUS
    <3>2. /\ x.seq \in 0..Len(log[p]) - 1
          /\ d = log[p][x.seq + 1]
      BY <1>4, <2>3, <3>1, AnswerIsEntry
         DEF AnswerRequest, Put, Interest, BothInv, PubFullInv, PubInv
    <3>3. x.seq + 1 \in 1..Len(log[p])
      BY <3>2 DEF PublisherTypeOK, BothInv, PubFullInv, PubInv
    <3> QED
      BY <1>4, <3>2, <3>3, EntryNumbered DEF BothInv, PubFullInv, PubInv
  <2>5. SyncOnInterest(p, x)
    BY <1>4, <2>2, <2>4 DEF ReceiveInterest, TopicOnInterest, RecordRequest
  <2>6. d.id = x.id /\ d.nonce = x.nonce /\ x.type = "sync"
    BY <1>4, <2>5 DEF SyncOnInterest, Put, SyncPacket
  <2> QED
    BY <2>3, <2>6 DEF PeerInterest, SyncInterest, DataInterest
<1>5. \A d : SyncInterest(d.id, d.nonce).type = "sync" /\
             SyncInterest(d.id, d.nonce).nonce = d.nonce
  BY DEF SyncInterest
<1> QED
  BY <1>1, <1>3, <1>4, <1>5 DEF Traced

LEMMA RequestTraced ==
  ASSUME Traced, NEW new, NEW done, Request(new, done), net' = net
  PROVE  Traced'
  BY DEF Request, ExpressInterests, Traced

LEMMA TracedAfterSubscriber ==
  ASSUME Traced, SubscriberStep
  PROVE  Traced'
<1>1. ASSUME NEW s \in Subs, CreateSubscription(s)
      PROVE  Traced'
  BY <1>1, RequestTraced DEF CreateSubscription
<1>2. ASSUME NEW i \in announced, OnHeartbeat(i)
      PROVE  Traced'
  BY <1>2, RequestTraced DEF OnHeartbeat
<1>3. ASSUME NEW e \in pit, NEW d \in net, OnData(e.sub, e.interest, d)
      PROVE  Traced'
  BY <1>3, RequestTraced DEF OnData
<1>4. ASSUME NEW e \in pit, OnError(e.sub, e.interest)
      PROVE  Traced'
  BY <1>4, RequestTraced DEF OnError
<1>5. ASSUME NEW i \in Ids, NEW n \in Nonces, ForgetSync(i, n)
      PROVE  Traced'
  <2>1. \A d : SyncInterest(d.id, d.nonce) = SyncInterest(i, n)
               => d.id = i /\ d.nonce = n
    BY DEF SyncInterest
  <2> QED
    BY <1>5, <2>1 DEF ForgetSync, Traced
<1>6. CASE UNCHANGED <<wire, net, drawn>>
  BY <1>6 DEF Traced
<1> QED
  BY <1>1, <1>2, <1>3, <1>4, <1>5, <1>6
     DEF SubscriberStep, OnSyncNack, Take, faceVars

\* A request under a component that no reply has.
LEMMA FreshStarted ==
  ASSUME ReplyFresh, Traced, net' \subseteq net, NEW new, NEW old \in SUBSET pit,
         pit' = old \cup new,
         \A e \in old :
           position'[e.sub][e.interest.id] = position[e.sub][e.interest.id],
         \A e \in new : e.interest.type = "sync" =>
           e.interest.nonce \in FreshNonce(e.interest.id)
  PROVE  ReplyFresh'
<1>1. ASSUME NEW e \in new, NEW d \in net, e.interest.type = "sync",
             d.type = "sync", d.id = e.interest.id
      PROVE  d.nonce # e.interest.nonce
  BY <1>1, FaceAssumption DEF FreshNonce, Traced
<1> QED
  BY <1>1 DEF ReplyFresh

LEMMA FreshAfterSubscriber ==
  ASSUME BothInv, ReplyFresh, Traced, SubscriberStep
  PROVE  ReplyFresh'
<1> USE DEF BothInv, SubInv
<1>1. net' \subseteq net
  BY SubscriberStepFace
<1>2. ASSUME NEW s \in Subs, CreateSubscription(s)
      PROVE  ReplyFresh'
  <2>1. PICK nonce \in [discovered -> Nonces] :
          /\ \A i \in discovered : nonce[i] \in FreshNonce(i)
          /\ pit' = pit \cup {SyncRequest(s, i, nonce[i]) : i \in discovered}
    BY <1>2 DEF CreateSubscription, Request
  <2> DEFINE new == {SyncRequest(s, i, nonce[i]) : i \in discovered}
  <2>2. \A e \in new : e.interest.nonce \in FreshNonce(e.interest.id)
    BY <2>1 DEF SyncRequest, SyncInterest
  <2>3. position' = position /\ pit' = pit \cup new
    BY <1>2, <2>1 DEF CreateSubscription
  <2> HIDE DEF new
  <2> QED
    BY <1>1, <2>2, <2>3, FreshStarted
<1>3. ASSUME NEW i \in announced, OnHeartbeat(i)
      PROVE  ReplyFresh'
  <2>1. PICK nonce \in [created -> FreshNonce(i)] :
          pit' = pit \cup {SyncRequest(s, i, nonce[s]) : s \in created}
    BY <1>3 DEF OnHeartbeat, Request
  <2> DEFINE new == {SyncRequest(s, i, nonce[s]) : s \in created}
  <2>2. \A e \in new : e.interest.nonce \in FreshNonce(e.interest.id)
    BY <2>1 DEF SyncRequest, SyncInterest
  <2>3. position' = position /\ pit' = pit \cup new
    BY <1>3, <2>1 DEF OnHeartbeat
  <2> HIDE DEF new
  <2> QED
    BY <1>1, <2>2, <2>3, FreshStarted
<1>4. ASSUME NEW e \in pit, NEW d \in net, OnData(e.sub, e.interest, d)
      PROVE  ReplyFresh'
  <2> DEFINE f == DataRequest(e.sub, e.interest.id, d.seq + 1)
  <2>1. [sub |-> e.sub, interest |-> e.interest] = e
    BY DEF SubTypeOK
  <2>2. pit' = (pit \ {e}) \cup {f}
    BY <1>4, <2>1 DEF OnData, Request
  <2>3. f.interest.type = "data"
    BY DEF DataRequest, DataInterest
  <2>4. \A g \in pit \ {e} :
          position'[g.sub][g.interest.id] = position[g.sub][g.interest.id]
    <3> TAKE g \in pit \ {e}
    <3>1. ~(g.sub = e.sub /\ g.interest.id = e.interest.id)
      BY DEF Chains, OneEach
    <3>2. /\ position \in [Subs -> [Ids -> Nat]]
          /\ g.sub \in Subs /\ g.interest.id \in Ids
          /\ e.sub \in Subs /\ e.interest.id \in Ids
      BY DEF SubTypeOK, Interest
    <3> QED
      BY <1>4, <3>1, <3>2 DEF OnData
  <2> DEFINE old == pit \ {e}
             new == {f}
  <2>5. /\ old \in SUBSET pit
        /\ \A g \in new : g.interest.type = "sync" =>
             g.interest.nonce \in FreshNonce(g.interest.id)
    BY <2>3
  <2>6. pit' = old \cup new
    BY <2>2
  <2> HIDE DEF f, old, new
  <2>7. \A g \in old :
          position'[g.sub][g.interest.id] = position[g.sub][g.interest.id]
    BY <2>4 DEF old
  <2> QED
    BY <1>1, <2>5, <2>6, <2>7, FreshStarted
<1>5. ASSUME NEW e \in pit, OnError(e.sub, e.interest)
      PROVE  ReplyFresh'
  <2>1. PICK n \in FreshNonce(e.interest.id) :
          Request({SyncRequest(e.sub, e.interest.id, n)},
                  {[sub |-> e.sub, interest |-> e.interest]})
    BY <1>5 DEF OnError
  <2> DEFINE f == SyncRequest(e.sub, e.interest.id, n)
             old == pit \ {[sub |-> e.sub, interest |-> e.interest]}
             new == {f}
  <2>2. f.interest.nonce \in FreshNonce(f.interest.id)
    BY DEF SyncRequest, SyncInterest
  <2>3. pit' = old \cup new /\ position' = position
    BY <1>5, <2>1 DEF OnError, Request
  <2>4. /\ old \in SUBSET pit
        /\ \A g \in new : g.interest.nonce \in FreshNonce(g.interest.id)
    BY <2>2
  <2> HIDE DEF f, old, new
  <2> QED
    BY <1>1, <2>2, <2>3, <2>4, FreshStarted
<1>6. CASE pit' \subseteq pit /\ position' = position
  BY <1>1, <1>6 DEF ReplyFresh
<1> QED
  BY <1>2, <1>3, <1>4, <1>5, <1>6
     DEF SubscriberStep, OnSyncNack, Take, ForgetSync, subVars
-----------------------------------------------------------------------------
(* The steps of TopicStream. *)

StreamMoves == [Stream!StreamNext]_Stream!streamVars

LEMMA StreamSame ==
  ASSUME Len(log'[ThePub]) = Len(log[ThePub]),
         position'[TheSub][0] = position[TheSub][0],
         inbox'[TheSub] = inbox[TheSub],
         Mode' = Mode
  PROVE  StreamMoves
  BY DEF StreamMoves, Stream!streamVars

\* A change of mode while nothing is published or received.
LEMMA StreamChanges ==
  ASSUME UNCHANGED <<log, position, inbox>>,
         \/ Mode = "unknown" /\ Mode' = "find"
         \/ Mode = "follow" /\ Mode' = "find"
         \/ Mode = "find" /\ Mode' = "refused"
  PROVE  StreamMoves
  BY DEF StreamMoves, Stream!StreamNext, Stream!Discover, Stream!Lose,
         Stream!Refuse, Stream!Change

LEMMA ModeSame ==
  ASSUME Pending(TheSub, 0)' = Pending(TheSub, 0),
         <<TheSub, 0>> \in refused' <=> <<TheSub, 0>> \in refused
  PROVE  Mode' = Mode
  BY DEF Mode

LEMMA PublisherStreams ==
  ASSUME BothInv, OneStream, NEW p \in Pubs, PublisherStep(p)
  PROVE  StreamMoves
<1>1. PublisherNext /\ UNCHANGED subVars
  BY PublisherStepAlone DEF PublisherStep, BothInv
<1>2. UNCHANGED <<position, inbox, Mode>>
  BY <1>1, ModeSame DEF subVars, Pending
<1>3. CASE Push(p)
  <2> DEFINE e == DataPacket(id[p], Len(log[p]), [pub |-> p, n |-> Len(log[p])])
  <2>1. e \in Packet /\ log' = [log EXCEPT ![p] = Append(log[p], e)]
    BY <1>3, PushAppends DEF BothInv, PubFullInv, PubInv, StreamInv
  <2>2. p = ThePub
    BY TheTwo
  <2>3. Len(log[p]) < MaxPublish
    BY <1>3 DEF Push
  <2> HIDE DEF e
  <2>4. Len(log'[ThePub]) = Len(log[ThePub]) + 1
    BY <2>1, <2>2 DEF BothInv, PubFullInv, PubInv, PublisherTypeOK
  <2>5. Stream!Publish
    BY <1>2, <2>2, <2>3, <2>4 DEF Stream!Publish
  <2> QED
    BY <2>5 DEF StreamMoves, Stream!StreamNext
<1>4. CASE log' = log
  BY <1>2, <1>4, StreamSame
<1> QED
  BY <1>3, <1>4
     DEF PublisherStep, Create, OnUsedId, OnFreeId, SendHeartbeat, ReceiveInterest,
         publisherVars

LEMMA ReceiveStreams ==
  ASSUME BothInv, BothInv', ReplyFresh, OneStream, UNCHANGED ownVars,
         NEW e \in pit, NEW d \in net, OnData(e.sub, e.interest, d)
  PROVE  StreamMoves
<1> USE DEF BothInv, SubInv
<1> DEFINE f == DataRequest(e.sub, e.interest.id, d.seq + 1)
<1>1. /\ [sub |-> e.sub, interest |-> e.interest] = e
      /\ e.sub \in Subs /\ e.interest.id = 0
      /\ e.interest.type \in {"sync", "data"}
      /\ e.interest.type = "sync" => e.interest.nonce \in Nonces
      /\ d \in Packet /\ d.seq \in Nat /\ d.msg.pub \in Pubs
      /\ inbox \in [Subs -> Seq(Packet)] /\ position \in [Subs -> [Ids -> Nat]]
  BY DEF SubTypeOK, FaceTypeOK, Interest, Packet, Message, OneStream
<1>2. log' = log
  BY DEF ownVars, publisherVars
<1>3. /\ pit' = (pit \ {e}) \cup {f}
      /\ refused' = refused
      /\ inbox' = [inbox EXCEPT ![e.sub] = Append(inbox[e.sub], d)]
      /\ position' = [position EXCEPT ![e.sub][0] = d.seq + 1]
      /\ Len(inbox[e.sub]) < MaxInbox
      /\ Satisfies(d, e.interest)
  BY <1>1 DEF OnData, Request
<1>4. /\ f.sub = e.sub /\ f.interest.id = 0
      /\ f.interest.type = "data"
  BY <1>1 DEF DataRequest, DataInterest
<1> HIDE DEF f
<1>5. CASE e.sub # TheSub
  <2>1. Pending(TheSub, 0)' = Pending(TheSub, 0)
    BY <1>3, <1>4, <1>5 DEF Pending
  <2>2. Mode' = Mode
    BY <1>3, <2>1, ModeSame
  <2>3. /\ position'[TheSub][0] = position[TheSub][0]
        /\ inbox'[TheSub] = inbox[TheSub]
    BY <1>1, <1>3, <1>5, TheTwo
  <2> QED
    BY <1>2, <2>2, <2>3, StreamSame
<1>6. CASE e.sub = TheSub
  <2>1. Mode' = "follow"
    BY <1>3, <1>4, <1>6, ModeThen
  <2>2. /\ position'[TheSub][0] = d.seq + 1
        /\ inbox'[TheSub] = Append(inbox[TheSub], d)
    BY <1>1, <1>3, <1>6, TheTwo
  <2>3. /\ Numbers(inbox'[TheSub]) = Append(Numbers(inbox[TheSub]), d.seq)
        /\ Len(Numbers(inbox[TheSub])) < MaxInbox
    BY <1>1, <1>3, <1>6, <2>2, NumbersAppend, NumbersType
  <2>4. Stream!Receive(d.seq)
    BY <1>2, <2>1, <2>2, <2>3 DEF Stream!Receive, Numbers
  <2>5. d.msg.pub = ThePub /\ d.seq < Len(log[ThePub]) /\ Len(log[ThePub]) \in Nat
    BY <1>1, TheTwo, PacketKnown DEF PubFullInv, PubInv, PublisherTypeOK
  <2>6. CASE e.interest.type = "sync"
    <3>1. Mode = "find"
      BY <1>6, <2>6, ModeNow
    <3>2. d.type = "sync" /\ d.id = e.interest.id /\ d.nonce = e.interest.nonce
      BY <1>1, <1>3, <2>6, FaceAssumption DEF Satisfies
    <3>3. d.seq + 1 >= position[TheSub][0]
      BY <1>1, <1>6, <2>6, <3>2 DEF ReplyFresh
    <3>4. d.seq \in 0..Len(log[ThePub]) - 1
      BY <1>1, <2>5
    <3>5. Stream!Find
      BY <2>4, <3>1, <3>3, <3>4 DEF Stream!Find
    <3> QED
      BY <3>5 DEF StreamMoves, Stream!StreamNext
  <2>7. CASE e.interest.type = "data"
    <3>1. Mode = "follow"
      BY <1>6, <2>7, ModeNow
    <3>2. d.seq = e.interest.seq
      BY <1>3, <2>7 DEF Satisfies
    <3>3. e.interest.seq = position[e.sub][e.interest.id]
      BY <2>7 DEF Chains, NextAsked
    <3>4. position[TheSub][0] = d.seq
      BY <1>1, <1>6, <3>2, <3>3
    <3>5. position[TheSub][0] < Len(log[ThePub])
      BY <2>5, <3>4
    <3>6. Stream!Follow
      BY <1>2, <2>1, <2>2, <2>3, <3>1, <3>4, <3>5
         DEF Stream!Follow, Stream!Receive, Numbers
    <3> QED
      BY <3>6 DEF StreamMoves, Stream!StreamNext
  <2> QED
    BY <1>1, <2>6, <2>7
<1> QED
  BY <1>5, <1>6

\* A step of the process that leaves this subscription's chain and queue alone.
LEMMA ElsewhereStreams ==
  ASSUME UNCHANGED ownVars, Pending(TheSub, 0)' = Pending(TheSub, 0),
         <<TheSub, 0>> \in refused' <=> <<TheSub, 0>> \in refused,
         position'[TheSub][0] = position[TheSub][0],
         inbox'[TheSub] = inbox[TheSub]
  PROVE  StreamMoves
<1>1. log' = log
  BY DEF ownVars, publisherVars
<1> QED
  BY <1>1, ModeSame, StreamSame

\* A sync request starts the chain.
LEMMA DiscoverStreams ==
  ASSUME SubInv, SubInv', OneStream, UNCHANGED <<ownVars, position, inbox>>,
         ~(TheSub \in created /\ 0 \in discovered),
         NEW e \in pit', e.sub = TheSub, e.interest.type = "sync"
  PROVE  StreamMoves
<1>1. Mode = "unknown"
  BY ModeNow DEF SubInv, Chains, OnlyKnown, Pending
<1>2. Mode' = "find"
  BY ModeThen
<1>3. log' = log
  BY DEF ownVars, publisherVars
<1> QED
  BY <1>1, <1>2, <1>3, StreamChanges

LEMMA SubscriberStreams ==
  ASSUME BothInv, BothInv', ReplyFresh, OneStream, SubscriberStep, UNCHANGED ownVars
  PROVE  StreamMoves
<1> USE DEF BothInv, SubInv
<1>1. ASSUME NEW s \in Subs, CreateSubscription(s)
      PROVE  StreamMoves
  <2>1. PICK nonce \in [discovered -> Nonces] :
          /\ \A i \in discovered : nonce[i] \in FreshNonce(i)
          /\ pit' = pit \cup {SyncRequest(s, i, nonce[i]) : i \in discovered}
    BY <1>1 DEF CreateSubscription, Request
  <2>2. s \notin created /\ UNCHANGED <<discovered, inbox, position, refused>>
    BY <1>1 DEF CreateSubscription
  <2>3. CASE s = TheSub /\ 0 \in discovered
    <3>1. /\ SyncRequest(s, 0, nonce[0]) \in pit'
          /\ SyncRequest(s, 0, nonce[0]).sub = TheSub
          /\ SyncRequest(s, 0, nonce[0]).interest.type = "sync"
      BY <2>1, <2>3 DEF SyncRequest, SyncInterest
    <3> QED
      BY <2>2, <2>3, <3>1, DiscoverStreams
  <2>4. CASE ~(s = TheSub /\ 0 \in discovered)
    <3>1. Pending(TheSub, 0)' = Pending(TheSub, 0)
      BY <2>1, <2>4 DEF Pending, SyncRequest, SyncInterest
    <3> QED
      BY <2>2, <3>1, ElsewhereStreams
  <2> QED
    BY <2>3, <2>4
<1>2. ASSUME NEW i \in announced, OnHeartbeat(i)
      PROVE  StreamMoves
  <2>1. PICK nonce \in [created -> FreshNonce(i)] :
          pit' = pit \cup {SyncRequest(s, i, nonce[s]) : s \in created}
    BY <1>2 DEF OnHeartbeat, Request
  <2>2. i \notin discovered /\ UNCHANGED <<created, inbox, position, refused>>
    BY <1>2 DEF OnHeartbeat
  <2>3. i = 0
    BY DEF SubTypeOK, FaceTypeOK, OneStream
  <2>4. CASE TheSub \in created
    <3>1. /\ SyncRequest(TheSub, i, nonce[TheSub]) \in pit'
          /\ SyncRequest(TheSub, i, nonce[TheSub]).sub = TheSub
          /\ SyncRequest(TheSub, i, nonce[TheSub]).interest.type = "sync"
      BY <2>1, <2>4 DEF SyncRequest, SyncInterest
    <3> QED
      BY <2>2, <2>3, <3>1, DiscoverStreams
  <2>5. CASE TheSub \notin created
    <3>1. Pending(TheSub, 0)' = Pending(TheSub, 0)
      BY <2>1, <2>5 DEF Pending, SyncRequest, SyncInterest
    <3> QED
      BY <2>2, <3>1, ElsewhereStreams
  <2> QED
    BY <2>4, <2>5
<1>3. ASSUME NEW e \in pit, NEW d \in net, OnData(e.sub, e.interest, d)
      PROVE  StreamMoves
  BY <1>3, ReceiveStreams
<1>4. ASSUME NEW e \in pit, OnError(e.sub, e.interest)
      PROVE  StreamMoves
  <2>1. PICK n \in FreshNonce(e.interest.id) :
          Request({SyncRequest(e.sub, e.interest.id, n)},
                  {[sub |-> e.sub, interest |-> e.interest]})
    BY <1>4 DEF OnError
  <2> DEFINE f == SyncRequest(e.sub, e.interest.id, n)
  <2>2. /\ f.sub = e.sub /\ f.interest.type = "sync"
        /\ pit' = (pit \ {[sub |-> e.sub, interest |-> e.interest]}) \cup {f}
    BY <2>1 DEF Request, SyncRequest, SyncInterest
  <2>3. UNCHANGED <<inbox, position, refused>> /\ log' = log
    BY <1>4 DEF OnError, ownVars, publisherVars
  <2> HIDE DEF f
  <2>4. CASE e.sub = TheSub
    <3>1. Mode' = "find"
      BY <2>2, <2>4, ModeThen
    <3>2. Mode \in {"find", "follow"}
      BY <2>4, ModeNow DEF SubTypeOK, Interest
    <3> QED
      BY <2>3, <3>1, <3>2, StreamSame, StreamChanges
  <2>5. CASE e.sub # TheSub
    <3>1. Pending(TheSub, 0)' = Pending(TheSub, 0)
      BY <2>2, <2>5 DEF Pending
    <3> QED
      BY <2>3, <3>1, ElsewhereStreams
  <2> QED
    BY <2>4, <2>5
<1>5. ASSUME NEW e \in pit, OnSyncNack(e.sub, e.interest)
      PROVE  StreamMoves
  <2>1. /\ pit' = pit \ {[sub |-> e.sub, interest |-> e.interest]}
        /\ refused' = refused \cup {<<e.sub, e.interest.id>>}
        /\ e.interest.type = "sync"
        /\ UNCHANGED <<inbox, position>>
    BY <1>5 DEF OnSyncNack
  <2>2. e.interest.id = 0 /\ log' = log
    BY DEF SubTypeOK, Interest, OneStream, ownVars, publisherVars
  <2>3. CASE e.sub = TheSub
    <3>1. Mode = "find"
      BY <2>1, <2>3, ModeNow
    <3>2. Mode' = "refused"
      BY <2>1, <2>2, <2>3, ModeThen
    <3> QED
      BY <2>1, <2>2, <3>1, <3>2, StreamChanges
  <2>4. CASE e.sub # TheSub
    <3>1. Pending(TheSub, 0)' = Pending(TheSub, 0)
      BY <2>1, <2>4 DEF Pending
    <3> QED
      BY <2>1, <2>4, <3>1, ElsewhereStreams
  <2> QED
    BY <2>3, <2>4
<1>6. ASSUME NEW s \in Subs, Take(s)
      PROVE  StreamMoves
  <2>1. /\ UNCHANGED <<pit, position, refused>>
        /\ inbox[s] # <<>>
        /\ inbox' = [inbox EXCEPT ![s] = Tail(inbox[s])]
    BY <1>6 DEF Take
  <2>2. Mode' = Mode
    BY <2>1, ModeSame DEF Pending
  <2>3. log' = log /\ inbox \in [Subs -> Seq(Packet)]
    BY DEF ownVars, publisherVars, SubTypeOK
  <2>4. CASE s = TheSub
    <3>1. inbox'[TheSub] = Tail(inbox[TheSub]) /\ inbox[TheSub] \in Seq(Packet)
      BY <2>1, <2>3, <2>4
    <3>2. /\ Numbers(inbox'[TheSub]) = Tail(Numbers(inbox[TheSub]))
          /\ Numbers(inbox[TheSub]) # <<>>
      BY <2>1, <2>4, <3>1, NumbersTail, NumbersType
    <3>3. Stream!Take
      BY <2>1, <2>2, <2>3, <3>2 DEF Stream!Take, Numbers
    <3> QED
      BY <3>3 DEF StreamMoves, Stream!StreamNext
  <2>5. CASE s # TheSub
    <3>1. inbox'[TheSub] = inbox[TheSub]
      BY <2>1, <2>3, <2>5, TheTwo
    <3> QED
      BY <2>1, <2>2, <2>3, <3>1, StreamSame
  <2> QED
    BY <2>4, <2>5
<1>7. ASSUME NEW i \in Ids, NEW n \in Nonces, ForgetSync(i, n)
      PROVE  StreamMoves
  BY <1>7, ElsewhereStreams DEF ForgetSync, subVars, Pending
<1> QED
  BY <1>1, <1>2, <1>3, <1>4, <1>5, <1>6, <1>7 DEF SubscriberStep

LEMMA InitStreams ==
  ASSUME OneStream, Init
  PROVE  Stream!StreamInit
<1>1. /\ log[ThePub] = <<>> /\ position[TheSub][0] = 0 /\ inbox[TheSub] = <<>>
      /\ pit = {} /\ refused = {}
  BY TheTwo DEF Init, PublisherInit, SubscriberInit
<1>2. Mode = "unknown"
  BY <1>1 DEF Mode, Pending
<1>3. Numbers(inbox[TheSub]) = <<>>
  BY <1>1 DEF Numbers
<1>4. Len(log[ThePub]) = 0
  BY <1>1
<1> QED
  BY <1>1, <1>2, <1>3, <1>4 DEF Stream!StreamInit, Numbers

\* The invariant the steps are shown from: with the request that is pending it
\* tells what the subscription may receive next.
OneInv == BothInv /\ Traced /\ ReplyFresh

\* A subscription follows the one publisher of its topic as TopicStream promises,
\* whatever the network loses, delays or repeats and whenever requests time out:
\* the messages arrive in the order of their publication, the number it asks for
\* comes back from a lost stream with at most one message repeated, and a Nack of
\* a sync request is final.  (Within one run of std::rand(): Next has no Reseed.)
THEOREM StreamImplemented == ASSUME OneStream PROVE Spec => ImplementsStream
<1>1. Init => OneInv /\ Stream!StreamInit
  BY BothInit, InitStreams
     DEF OneInv, ReplyFresh, Traced, Init, SubscriberInit, FaceInit
<1>2. OneInv /\ [Next]_vars => OneInv' /\ StreamMoves
  <2> SUFFICES ASSUME BothInv, Traced, ReplyFresh, [Next]_vars
               PROVE  BothInv' /\ Traced' /\ ReplyFresh' /\ StreamMoves
    BY DEF OneInv
  <2>1. BothInv'
    BY BothStep
  <2>2. ASSUME NEW p \in Pubs, PublisherStep(p)
        PROVE  Traced' /\ ReplyFresh' /\ StreamMoves
    BY <2>2, TracedAfterPublisher, FreshAfterPublisher, PublisherStreams
  <2>3. ASSUME SubscriberStep, UNCHANGED ownVars
        PROVE  Traced' /\ ReplyFresh' /\ StreamMoves
    BY <2>1, <2>3, TracedAfterSubscriber, FreshAfterSubscriber, SubscriberStreams
  <2>4. ASSUME UNCHANGED vars
        PROVE  Traced' /\ ReplyFresh' /\ StreamMoves
    BY <2>4, ElsewhereStreams
       DEF vars, subVars, faceVars, Traced, ReplyFresh, Pending
  <2> QED
    BY <2>1, <2>2, <2>3, <2>4 DEF Next
<1> QED
  BY <1>1, <1>2, PTL DEF Spec, ImplementsStream, Stream!StreamSpec, StreamMoves
=============================================================================
