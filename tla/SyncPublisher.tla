--------------------------- MODULE SyncPublisher ---------------------------
(***************************************************************************)
(* class SyncPublisher (sync.hpp): the last message of a publisher, given  *)
(* to whoever asks where the stream is.                                    *)
(***************************************************************************)
EXTENDS NdnFace

VARIABLES
  sSeqNum,    \* _seq_num
  content     \* _content

syncVars == <<sSeqNum, content>>

SyncInit ==
  /\ sSeqNum = [p \in Pubs |-> 0]
  /\ content = [p \in Pubs |-> NoContent]

SyncTypeOK ==
  /\ sSeqNum \in [Pubs -> Nat]
  /\ content \in [Pubs -> Message \cup {NoContent}]

\* Mutant of SyncPush: the number is the one of the next message.
SyncPushAhead(p, k, m) ==
  /\ sSeqNum' = [sSeqNum EXCEPT ![p] = k + 1]
  /\ content' = [content EXCEPT ![p] = m]

\* Mutant of SyncPush: only the content is replaced.
SyncPushKeepsNumber(p, k, m) ==
  /\ content' = [content EXCEPT ![p] = m]
  /\ UNCHANGED sSeqNum

\* SyncPublisher::push
SyncPush(p, k, m) ==
  /\ sSeqNum' = [sSeqNum EXCEPT ![p] = k]
  /\ content' = [content EXCEPT ![p] = m]

\* Mutant of SyncOnInterest: no test for an empty content.
SyncOnInterestEmpty(p, x) ==
  /\ x.type = "sync"
  /\ x.id = filter[p]
  /\ Put(SyncPacket(x.id, x.nonce, sSeqNum[p], content[p]))
  /\ UNCHANGED syncVars

\* SyncPublisher::onInterest.  A publisher that pushed nothing stays silent.
SyncOnInterest(p, x) ==
  /\ x.type = "sync"
  /\ x.id = filter[p]
  /\ content[p] # NoContent
  /\ Put(SyncPacket(x.id, x.nonce, sSeqNum[p], content[p]))
  /\ UNCHANGED syncVars
=============================================================================
