----------------------------- MODULE TopicStream -----------------------------
(***************************************************************************)
(* What a subscription promises about the stream of one publisher, without *)
(* names, requests, windows or a network.                                  *)
(*                                                                         *)
(*   - While it follows the stream, it receives the messages one by one in *)
(*     the order they were published.                                      *)
(*   - It may lose the stream.  It then finds it again at some message     *)
(*     that was published, never before the last one it received: that one *)
(*     may come a second time, and any number may be skipped.              *)
(*   - A refusal while it looks for the stream is final.                   *)
(***************************************************************************)
EXTENDS Naturals, Sequences

CONSTANTS MaxPublish, MaxInbox

VARIABLES
  published,    \* the messages published, numbered from 0
  next,         \* the message after the last one received
  mode,         \* "unknown", "find", "follow" or "refused"
  inbox         \* the numbers of the messages received and not taken

streamVars == <<published, next, mode, inbox>>

StreamInit ==
  /\ published = 0
  /\ next = 0
  /\ mode = "unknown"
  /\ inbox = <<>>

Publish ==
  /\ published < MaxPublish
  /\ published' = published + 1
  /\ UNCHANGED <<next, mode, inbox>>

Change(from, to) ==
  /\ mode = from
  /\ mode' = to
  /\ UNCHANGED <<published, next, inbox>>

Discover == Change("unknown", "find")

Lose == Change("follow", "find")

Refuse == Change("find", "refused")

Receive(k) ==
  /\ Len(inbox) < MaxInbox
  /\ inbox' = Append(inbox, k)
  /\ next' = k + 1
  /\ mode' = "follow"
  /\ UNCHANGED published

Find == mode = "find" /\ \E k \in 0..published - 1 : k + 1 >= next /\ Receive(k)

Follow == mode = "follow" /\ next < published /\ Receive(next)

Take ==
  /\ inbox # <<>>
  /\ inbox' = Tail(inbox)
  /\ UNCHANGED <<published, next, mode>>

StreamNext ==
  Publish \/ Discover \/ Lose \/ Refuse \/ Find \/ Follow \/ Take

StreamSpec == StreamInit /\ [][StreamNext]_streamVars
=============================================================================
