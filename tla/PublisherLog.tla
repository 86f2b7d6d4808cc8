---------------------------- MODULE PublisherLog ----------------------------
(***************************************************************************)
(* What a publisher promises to the network, without its queue, its three  *)
(* copies of the sequence number and its index arithmetic: an append-only  *)
(* log whose entry k is the packet of sequence number k - 1.               *)
(*                                                                         *)
(*   - a data request for one of the last Window packets gets exactly that *)
(*     packet;                                                             *)
(*   - a data request for a packet not produced yet is answered when the   *)
(*     packet is produced, provided something was produced before;         *)
(*   - a sync request gets the last message and its sequence number.       *)
(***************************************************************************)
EXTENDS NdnFace

CONSTANT Window

VARIABLES
  log,        \* the packets produced by each publisher, in order
  waiting     \* the sequence numbers asked for before they exist

logVars == <<log, waiting, net>>

Produced(p) == Len(log[p])

Kept(p) == {k \in 0..Produced(p)-1 : k >= Produced(p) - Window}

LogInit ==
  /\ log = [p \in Pubs |-> <<>>]
  /\ waiting = [p \in Pubs |-> {}]
  /\ net = {}

Publish(p, d) ==
  /\ d.seq = Produced(p)
  /\ d.msg = [pub |-> p, n |-> Produced(p)]
  /\ log' = [log EXCEPT ![p] = Append(@, d)]
  /\ waiting' = [waiting EXCEPT ![p] = @ \ {Produced(p)}]
  /\ net' = IF Produced(p) \in waiting[p] THEN net \cup {d} ELSE net

AnswerData(p, k) ==
  /\ net' = net \cup {log[p][k+1]}
  /\ UNCHANGED <<log, waiting>>

AwaitData(p, k) ==
  /\ Produced(p) > 0
  /\ k >= Produced(p)
  /\ waiting' = [waiting EXCEPT ![p] = @ \cup {k}]
  /\ UNCHANGED <<log, net>>

AnswerSync(p, i, n) ==
  /\ Produced(p) > 0
  /\ net' = net \cup
       {SyncPacket(i, n, Produced(p) - 1, log[p][Produced(p)].msg)}
  /\ UNCHANGED <<log, waiting>>

LogNext ==
  \E p \in Pubs :
    \/ \E i \in Ids : Publish(p, DataPacket(i, Produced(p),
                                   [pub |-> p, n |-> Produced(p)]))
    \/ \E k \in Kept(p) : AnswerData(p, k)
    \/ \E k \in waiting'[p] : AwaitData(p, k)
    \/ \E i \in Ids, n \in Nonces \cup {NoNonce} : AnswerSync(p, i, n)

LogSpec == LogInit /\ [][LogNext]_logVars
=============================================================================
