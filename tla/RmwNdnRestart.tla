--------------------------- MODULE RmwNdnRestart ---------------------------
(***************************************************************************)
(* RmwNdn with processes that crash.  Nothing is persisted: what a process *)
(* had is gone, its interest filters and pending interests included, while *)
(* the network keeps its packets and the other processes what they know.   *)
(*                                                                         *)
(* A publisher that is started again is another publisher of Pubs, which   *)
(* may draw the identifier of the one that crashed.  A process with        *)
(* subscriptions starts again as it started first, the sequence of         *)
(* std::rand() included: nothing seeds it in a process without publishers, *)
(* so the new process names its sync requests as the dead one did.         *)
(***************************************************************************)
EXTENDS RmwNdn

CONSTANT Cases  \* bound: what a run may do, see RestartAssumption

ASSUME RestartAssumption ==
  Cases \subseteq
    [ids : [Pubs -> SUBSET Ids],  \* the identifiers each publisher may draw
     alive : Nat,                 \* the publishers that run at the same time
     messages : [Pubs -> 0..MaxPublish],  \* the messages each of them publishes
     probed : Nat,                \* the replies to probes in the network
     restarts : Nat]              \* the times std::rand() starts again

VARIABLES
  bounds,       \* the case of Cases this run is
  crashed,      \* the publishers whose process crashed
  restarts      \* the times std::rand() started again

restartVars == <<vars, bounds, crashed, restarts>>

RestartInit == Init /\ bounds \in Cases /\ crashed = {} /\ restarts = 0

CrashPublisher(p) ==
  /\ p \notin crashed
  /\ phase[p] # "absent"
  /\ crashed' = crashed \cup {p}
  /\ tSeqNum' = [tSeqNum EXCEPT ![p] = 0]
  /\ reqSeqNum' = [reqSeqNum EXCEPT ![p] = {}]
  /\ queue' = [queue EXCEPT ![p] = <<>>]
  /\ sSeqNum' = [sSeqNum EXCEPT ![p] = 0]
  /\ content' = [content EXCEPT ![p] = NoContent]
  /\ heartbeatId' = [heartbeatId EXCEPT ![p] = NoId]
  /\ phase' = [phase EXCEPT ![p] = "absent"]
  /\ id' = [id EXCEPT ![p] = NoId]
  /\ seqNum' = [seqNum EXCEPT ![p] = 0]
  /\ filter' = [filter EXCEPT ![p] = NoId]
  /\ UNCHANGED <<log, subVars, wire, net, announced, bounds, restarts>>

CrashSubscriber ==
  /\ restarts < bounds.restarts
  /\ created # {}
  /\ restarts' = restarts + 1
  /\ created' = {}
  /\ discovered' = {}
  /\ pit' = {}
  /\ inbox' = [s \in Subs |-> <<>>]
  /\ position' = [s \in Subs |-> [i \in Ids |-> 0]]
  /\ refused' = {}
  /\ drawn' = {}
  /\ UNCHANGED <<ownVars, faceVars, bounds, crashed>>

\* A publisher is created in the process with subscriptions.
SeedAgain ==
  /\ restarts < bounds.restarts
  /\ drawn # {}
  /\ restarts' = restarts + 1
  /\ Reseed
  /\ UNCHANGED <<ownVars, bounds, crashed>>

\* A step of the processes that run.
Running ==
  /\ Next
  /\ Cardinality({p \in Pubs : phase'[p] # "absent"}) <= bounds.alive
  /\ Cardinality({d \in net' : d.type = "sync" /\ d.nonce = NoNonce}) <= bounds.probed
  /\ \A p \in Pubs :
       phase'[p] # "absent" => /\ p \notin crashed
                               /\ id'[p] \in bounds.ids[p]
                               /\ Len(log'[p]) <= bounds.messages[p]
  /\ UNCHANGED <<bounds, crashed, restarts>>

RestartNext ==
  \/ Running
  \/ \E p \in Pubs : CrashPublisher(p)
  \/ CrashSubscriber
  \/ SeedAgain

RestartSpec == RestartInit /\ [][RestartNext]_restartVars /\ Fairness

-----------------------------------------------------------------------------
\* p is the only publisher alive that serves i.
Serves(p, i) == filter[p] = i /\ \A q \in Pubs \ {p} : filter[q] # i

\* A subscription receives the last message of a publisher that stays, unless a
\* Nack ended its chain: also when the publisher took over the identifier of one
\* that crashed, whose packets the network still holds, under the same numbers; and
\* when the process of the subscription was started after that message was sent.
RestartHeals ==
  \A p \in Pubs, s \in Subs, i \in Ids :
    (s \in created /\ Serves(p, i) /\ Len(log[p]) = bounds.messages[p])
      ~> \/ \E k \in DOMAIN inbox[s] : inbox[s][k].msg = [pub |-> p, n |-> bounds.messages[p] - 1]
         \/ <<s, i>> \in refused
         \/ ~Serves(p, i)
         \/ s \notin created
=============================================================================
