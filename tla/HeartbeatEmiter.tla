-------------------------- MODULE HeartbeatEmiter --------------------------
(***************************************************************************)
(* class DiscoveryHeartbeatEmiter (discovery.hpp), as a Publisher owns it: *)
(* a name announced when the object is built and every second after that.  *)
(***************************************************************************)
EXTENDS NdnFace

VARIABLE heartbeatId    \* the identifier in _name; NoId before construction

HeartbeatInit == heartbeatId = [p \in Pubs |-> NoId]

HeartbeatTypeOK == heartbeatId \in [Pubs -> Ids \cup {NoId}]

\* The constructor: it sets the name and sends the first heartbeat.
StartHeartbeat(p, i) ==
  /\ heartbeatId' = [heartbeatId EXCEPT ![p] = i]
  /\ announced' = announced \cup {i}

\* setName: only the next heartbeat carries the new name.
SetHeartbeatName(p, i) ==
  /\ heartbeatId' = [heartbeatId EXCEPT ![p] = i]
  /\ UNCHANGED announced

\* heartbeat, run by the scheduler.
Heartbeat(p) ==
  /\ heartbeatId[p] # NoId
  /\ announced' = announced \cup {heartbeatId[p]}
  /\ UNCHANGED <<heartbeatId, wire, net, filter>>
=============================================================================
