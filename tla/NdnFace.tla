------------------------------ MODULE NdnFace ------------------------------
(***************************************************************************)
(* The NDN side of rmw_ndn, as the code in src/ uses it: the ndn::Face of  *)
(* app.cpp, the forwarder (NFD) behind it, and the names of the packets.   *)
(* ndn-cxx and NFD are external; what is modelled is what the handlers of  *)
(* rmw_ndn can observe.                                                    *)
(*                                                                         *)
(* All publishers and subscribers of the model are on one topic: every     *)
(* name of the program starts with the topic name and no handler relates   *)
(* two topics.                                                             *)
(*                                                                         *)
(*   wire       the interests handed to the face.  They stay there, so an  *)
(*              interest may reach a producer late, twice or never: a      *)
(*              producer reads its socket only inside rmw_wait, so an      *)
(*              interest can wait there past its lifetime.                 *)
(*   net        the data packets the network still holds, in flight or in  *)
(*              a content store; one may be delivered late, more than      *)
(*              once, or never.                                            *)
(*   announced  the publisher identifiers carried by discovery interests.  *)
(*   filter     the identifier whose prefixes <topic>/<id>/sync and        *)
(*              <topic>/<id>/data each publisher has an interest filter on.*)
(***************************************************************************)
EXTENDS Integers, Sequences

CONSTANTS
  Pubs,       \* the Publisher objects that may be created
  Ids,        \* the values std::rand() can give to a publisher identifier
  Nonces,     \* the values std::rand() can give to the last component of a
              \*   sync request
  NoContent   \* the empty ndn::Block of a SyncPublisher that pushed nothing

VARIABLES wire, net, announced, filter

faceVars == <<wire, net, announced, filter>>

NoId == -1      \* no interest filter has been set
NoNonce == 0    \* the name has no random component

(***************************************************************************)
(* A message is identified by its publisher and by its rank among the      *)
(* messages given to rmw_publish, so that two payloads are never mistaken  *)
(* for one another.                                                        *)
(***************************************************************************)
Message == [pub : Pubs, n : Nat]

ASSUME FaceAssumption ==
  /\ Ids \subseteq Nat
  /\ 0 \in Ids
  /\ Nonces \subseteq Nat \ {NoNonce}
  /\ NoContent \notin Message

(***************************************************************************)
(* The names: <topic>/<id>/sync[/<nonce>] and <topic>/<id>/data/<seq> for  *)
(* interests, <topic>/<id>/sync[/<nonce>]/<seq> and                        *)
(* <topic>/<id>/data/<seq> for data packets.                               *)
(***************************************************************************)
Interest == [type : {"sync", "data"}, id : Ids,
             nonce : Nonces \cup {NoNonce}, seq : Nat]

Packet == [type : {"sync", "data"}, id : Ids,
           nonce : Nonces \cup {NoNonce}, seq : Nat, msg : Message]

SyncInterest(i, n) == [type |-> "sync", id |-> i, nonce |-> n, seq |-> 0]

DataInterest(i, k) == [type |-> "data", id |-> i, nonce |-> NoNonce, seq |-> k]

SyncPacket(i, n, k, m) ==
  [type |-> "sync", id |-> i, nonce |-> n, seq |-> k, msg |-> m]

DataPacket(i, k, m) ==
  [type |-> "data", id |-> i, nonce |-> NoNonce, seq |-> k, msg |-> m]

(***************************************************************************)
(* A data packet satisfies an interest whose name is a prefix of its own.  *)
(* The sync interest of a probe has no random component, so it is a prefix *)
(* of every sync reply of its identifier.                                  *)
(***************************************************************************)
Satisfies(d, x) ==
  /\ d.type = x.type
  /\ d.id = x.id
  /\ x.type = "data" => d.seq = x.seq
  /\ x.type = "sync" => x.nonce \in {NoNonce, d.nonce}

ExpressInterests(X) == wire' = wire \cup X

Put(d) == net' = net \cup {d}

FaceInit ==
  /\ wire = {}
  /\ net = {}
  /\ announced = {}
  /\ filter = [p \in Pubs |-> NoId]

FaceTypeOK ==
  /\ wire \subseteq Interest
  /\ net \subseteq Packet
  /\ announced \subseteq Ids
  /\ filter \in [Pubs -> Ids \cup {NoId}]
=============================================================================
