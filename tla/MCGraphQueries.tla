--------------------------- MODULE MCGraphQueries ---------------------------
(***************************************************************************)
(* GraphQueries for TLC: two nodes, two topics and two identifiers, so     *)
(* that a topic may be known from a subscriber, from several publishers,   *)
(* or from both.                                                           *)
(***************************************************************************)
EXTENDS GraphQueries
=============================================================================
