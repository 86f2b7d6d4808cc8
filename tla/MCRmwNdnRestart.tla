-------------------------- MODULE MCRmwNdnRestart --------------------------
(***************************************************************************)
(* RmwNdnRestart for TLC: two publishers and one identifier, so that the   *)
(* second one always has the identifier of the first.                      *)
(***************************************************************************)
EXTENDS RmwNdnRestart, TLC

CONSTANTS p1, p2

Case(second, alive, m1, m2, probed, again) ==
  [ids |-> p1 :> {0} @@ p2 :> second,
   alive |-> alive,
   messages |-> p1 :> m1 @@ p2 :> m2,
   probed |-> probed,
   restarts |-> again]

TestCases ==
  { Case({}, 1, 2, 0, 0, 1),      \* one publisher, the same components again
    Case({0}, 2, 1, 1, 1, 0),     \* two at a time: they may take the same identifier
    Case({0}, 2, 1, 1, 0, 1),     \*   and the same components may come again
    Case({0}, 1, 2, 1, 0, 0),     \* one after the other, with old packets ahead
    Case({0}, 1, 1, 2, 0, 0) }    \*   and with old packets behind
=============================================================================
