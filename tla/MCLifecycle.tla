---------------------------- MODULE MCLifecycle ----------------------------
(***************************************************************************)
(* Lifecycle for TLC: every action of one object of each kind, and two     *)
(* subscriptions, of which one may be destroyed while the other lives.     *)
(***************************************************************************)
EXTENDS Lifecycle, TLC

Interchangeable == Permutations(Subs)
=============================================================================
