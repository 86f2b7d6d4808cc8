---------------------------- MODULE MCSubscriber ----------------------------
(***************************************************************************)
(* Subscriber for TLC: two subscriptions, created before or after the      *)
(* publishers are discovered, and a network that loses, delays, duplicates *)
(* and refuses.                                                            *)
(***************************************************************************)
EXTENDS Subscriber, TLC

Symmetry == Permutations(Subs)
=============================================================================
