------------------------------ MODULE MCRmwNdn ------------------------------
(***************************************************************************)
(* RmwNdn for TLC: one publisher and one subscription.                     *)
(***************************************************************************)
EXTENDS RmwNdn
=============================================================================
