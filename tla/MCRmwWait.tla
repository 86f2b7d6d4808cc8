----------------------------- MODULE MCRmwWait -----------------------------
(***************************************************************************)
(* RmwWait for TLC.  The executor always waits for all subscriptions, in   *)
(* one of two orders.  Two ticks make a millisecond, so that a timeout can *)
(* lie below one.                                                          *)
(***************************************************************************)
EXTENDS RmwWait

CONSTANTS s1, s2, s3

BothOrders == {<<s1, s2, s3>>, <<s3, s2, s1>>}
=============================================================================
