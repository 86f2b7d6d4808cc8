---------------------------- MODULE MCPublisher ----------------------------
(***************************************************************************)
(* Publisher for TLC.  One publisher is enough for its queue and its log;  *)
(* the window is 2 and four packets are published, so that the window      *)
(* fills, slides, and leaves requests behind.                              *)
(***************************************************************************)
EXTENDS Publisher
=============================================================================
