---------------------------- MODULE MCByteOrder ----------------------------
(***************************************************************************)
(* ByteOrder for TLC: both byte orders and every build of the 16-bit swap; *)
(* all pairs over five bytes, and values of four and eight distinct bytes, *)
(* with the bytes at which a shift loses or carries a bit.                 *)
(***************************************************************************)
EXTENDS ByteOrder

MCHosts == {"little", "big"} \X {"builtin", "shift", "union"}

MCOrder == [h \in MCHosts |-> h[1]]

MCBuild == [h \in MCHosts |-> h[2]]

MCValues ==
  [1..2 -> {0, 1, 127, 128, 255}] \cup
  {<<1, 2, 3, 4>>, <<0, 0, 0, 255>>, <<128, 0, 0, 0>>,
   <<1, 2, 3, 4, 5, 6, 7, 8>>, <<255, 0, 0, 0, 0, 0, 0, 128>>}
=============================================================================
