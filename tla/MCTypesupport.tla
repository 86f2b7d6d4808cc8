--------------------------- MODULE MCTypesupport ---------------------------
(***************************************************************************)
(* Typesupport for TLC: every message of at most three fields, in both     *)
(* languages on both sides, with a buffer that two long fields overflow.   *)
(***************************************************************************)
EXTENDS Typesupport

Field(type, val) == [type |-> type, val |-> val]

Fields ==
  {Field("string", s) : s \in {<<>>, <<97>>, [k \in 1..7 |-> 96 + k]}} \cup
  {Field("bool", b) : b \in BOOLEAN} \cup
  {Field(t, v) : t \in {"int32", "uint32"},
                 v \in {<<0,0,0,23>>, <<0,0,0,24>>, <<255,255,255,255>>,
                        <<255,255,255,0>>, <<128,0,0,0>>}} \cup
  {Field("int64", v) : v \in {<<0,0,0,0,0,0,1,0>>,
                              <<255,255,255,254,255,255,255,255>>}} \cup
  {Field("uint64", v) : v \in {<<0,0,0,0,0,0,0,7>>,
                               <<255,255,255,255,255,255,255,255>>}} \cup
  {Field("float64", <<64,9,33,251,84,68,45,24>>), Field("int8", <<1>>)}

MCMessages == UNION {[1..n -> Fields] : n \in 1..3}
=============================================================================
