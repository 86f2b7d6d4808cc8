---------------------------- MODULE MCCborDecode ----------------------------
(***************************************************************************)
(* CborDecode for TLC, four loads.                                         *)
(*  - pairs: integers on both sides of every change of the encoded length  *)
(*    and of the sign, strings on both sides of the two-byte length, and   *)
(*    one or two items of every other kind;                                *)
(*  - halves: the values of the smallest and of the largest halves of both *)
(*    signs, every denormal among them, and floats around every change of  *)
(*    the exponent range and around every rounding bit;                    *)
(*  - nested: short and long items and every kind of container, in a       *)
(*    buffer of zeros, or of initial bytes that announce eight more;       *)
(*  - reused: the same items, in a buffer that was used before.            *)
(***************************************************************************)
EXTENDS CborDecode

Item(kind, val) == [kind |-> kind, val |-> val]

Ints == {<<0,0,0,0>>, <<0,0,0,23>>, <<0,0,0,24>>, <<0,0,0,255>>, <<0,0,1,0>>,
         <<0,0,255,255>>, <<0,1,0,0>>, <<127,255,255,255>>,
         <<255,255,255,255>>, <<255,255,255,232>>, <<255,255,255,231>>,
         <<255,255,255,0>>, <<255,255,254,255>>, <<128,0,0,0>>}

Int64s == {<<0,0,0,0,255,255,255,255>>, <<0,0,0,1,0,0,0,0>>,
           <<255,255,255,255,0,0,0,0>>, <<255,255,255,254,255,255,255,255>>,
           <<128,0,0,0,0,0,0,0>>}

Uint64s == {<<0,0,0,0,0,0,0,23>>, <<0,0,0,1,0,0,0,0>>,
            <<255,255,255,255,255,255,255,255>>}

String(n) == [k \in 1..n |-> k % 256]

Two == Zeros(7) \o <<2>>

Pairs ==
  {Item("int", v) : v \in Ints} \cup
  {Item("int64", v) : v \in Int64s} \cup
  {Item("uint64", v) : v \in Uint64s} \cup
  {Item("bool", b) : b \in BOOLEAN} \cup
  {Item("bytes", String(n)) : n \in {0, 1, 24}} \cup
  {Item("text", String(3)),
   Item("half", <<191, 128, 32, 0>>),
   Item("float", <<63, 128, 0, 1>>), Item("double", <<64, 9, 33, 1, 2, 3, 4, 24>>),
   Item("array", Two), Item("map", Two),
   Item("anyArray", <<>>), Item("anyMap", <<>>), Item("break", <<>>)}

Exponents == {0, 1, 102} \cup (103..114) \cup {126, 127, 141, 142, 143, 254, 255}

Mantissas ==
  {8192 * k + d : k \in {0, 1, 2, 511, 512, 1022, 1023},
                  d \in {0, 1, 4095, 4096, 4097, 8191}} \cup
  UNION {{2^j - 1, 2^j, 2^j + 1} : j \in 12..22}

Floats ==
  {DecodeHalf(32768 * sign + half) :
     sign \in {0, 1}, half \in (0..2100) \cup (31700..31800)} \cup
  {FloatBytes(sign, e, m) : sign \in {0, 1}, e \in Exponents, m \in Mantissas}

Number(n) == Zeros(7) \o <<n>>

Nested ==
  {Item("int64", Complement(Number(5))), Item("half", <<63, 128, 32, 0>>),
   Item("array", Number(0)), Item("array", Number(1)), Item("array", Number(2)),
   Item("map", Number(1)),
   Item("anyArray", <<>>), Item("anyMap", <<>>), Item("break", <<>>)}

Load(name) ==
  CASE name = "pairs" ->
         [items |-> Pairs, maxItems |-> 2, maxCleared |-> 0, sizes |-> 0..14,
          fills |-> {0}, reader |-> "receiver"]
    [] name = "halves" ->
         [items |-> {Item("half", v) : v \in Floats}, maxItems |-> 1,
          maxCleared |-> 0, sizes |-> {4}, fills |-> {0}, reader |-> "receiver"]
    [] name = "nested" ->
         [items |-> Nested, maxItems |-> 5, maxCleared |-> 0, sizes |-> {3, 8},
          fills |-> {0, 27}, reader |-> "printer"]
    [] name = "reused" ->
         [items |-> Nested, maxItems |-> 4, maxCleared |-> 1, sizes |-> {6},
          fills |-> {27}, reader |-> "printer"]

MCLoads == [name \in {"pairs", "halves", "nested", "reused"} |-> Load(name)]

PairLoads == [name \in {"pairs"} |-> Load(name)]

NestedLoads == [name \in {"nested"} |-> Load(name)]
=============================================================================
