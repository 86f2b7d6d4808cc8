-------------------------- MODULE ByteOrderProofs --------------------------
(***************************************************************************)
(* Theorems on ByteOrder, for all hosts, byte orders, builds and values.   *)
(*                                                                         *)
(* The invariant is SameEverywhere with MostSignificantFirst: a host reads *)
(* what was sent because the bytes are in one order, and writes them in    *)
(* that order because it read what was sent.  Everything rests on one      *)
(* lemma: the three builds of the 16-bit swap all reverse the bytes.       *)
(***************************************************************************)
EXTENDS ByteOrder, TLAPS

\* The values of n bytes.
Bytes(n) == [1..n -> Byte]

\* Reversing keeps the width, and reversing twice changes nothing.
LEMMA ReversedTwice ==
  ASSUME NEW n \in Nat, NEW v \in Bytes(n)
  PROVE  /\ Len(v) = n
         /\ Reversed(v) \in Bytes(n)
         /\ Reversed(Reversed(v)) = v
<1>1. v \in Seq(Byte) /\ Len(v) = n /\ DOMAIN v = 1..n
  BY DEF Bytes
<1>2. Reversed(v) = [k \in 1..n |-> v[n + 1 - k]]
  BY <1>1 DEF Reversed
<1>3. \A k \in 1..n : n + 1 - k \in 1..n
  OBVIOUS
<1>4. Reversed(v) \in Bytes(n)
  BY <1>2, <1>3 DEF Bytes
<1>5. Reversed(v) \in Seq(Byte) /\ Len(Reversed(v)) = n
  BY <1>4 DEF Bytes
<1>6. Reversed(Reversed(v)) = [k \in 1..n |-> Reversed(v)[n + 1 - k]]
  BY <1>4, <1>5 DEF Reversed, Bytes
<1>7. \A k \in 1..n : Reversed(v)[n + 1 - k] = v[k]
  BY <1>2, <1>3
<1>8. Reversed(Reversed(v)) = v
  BY <1>6, <1>7 DEF Bytes
<1> QED
  BY <1>1, <1>4, <1>8

\* Two bytes reversed are exchanged.
LEMMA ReversedPair ==
  ASSUME NEW v \in Bytes(2)
  PROVE  Reversed(v) = <<v[2], v[1]>>
<1>1. Len(v) = 2 /\ DOMAIN v = 1..2
  BY ReversedTwice DEF Bytes
<1>2. Reversed(v) = [k \in 1..2 |-> v[3 - k]]
  BY <1>1 DEF Reversed
<1> QED
  BY <1>2

\* The remainder of a multiple and a rest.
LEMMA Remainder ==
  ASSUME NEW x \in Int, NEW z \in Int, 0 <= z, z < 65536,
         NEW p \in Int, p = 65536 * x + z
  PROVE  p % 65536 = z
BY Z3

\* Two bytes of a number.
LEMMA PairOfBytes ==
  ASSUME NEW x \in 0..255, NEW y \in 0..255
  PROVE  /\ (256 * x + y) \div 256 = x
         /\ (256 * x + y) % 256 = y
<1>1. (256 * x + y) \div 256 = x
  OBVIOUS
<1>2. (256 * x + y) % 256 = y
  OBVIOUS
<1> QED
  BY ONLY <1>1, <1>2, SMT

\* The first byte, shifted out of the 16 bits, is dropped.
LEMMA ShiftedPair ==
  ASSUME NEW x \in 0..255, NEW y \in 0..255
  PROVE  (256 * (256 * x + y) + x) % 65536 = 256 * y + x
<1> DEFINE p == 256 * (256 * x + y) + x
           q == 256 * y + x
<1>1. p = 65536 * x + q /\ p \in Int
  BY SMT
<1>2. x \in Int /\ q \in Int
  BY SMT
<1>3. 0 <= q /\ q < 65536
  BY SMT
<1> HIDE DEF p, q
<1>4. p % 65536 = q
  BY ONLY <1>1, <1>2, <1>3, Remainder
<1> QED
  BY <1>4 DEF p, q

\* The shifts exchange two bytes.
LEMMA ShiftExchanges ==
  ASSUME NEW v \in Bytes(2)
  PROVE  SwapShift(v) = <<v[2], v[1]>>
<1>1. PICK x \in 0..255 : v[1] = x
  BY DEF Bytes, Byte
<1>2. PICK y \in 0..255 : v[2] = y
  BY DEF Bytes, Byte
<1> DEFINE a == 256 * x + y
           b == (256 * a + a \div 256) % 65536
<1>3. SwapShift(v) = <<b \div 256, b % 256>>
  BY <1>1, <1>2 DEF SwapShift
<1>4. a = 256 * x + y /\ b = (256 * a + a \div 256) % 65536
  OBVIOUS
<1> HIDE DEF a, b
<1>5. a \div 256 = x
  BY ONLY <1>4, PairOfBytes, x \in 0..255, y \in 0..255
<1>6. b = (256 * (256 * x + y) + x) % 65536
  BY ONLY <1>4, <1>5
<1>7. b = 256 * y + x
  BY ONLY <1>6, ShiftedPair, x \in 0..255, y \in 0..255
<1>8. b \div 256 = y /\ b % 256 = x
  BY ONLY <1>7, PairOfBytes, x \in 0..255, y \in 0..255
<1> QED
  BY ONLY <1>1, <1>2, <1>3, <1>8

\* Every build of byteorder_swaps reverses the two bytes, and so does every swap.
LEMMA SwapReverses ==
  ASSUME NEW h \in Hosts, NEW n \in Widths, NEW v \in Bytes(n)
  PROVE  ByteorderSwap(h, v) = Reversed(v)
<1>1. Len(v) = n
  BY ReversedTwice DEF Widths
<1>2. CASE n # 2
  BY <1>1, <1>2 DEF ByteorderSwap
<1>3. CASE n = 2
  <2>1. SwapShift(v) = Reversed(v)
    BY <1>3, ShiftExchanges, ReversedPair
  <2>2. SwapUnion(h, v) = Reversed(v)
    <3>1. Reversed(v) = <<v[2], v[1]>> /\ Reversed(v) \in Bytes(2)
      BY <1>3, ReversedPair, ReversedTwice
    <3>2. Reversed(Reversed(v)) = v
      BY <1>3, ReversedTwice
    <3>3. v = <<v[1], v[2]>> /\ v[1] \in Byte /\ v[2] \in Byte
      BY <1>3 DEF Bytes
    <3>4. CASE Order[h] = "little"
      <4>1. SwapUnion(h, v) = Reversed(<<v[1], v[2]>>)
        BY <3>1, <3>4 DEF SwapUnion, Memory, ValueIn
      <4> QED
        BY <4>1, <3>3
    <3>5. CASE Order[h] # "little"
      <4>1. SwapUnion(h, v) = <<v[2], v[1]>>
        BY <3>5 DEF SwapUnion, Memory, ValueIn
      <4> QED
        BY <4>1, <3>1
    <3> QED
      BY <3>4, <3>5
  <2>3. Build[h] \in {"builtin", "shift", "union"}
    BY ByteOrderAssumption
  <2> QED
    BY <1>1, <1>3, <2>1, <2>2, <2>3 DEF ByteorderSwap, Swaps
<1> QED
  BY <1>2, <1>3

\* A conversion to network order puts the bytes of a value, the most significant
\* first, at increasing addresses; and both conversions undo it.
LEMMA NetworkOrder ==
  ASSUME NEW h \in Hosts, NEW n \in Widths, NEW v \in Bytes(n)
  PROVE  /\ Memory(h, Hton(h, v)) = v
         /\ Hton(h, ValueIn(h, v)) = v
         /\ Ntoh(h, ValueIn(h, v)) = v
<1>1. /\ Reversed(v) \in Bytes(n)
      /\ Reversed(Reversed(v)) = v
      /\ Reversed(Reversed(Reversed(v))) = Reversed(v)
  BY ReversedTwice DEF Widths
<1>2. ByteorderSwap(h, v) = Reversed(v) /\ ByteorderSwap(h, Reversed(v)) = v
  BY <1>1, SwapReverses
<1> QED
  BY <1>1, <1>2 DEF Memory, Hton, Ntoh, ByteorderHton, ByteorderNtoh, Swap, ValueIn

\* The conversions between the unions reverse the bytes on every host.
LEMMA UnionsReverse ==
  ASSUME NEW h \in Hosts, NEW n \in Widths, NEW v \in Bytes(n)
  PROVE  Ltob(h, v) = Reversed(v) /\ Btol(h, v) = Reversed(v)
<1>1. /\ Reversed(v) \in Bytes(n)
      /\ Reversed(Reversed(v)) = v
  BY ReversedTwice DEF Widths
<1>2. ByteorderSwap(h, v) = Reversed(v) /\ ByteorderSwap(h, Reversed(v)) = v
  BY <1>1, SwapReverses
<1> QED
  BY <1>1, <1>2 DEF Ltob, Btol, Memory, ValueIn

\* Whatever the item and the hosts, what is written is the value, and what is read
\* is what was written.
LEMMA ItemsKeepValues ==
  ASSUME NEW h \in Hosts, NEW v \in Values, NEW k \in KindsOf(v)
  PROVE  Encode(h, k, v) = v /\ Decode(h, k, v) = v
<1>1. PICK n \in Widths : v \in Bytes(n)
  BY ByteOrderAssumption DEF Bytes
<1>2. /\ Len(v) = n
      /\ Reversed(v) \in Bytes(n)
      /\ Reversed(Reversed(v)) = v
  BY <1>1, ReversedTwice DEF Widths
<1>3. k \in {"int", "half", "float", "double", "union"}
  BY <1>2 DEF KindsOf, Widths
<1>4. /\ Memory(h, Hton(h, v)) = v
      /\ Hton(h, ValueIn(h, v)) = v
      /\ Ntoh(h, ValueIn(h, v)) = v
  BY <1>1, NetworkOrder
<1>5. Ltob(h, Reversed(v)) = v /\ Reversed(Btol(h, v)) = v
  BY <1>1, <1>2, UnionsReverse
<1> QED
  BY <1>3, <1>4, <1>5 DEF Encode, Decode

-----------------------------------------------------------------------------
\* Whatever hosts a value visits, of whatever byte order and build, and in whatever
\* item, each has the value the first one sent, and its bytes travel with the most
\* significant one first: what Cbor, which knows of no host, takes for granted.
THEOREM PortableCorrect == OrderSpec => []Portable
<1>1. OrderInit => Portable
  BY DEF OrderInit, Portable
<1>2. Portable /\ [OrderNext]_orderVars => Portable'
  <2> SUFFICES ASSUME Portable, [OrderNext]_orderVars
               PROVE  Portable'
    OBVIOUS
  <2> USE DEF Portable
  <2>1. CASE SendItem
    <3>1. bytes' = sent
      BY <2>1, ItemsKeepValues DEF SendItem
    <3> QED
      BY <2>1, <3>1 DEF SendItem
  <2>2. ASSUME NEW h \in Hosts, ReceiveItem(h)
        PROVE  Portable'
    <3>1. held' = sent
      BY <2>2, ItemsKeepValues DEF ReceiveItem
    <3> QED
      BY <2>2, <3>1 DEF ReceiveItem
  <2>3. CASE UNCHANGED orderVars
    BY <2>3 DEF orderVars
  <2> QED
    BY <2>1, <2>2, <2>3 DEF OrderNext
<1> QED
  BY <1>1, <1>2, PTL DEF OrderSpec
=============================================================================
