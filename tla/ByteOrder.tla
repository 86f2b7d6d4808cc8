----------------------------- MODULE ByteOrder -----------------------------
(***************************************************************************)
(* byteorder.h, which both copies of cbor.c use, and the places where      *)
(* cbor.c needs it: a value goes from host to host, of either byte order,  *)
(* in the bytes of a CBOR item.                                            *)
(*                                                                         *)
(* A value is the sequence of its bytes, the most significant first, as in *)
(* Cbor; what a host keeps in memory is another sequence.  This module is  *)
(* what allows Cbor to speak of values only.                               *)
(***************************************************************************)
EXTENDS Integers, Sequences

CONSTANTS
  Hosts,        \* the hosts a message may visit
  Order,        \* __BYTE_ORDER__ of each, "little" or "big"
  Build,        \* how byteorder_swaps is compiled there: "builtin", "shift"
                \*   (HAVE_NO_BUILTIN_BSWAP16) or "union" (MSP430)
  Values        \* the values sent

Byte == 0..255

Widths == {2, 4, 8}

ASSUME ByteOrderAssumption ==
  /\ Order \in [Hosts -> {"little", "big"}]
  /\ Build \in [Hosts -> {"builtin", "shift", "union"}]
  /\ \A v \in Values : \E n \in Widths : v \in [1..n -> Byte]

VARIABLES
  sent,         \* history: the value the first host had
  kind,         \* the CBOR item it travels in
  host,         \* the host that has it, or had it last
  held,         \* the value that host has
  bytes,        \* what was written, from the lowest address on
  place         \* "host" or "wire"

orderVars == <<sent, kind, host, held, bytes, place>>

Reversed(v) == [k \in DOMAIN v |-> v[Len(v) + 1 - k]]

\* What a host keeps in memory, as the u8 member of the unions shows it.
Memory(h, v) == IF Order[h] = "little" THEN Reversed(v) ELSE v

\* The integer member of a union, for the bytes of its u8 member.
ValueIn(h, mem) == IF Order[h] = "little" THEN Reversed(mem) ELSE mem

-----------------------------------------------------------------------------
(* Swaps. *)

\* a << 8 | a >> 8, in an unsigned short.
SwapShift(v) ==
  LET a == 256 * v[1] + v[2]
      b == (256 * a + a \div 256) % 65536
  IN  <<b \div 256, b % 256>>

SwapUnion(h, v) ==
  LET u8 == Memory(h, v) IN ValueIn(h, <<u8[2], u8[1]>>)

\* byteorder_swaps
Swaps(h, v) ==
  CASE Build[h] = "builtin" -> Reversed(v)
    [] Build[h] = "shift" -> SwapShift(v)
    [] Build[h] = "union" -> SwapUnion(h, v)

\* byteorder_swaps, byteorder_swapl and byteorder_swapll
ByteorderSwap(h, v) == IF Len(v) = 2 THEN Swaps(h, v) ELSE Reversed(v)

\* byteorder_ltobs, byteorder_ltobl and byteorder_ltobll: from the bytes of one
\* union to those of the other.
Ltob(h, le) == Memory(h, ByteorderSwap(h, ValueIn(h, le)))

\* byteorder_btols, byteorder_btoll and byteorder_btolll
Btol(h, be) == Memory(h, ByteorderSwap(h, ValueIn(h, be)))

\* _byteorder_swap
Swap(h, v) == IF Order[h] = "little" THEN ByteorderSwap(h, v) ELSE v

\* byteorder_htons and the others: the bytes of a network union.
ByteorderHton(h, v) == Memory(h, Swap(h, v))

\* byteorder_ntohs and the others.
ByteorderNtoh(h, network) == Swap(h, ValueIn(h, network))

\* htons, htonl and htonll: the integer member of that union.
Hton(h, v) == ValueIn(h, ByteorderHton(h, v))

\* ntohs, ntohl and ntohll
Ntoh(h, v) == ByteorderNtoh(h, Memory(h, v))

-----------------------------------------------------------------------------
(* Items. *)

\* The kinds of a value: integers of more than a byte, the three floats, and the
\* integers that are converted by byteorder_ltob and byteorder_btol.
KindsOf(v) ==
  {"int", "union"} \cup
  (CASE Len(v) = 2 -> {"half"} [] Len(v) = 4 -> {"float"} [] Len(v) = 8 -> {"double"})

\* encode_int shifts the bytes out; the floats are converted and copied.
Encode(h, k, v) ==
  CASE k = "int" -> v
    [] k \in {"half", "float", "double"} -> Memory(h, Hton(h, v))
    [] k = "union" -> Ltob(h, Reversed(v))

\* Mutant of Decode: the bytes of a double are taken as they are.
DecodeDoubleAsIs(h, k, b) ==
  CASE k = "int" -> Hton(h, ValueIn(h, b))
    [] k = "half" -> b
    [] k = "float" -> Ntoh(h, ValueIn(h, b))
    [] k = "double" -> ValueIn(h, b)
    [] k = "union" -> Reversed(Btol(h, b))

\* decode_int and ntohd use hton where ntoh is meant; decode_float_half shifts.
Decode(h, k, b) ==
  CASE k = "int" -> Hton(h, ValueIn(h, b))
    [] k = "half" -> b
    [] k = "float" -> Ntoh(h, ValueIn(h, b))
    [] k = "double" -> Hton(h, ValueIn(h, b))
    [] k = "union" -> Reversed(Btol(h, b))

OrderInit ==
  /\ sent \in Values
  /\ kind \in KindsOf(sent)
  /\ host \in Hosts
  /\ held = sent
  /\ bytes = <<>>
  /\ place = "host"

SendItem ==
  /\ place = "host"
  /\ bytes' = Encode(host, kind, held)
  /\ place' = "wire"
  /\ UNCHANGED <<sent, kind, host, held>>

ReceiveItem(h) ==
  /\ place = "wire"
  /\ held' = Decode(h, kind, bytes)
  /\ host' = h
  /\ place' = "host"
  /\ UNCHANGED <<sent, kind, bytes>>

OrderNext == SendItem \/ \E h \in Hosts : ReceiveItem(h)

OrderSpec == OrderInit /\ [][OrderNext]_orderVars

-----------------------------------------------------------------------------
\* Whatever hosts a message visits, each has the value the first one sent: also
\* where hton is used for ntoh (cbor.c:156 and 359).  What is written does not depend
\* on the host that writes it nor on the way its swaps are compiled: the most
\* significant byte first, as CBOR asks.
Portable ==
  /\ sent \in Values /\ kind \in KindsOf(sent) /\ host \in Hosts
  /\ held = sent
  /\ place = "wire" => bytes = sent
=============================================================================
