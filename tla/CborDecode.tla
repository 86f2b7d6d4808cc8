----------------------------- MODULE CborDecode -----------------------------
(***************************************************************************)
(* cbor_stream_decode, the printer of cbor.c: it walks over the items of a *)
(* stream, into arrays and maps, and prints one after the other.  What is  *)
(* printed is modelled by the offsets the printer finds items at.          *)
(*                                                                         *)
(* As built here (no MODULE_CBOR_SEMANTIC_TAGGING), a tag is skipped.      *)
(***************************************************************************)
EXTENDS CborStream

VARIABLES
  starts,       \* history: the offsets of the items in the stream
  printed       \* the offsets of the items printed, <<>> before the printer ran

decodeVars == <<streamVars, starts, printed>>

INDEFINITE == -1

(***************************************************************************)
(* The stream the printer reads: the whole buffer, and `pos', where what   *)
(* was written ends.  Only the loop over the top-level items and           *)
(* cbor_at_end look at pos; the deserializers test their reads against the *)
(* size, so behind pos they find what the buffer held before.              *)
(***************************************************************************)
Buffer(b) == [data |-> Contents, size |-> stream.size, after |-> b,
              pos |-> Len(stream.data)]

\* cbor_at_end: pos - 1 wraps around when nothing was written.
AtEnd(s, k) == s.pos > 0 /\ k >= s.pos - 1

AtBreak(s, k) == AtEnd(s, k) \/ ByteAt(s, k) = BREAK

\* cbor_stream_decode_skip
SkippedBytes(s, k) == IF InfoAt(s, k) = Uint8Follows THEN 2 ELSE 1

\* What the printer returns for an item that holds no other.
DecodeSimple(s, k) ==
  CASE TypeAt(s, k) = UINT -> DeserializeUint64(s, k).ret
    [] TypeAt(s, k) = NEGINT -> DeserializeInt64(s, k).ret
    [] TypeAt(s, k) = BYTES -> DeserializeByteString(s, k, 1024).ret
    [] TypeAt(s, k) = TEXT -> DeserializeUnicodeString(s, k, 1024).ret
    [] ByteAt(s, k) \in {FALSEBYTE, TRUEBYTE} -> DeserializeBool(s, k).ret
    [] ByteAt(s, k) = FLOAT16 -> DeserializeFloatHalf(s, k).ret
    [] ByteAt(s, k) = FLOAT32 -> DeserializeFloat(s, k).ret
    [] ByteAt(s, k) = FLOAT64 -> DeserializeDouble(s, k).ret
    [] OTHER -> SkippedBytes(s, k)

\* The head of an array or of a map: its bytes, and the number of elements.
DecodeHead(s, major, k) ==
  LET n == DecodeInt(s, k)
  IN  IF ByteAt(s, k) = major + VarFollows
        THEN Read(DeserializeIndefinite(major, s, k).ret, INDEFINITE)
        ELSE Read(n.ret, 256 * n.val[7] + n.val[8])

Decoded(n, at, visited) == [ret |-> n, at |-> at, visited |-> visited]

RECURSIVE DecodeAt(_, _), DecodeElements(_, _, _, _)

\* One turn of the loop: an item of an array, or a key and its value, of which
\* none counts when one of them is not read.
DecodeElement(s, major, k) ==
  LET key == DecodeAt(s, k)
      value == DecodeAt(s, key.at)
  IN  IF major = ARRAY THEN key
      ELSE Decoded(IF key.ret = 0 \/ value.ret = 0 THEN 0
                   ELSE key.ret + value.ret,
                   value.at, key.visited \o value.visited)

\* The loop over n elements, or up to a break.
DecodeElements(s, major, k, n) ==
  IF n = 0 \/ (n = INDEFINITE /\ AtBreak(s, k))
    THEN Decoded(0, k, <<>>)
  ELSE LET first == DecodeElement(s, major, k)
           rest == DecodeElements(s, major, first.at,
                                  IF n = INDEFINITE THEN n ELSE n - 1)
       IN  IF first.ret = 0 THEN first
           ELSE Decoded(first.ret + rest.ret, rest.at,
                        first.visited \o rest.visited)

\* Mutant of DecodeContainer: the break that ends a container is not counted.
DecodeContainerNoBreak(s, major, k) ==
  LET head == DecodeHead(s, major, k)
      elements == DecodeElements(s, major, k + head.ret, head.val)
      ret == head.ret + elements.ret
  IN  Decoded(ret, k + ret, <<k>> \o elements.visited)

\* The bytes of a break are counted, after a container of a known length too.
DecodeContainer(s, major, k) ==
  LET head == DecodeHead(s, major, k)
      elements == DecodeElements(s, major, k + head.ret, head.val)
      ret == head.ret + elements.ret
               + (IF AtBreak(s, elements.at) THEN 1 ELSE 0)
  IN  Decoded(ret, k + ret, <<k>> \o elements.visited)

\* cbor_stream_decode_at
DecodeAt(s, k) ==
  IF TypeAt(s, k) \in {ARRAY, MAP}
    THEN DecodeContainer(s, TypeAt(s, k), k)
    ELSE Decoded(DecodeSimple(s, k), k + DecodeSimple(s, k), <<k>>)

RECURSIVE DecodeFrom(_, _)

\* cbor_stream_decode, from offset k on: it stops at an item it cannot read.
DecodeFrom(s, k) ==
  LET item == DecodeAt(s, k)
  IN  IF k >= s.pos THEN <<>>
      ELSE IF item.ret = 0 THEN item.visited
      ELSE item.visited \o DecodeFrom(s, k + item.ret)

-----------------------------------------------------------------------------
DecodeInit == Init /\ starts = <<>> /\ printed = <<>>

WriteNext ==
  /\ printed = <<>>
  /\ WriteItem
  /\ starts' = IF items' = items THEN starts
               ELSE Append(starts, Len(stream.data))
  /\ UNCHANGED printed

\* cbor_clear or cbor_destroy: what was written is gone.
Discard ==
  /\ printed = <<>>
  /\ Clear \/ Destroy
  /\ starts' = <<>>
  /\ UNCHANGED printed

PrintStream(b) ==
  /\ Loads[load].reader = "printer"
  /\ printed = <<>>
  /\ printed' = DecodeFrom(Buffer(b), 0)
  /\ UNCHANGED <<streamVars, starts>>

ReceiverStep == ReceiverNext /\ UNCHANGED <<starts, printed>>

DecodeNext ==
  \/ WriteNext
  \/ Discard
  \/ \E b \in AfterBytes : PrintStream(b)
  \/ ReceiverStep

\* Its steps are those of StreamSpec and that of the printer, which leaves streamVars
\* as they are: what holds of StreamSpec holds here.
DecodeSpec == DecodeInit /\ [][DecodeNext]_decodeVars

-----------------------------------------------------------------------------
(***************************************************************************)
(* A reference parse, of the items written and not of their bytes.         *)
(* PastItems(i, n) is the position past the n items at position i or, for  *)
(* a negative n, past the groups of -n items and the break that ends them; *)
(* 0 when they are not there.                                              *)
(***************************************************************************)
Holds(item) ==
  CASE item.kind = "array" -> item.val[8]
    [] item.kind = "map" -> 2 * item.val[8]
    [] item.kind = "anyArray" -> -1
    [] item.kind = "anyMap" -> -2
    [] OTHER -> 0

RECURSIVE PastItems(_, _)

PastItems(i, n) ==
  IF n = 0 \/ i = 0 THEN i
  ELSE IF i > Len(items) THEN 0
  ELSE IF n < 0 THEN IF items[i].kind = "break" THEN i + 1
                     ELSE PastItems(PastItems(i, -n), n)
  ELSE IF items[i].kind = "break" THEN 0
  ELSE PastItems(PastItems(i + 1, Holds(items[i])), n - 1)

WellFormed == \E n \in 0..Len(items) : PastItems(1, n) = Len(items) + 1

\* Where the items to print are: a break is not one of them.
ItemStarts ==
  LET kept == SelectSeq([i \in DOMAIN items |-> i],
                        LAMBDA i : items[i].kind # "break")
  IN  [k \in DOMAIN kept |-> starts[kept[k]]]

StartOf(i) == IF i > Len(items) THEN Len(stream.data) ELSE starts[i]

\* The containers of a known length that a break follows, or a single byte.
ShortTails ==
  {i \in DOMAIN items :
     /\ items[i].kind \in {"array", "map"}
     /\ PastItems(i, 1) <= Len(items)
     /\ \/ items[PastItems(i, 1)].kind = "break"
        \/ StartOf(PastItems(i, 1)) = Len(stream.data) - 1}

\* The printer finds every item of a well-formed stream where it was written, each
\* once and no other, through every nesting, unless a single byte or a break
\* follows a container of a known length (cbor_stream_decode).
NestingPrinted ==
  printed # <<>> /\ WellFormed /\ ShortTails = {} => printed = ItemStarts

ShortHeads ==
  \A i \in DOMAIN items : items[i].kind \in {"array", "map"} => items[i].val[8] < 24

\* Also after a short tail the printer stays on the items until it reads where
\* nothing was written: what it prints of a well-formed stream whose containers have
\* heads of one byte starts where an item starts, whatever the buffer held before.
\* (Behind the end a read may fail, cbor_stream_decode_at then gives up the bytes of
\* the elements around it, and the printer may go on inside an item.)
StaysAligned ==
  printed # <<>> /\ WellFormed /\ ShortHeads =>
    \A i \in DOMAIN printed :
      (\A j \in 1..i : printed[j] < Len(stream.data)) =>
        \E j \in DOMAIN ItemStarts : printed[i] = ItemStarts[j]

\* "This method interprets the data and prints each item in its natural
\* representation" (cbor.h:195).
EachItemPrinted ==
  printed # <<>> /\ WellFormed => printed = ItemStarts
=============================================================================
