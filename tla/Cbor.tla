-------------------------------- MODULE Cbor --------------------------------
(***************************************************************************)
(* cbor.c, as both typesupports compile it: the items a message is made    *)
(* of, written to and read from a cbor_stream_t.                           *)
(*                                                                         *)
(* A uint64_t is the sequence of its eight bytes, the most significant     *)
(* first; an int is four bytes and an int64_t eight, in two's complement.  *)
(* So truncation keeps the last bytes and -1 - x complements every byte.   *)
(*                                                                         *)
(* A serializer returns what it returns and the stream it leaves; a        *)
(* deserializer returns what it returns and the value it stores.  A return *)
(* of 0 is the error of both.                                              *)
(***************************************************************************)
EXTENDS Integers, Sequences

Byte == 0..255

Uint64 == [1..8 -> Byte]

Zeros(n) == [k \in 1..n |-> 0]

Complement(v) == [k \in DOMAIN v |-> 255 - v[k]]

IsNegative(v) == v[1] >= 128

LowBytes(v, n) == SubSeq(v, Len(v) - n + 1, Len(v))

Widen(v) == Zeros(8 - Len(v)) \o v

\* The length of a string as a uint64_t; strings are shorter than 2^16 bytes.
LengthBytes(n) == Zeros(6) \o <<n \div 256, n % 256>>

-----------------------------------------------------------------------------
(* The initial byte of an item: the major type and the additional info. *)

UINT == 0
NEGINT == 32
BYTES == 64
TEXT == 96
ARRAY == 128
MAP == 160
SEVEN == 224

Uint8Follows == 24
VarFollows == 31
FALSEBYTE == SEVEN + 20
TRUEBYTE == SEVEN + 21
FLOAT32 == SEVEN + 26
FLOAT64 == SEVEN + 27
BREAK == SEVEN + 31

-----------------------------------------------------------------------------
(***************************************************************************)
(* cbor_stream_t.  `size' is the size of the buffer.  Of a writer, `data'  *)
(* is what was written, so its length is pos; of a reader, the bytes of    *)
(* the buffer, and `after' is the byte found past its end, which a few     *)
(* deserializers read.                                                     *)
(***************************************************************************)
EmptyStream(n) == [data |-> <<>>, size |-> n]

ReceivedStream(data, b) == [data |-> data, size |-> Len(data), after |-> b]

\* Mutant of EnsureSize: only the first byte is counted.
EnsureSizeOfOne(s, n) == Len(s.data) < s.size

\* CBOR_ENSURE_SIZE: a write that would fill the buffer exactly is refused.
EnsureSize(s, n) == Len(s.data) + n < s.size

\* CBOR_ENSURE_SIZE_READ
EnsureSizeRead(s, n) == n <= s.size

ByteAt(s, offset) ==
  IF offset < Len(s.data) THEN s.data[offset + 1] ELSE s.after

TypeAt(s, offset) == ByteAt(s, offset) - (ByteAt(s, offset) % 32)

InfoAt(s, offset) == ByteAt(s, offset) % 32

Refused(s) == [ret |-> 0, stream |-> s]

Write(s, bytes) ==
  IF EnsureSize(s, Len(bytes))
    THEN [ret |-> Len(bytes), stream |-> [s EXCEPT !.data = @ \o bytes]]
    ELSE Refused(s)

Failed == [ret |-> 0, val |-> <<>>]

Read(n, v) == [ret |-> n, val |-> v]

-----------------------------------------------------------------------------
(* Integers. *)

FitsIn(v, n) == \A k \in 1..8-n : v[k] = 0

\* uint_additional_info
UintAdditionalInfo(v) ==
  CASE FitsIn(v, 1) /\ v[8] < Uint8Follows -> v[8]
    [] FitsIn(v, 1) /\ v[8] >= Uint8Follows -> 24
    [] FitsIn(v, 2) /\ ~FitsIn(v, 1) -> 25
    [] FitsIn(v, 4) /\ ~FitsIn(v, 2) -> 26
    [] ~FitsIn(v, 4) -> 27

\* uint_bytes_follow
UintBytesFollow(info) ==
  IF info \in 24..27 THEN <<1, 2, 4, 8>>[info - 23] ELSE 0

IntBytes(major, v) ==
  LET info == UintAdditionalInfo(v)
  IN  <<major + info>> \o LowBytes(v, UintBytesFollow(info))

EncodeInt(major, s, v) == Write(s, IntBytes(major, v))

\* Mutant of DecodeInt: the initial byte is not counted.
DecodeIntNoHead(s, offset) ==
  LET n == UintBytesFollow(InfoAt(s, offset))
  IN  IF EnsureSizeRead(s, offset + 1) /\ EnsureSizeRead(s, offset + 1 + n)
        THEN Read(IF n = 0 THEN 1 ELSE n,
                  Widen(IF n = 0 THEN <<InfoAt(s, offset)>>
                        ELSE SubSeq(s.data, offset + 2, offset + 1 + n)))
        ELSE Read(0, Zeros(8))

DecodeInt(s, offset) ==
  LET n == UintBytesFollow(InfoAt(s, offset))
  IN  IF EnsureSizeRead(s, offset + 1) /\ EnsureSizeRead(s, offset + 1 + n)
        THEN Read(n + 1,
                  Widen(IF n = 0 THEN <<InfoAt(s, offset)>>
                        ELSE SubSeq(s.data, offset + 2, offset + 1 + n)))
        ELSE Read(0, Zeros(8))

\* Mutant of SerializeInt: a negative number is not mapped to -1 - val.
SerializeIntAsIs(s, v) ==
  EncodeInt(IF IsNegative(v) THEN NEGINT ELSE UINT, s, Widen(v))

\* cbor_serialize_int and cbor_serialize_int64_t
SerializeInt(s, v) ==
  IF IsNegative(v) THEN EncodeInt(NEGINT, s, Widen(Complement(v)))
                   ELSE EncodeInt(UINT, s, Widen(v))

Signed(major, v, n) ==
  LowBytes(IF major = UINT THEN v ELSE Complement(v), n)

\* cbor_deserialize_int
DeserializeInt(s, offset) ==
  LET item == DecodeInt(s, offset)
  IN  IF /\ EnsureSizeRead(s, offset + 1)
         /\ TypeAt(s, offset) \in {UINT, NEGINT}
         /\ item.ret # 0
        THEN Read(item.ret, Signed(TypeAt(s, offset), item.val, 4))
        ELSE Failed

\* cbor_deserialize_int64_t: it stores a value even when nothing could be read.
DeserializeInt64(s, offset) ==
  LET item == DecodeInt(s, offset)
  IN  IF TypeAt(s, offset) \in {UINT, NEGINT}
        THEN Read(item.ret, Signed(TypeAt(s, offset), item.val, 8))
        ELSE Failed

\* cbor_serialize_uint64_t
SerializeUint64(s, v) == EncodeInt(UINT, s, v)

\* Mutant of DeserializeUint64: the type is not tested.
DeserializeUint64AnyType(s, offset) == DecodeInt(s, offset)

\* cbor_deserialize_uint64_t
DeserializeUint64(s, offset) ==
  IF TypeAt(s, offset) = UINT THEN DecodeInt(s, offset) ELSE Failed

-----------------------------------------------------------------------------
(* Booleans and floats; a float is the sequence of its bytes. *)

SerializeBool(s, b) == Write(s, <<IF b THEN TRUEBYTE ELSE FALSEBYTE>>)

DeserializeBool(s, offset) ==
  IF TypeAt(s, offset) = SEVEN THEN Read(1, ByteAt(s, offset) = TRUEBYTE)
                               ELSE Failed

SerializeFloat(s, v) == Write(s, <<FLOAT32>> \o v)

SerializeDouble(s, v) == Write(s, <<FLOAT64>> \o v)

\* cbor_deserialize_float checks no size; the bytes past the end are unknown.
DeserializeFloat(s, offset) ==
  IF ByteAt(s, offset) = FLOAT32
    THEN Read(5, [k \in 1..4 |-> ByteAt(s, offset + k)])
    ELSE Failed

\* Mutant of DeserializeDouble: the size is not tested.
DeserializeDoubleNoSize(s, offset) ==
  IF ByteAt(s, offset) = FLOAT64
    THEN Read(9, [k \in 1..8 |-> ByteAt(s, offset + k)])
    ELSE Failed

DeserializeDouble(s, offset) ==
  IF /\ EnsureSizeRead(s, offset + 1)
     /\ ByteAt(s, offset) = FLOAT64
     /\ EnsureSizeRead(s, offset + 9)
    THEN Read(9, SubSeq(s.data, offset + 2, offset + 9))
    ELSE Failed

-----------------------------------------------------------------------------
(* Strings, arrays and maps. *)

\* encode_bytes: the whole string is checked for before its length is written.
EncodeBytes(major, s, string) ==
  LET head == IntBytes(major, LengthBytes(Len(string)))
  IN  IF EnsureSize(s, Len(head) + Len(string))
        THEN Write(s, head \o string)
        ELSE Refused(s)

\* Mutant of DecodeBytes: the terminating zero counts as read.
DecodeBytesCountsZero(major, s, offset, capacity) ==
  LET head == DecodeInt(s, offset)
      length == 256 * head.val[7] + head.val[8]
  IN  IF /\ EnsureSizeRead(s, offset + 1)
         /\ TypeAt(s, offset) = major
         /\ head.ret # 0
         /\ FitsIn(head.val, 2)
         /\ length + 1 <= capacity
         /\ EnsureSizeRead(s, offset + head.ret + length)
        THEN Read(head.ret + length + 1,
                  SubSeq(s.data, offset + head.ret + 1,
                                 offset + head.ret + length))
        ELSE Failed

\* decode_bytes: `capacity' must leave room for the terminating zero.
DecodeBytes(major, s, offset, capacity) ==
  LET head == DecodeInt(s, offset)
      length == 256 * head.val[7] + head.val[8]
  IN  IF /\ EnsureSizeRead(s, offset + 1)
         /\ TypeAt(s, offset) = major
         /\ head.ret # 0
         /\ FitsIn(head.val, 2)
         /\ length + 1 <= capacity
         /\ EnsureSizeRead(s, offset + head.ret + length)
        THEN Read(head.ret + length,
                  SubSeq(s.data, offset + head.ret + 1,
                                 offset + head.ret + length))
        ELSE Failed

\* decode_bytes_no_copy: there is no capacity and no terminating zero.
DecodeBytesNoCopy(major, s, offset) ==
  LET head == DecodeInt(s, offset)
      length == 256 * head.val[7] + head.val[8]
  IN  IF /\ EnsureSizeRead(s, offset + 1)
         /\ TypeAt(s, offset) = major
         /\ head.ret # 0
         /\ FitsIn(head.val, 2)
         /\ EnsureSizeRead(s, offset + head.ret + length)
        THEN Read(head.ret + length,
                  SubSeq(s.data, offset + head.ret + 1,
                                 offset + head.ret + length))
        ELSE Failed

SerializeByteString(s, string) == EncodeBytes(BYTES, s, string)

DeserializeByteString(s, offset, capacity) ==
  DecodeBytes(BYTES, s, offset, capacity)

SerializeUnicodeString(s, string) == EncodeBytes(TEXT, s, string)

DeserializeUnicodeString(s, offset, capacity) ==
  DecodeBytes(TEXT, s, offset, capacity)

SerializeArray(s, n) == EncodeInt(ARRAY, s, n)

DeserializeArray(s, offset) ==
  IF TypeAt(s, offset) = ARRAY THEN DecodeInt(s, offset) ELSE Failed

SerializeMap(s, n) == EncodeInt(MAP, s, n)

DeserializeMap(s, offset) ==
  IF TypeAt(s, offset) = MAP THEN DecodeInt(s, offset) ELSE Failed

\* cbor_serialize_array_indefinite, cbor_serialize_map_indefinite
SerializeIndefinite(major, s) == Write(s, <<major + VarFollows>>)

DeserializeIndefinite(major, s, offset) ==
  IF ByteAt(s, offset) = major + VarFollows THEN Read(1, <<>>) ELSE Failed

WriteBreak(s) == Write(s, <<BREAK>>)
=============================================================================
