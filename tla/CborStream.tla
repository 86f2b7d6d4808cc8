----------------------------- MODULE CborStream -----------------------------
(***************************************************************************)
(* The use the typesupports make of cbor.c: items are written one after    *)
(* the other into a buffer, the bytes written are sent, and the receiver   *)
(* reads items at offsets it computes from what each read returned.        *)
(* CborDecode adds the printer, the other reader of the bytes.             *)
(***************************************************************************)
EXTENDS Cbor, HalfFloat

CONSTANTS
  Loads,        \* bound: what a stream may hold, by name: records of the items
                \* to write (a kind and a value), the most items in one stream
                \* and in one that is cleared, the sizes of the buffer, the
                \* bytes it may be filled with before, and who reads it
  AfterBytes    \* the bytes that may follow a received buffer in memory

\* A value has the C type of its kind: a float is its bytes, and so is a number; a
\* string is shorter than 2^16 bytes, as everywhere in Cbor.
WellTyped(item) ==
  CASE item.kind \in {"int", "half", "float"} -> item.val \in [1..4 -> Byte]
    [] item.kind \in {"int64", "uint64", "double", "array", "map"} ->
         item.val \in Uint64
    [] item.kind = "bool" -> item.val \in BOOLEAN
    [] item.kind \in {"bytes", "text"} ->
         item.val \in Seq(Byte) /\ Len(item.val) < 65536
    [] item.kind \in {"anyArray", "anyMap", "break"} -> item.val = <<>>
    [] OTHER -> FALSE

ASSUME StreamAssumption ==
  /\ AfterBytes \subseteq Byte
  /\ \A name \in DOMAIN Loads :
       /\ \A item \in Loads[name].items : WellTyped(item)
       /\ Loads[name].sizes \subseteq Nat
       /\ Loads[name].fills \subseteq Byte
       /\ Loads[name].maxItems \in Nat
       /\ Loads[name].maxCleared \in Nat
       /\ Loads[name].reader \in {"receiver", "printer"}

VARIABLES
  load,         \* the load of this stream
  stream,       \* the cbor_stream_t
  old,          \* what the buffer held when the stream was last empty
  items,        \* history: the items the serializers accepted
  receiving,    \* the bytes have been sent
  offset,       \* the offset of the receiver
  values        \* what the deserializers stored

streamVars == <<load, stream, old, items, receiving, offset, values>>

Serialize(s, item) ==
  CASE item.kind \in {"int", "int64"} -> SerializeInt(s, item.val)
    [] item.kind = "uint64" -> SerializeUint64(s, item.val)
    [] item.kind = "bool" -> SerializeBool(s, item.val)
    [] item.kind = "half" -> SerializeFloatHalf(s, item.val)
    [] item.kind = "float" -> SerializeFloat(s, item.val)
    [] item.kind = "double" -> SerializeDouble(s, item.val)
    [] item.kind = "bytes" -> SerializeByteString(s, item.val)
    [] item.kind = "text" -> SerializeUnicodeString(s, item.val)
    [] item.kind = "array" -> SerializeArray(s, item.val)
    [] item.kind = "map" -> SerializeMap(s, item.val)
    [] item.kind = "anyArray" -> SerializeIndefinite(ARRAY, s)
    [] item.kind = "anyMap" -> SerializeIndefinite(MAP, s)
    [] item.kind = "break" -> WriteBreak(s)

Deserialize(s, kind, k) ==
  CASE kind = "int" -> DeserializeInt(s, k)
    [] kind = "int64" -> DeserializeInt64(s, k)
    [] kind = "uint64" -> DeserializeUint64(s, k)
    [] kind = "bool" -> DeserializeBool(s, k)
    [] kind = "half" -> DeserializeFloatHalf(s, k)
    [] kind = "float" -> DeserializeFloat(s, k)
    [] kind = "double" -> DeserializeDouble(s, k)
    [] kind = "bytes" -> DeserializeByteString(s, k, s.size)
    [] kind = "text" -> DeserializeUnicodeString(s, k, s.size)
    [] kind = "array" -> DeserializeArray(s, k)
    [] kind = "map" -> DeserializeMap(s, k)
    [] kind = "anyArray" -> DeserializeIndefinite(ARRAY, s, k)
    [] kind = "anyMap" -> DeserializeIndefinite(MAP, s, k)
    [] kind = "break" -> IF ByteAt(s, k) = BREAK THEN Read(1, <<>>) ELSE Failed

Init ==
  /\ load \in DOMAIN Loads
  /\ stream \in {EmptyStream(n) : n \in Loads[load].sizes}
  /\ old \in {[k \in 1..stream.size |-> b] : b \in Loads[load].fills}
  /\ items = <<>>
  /\ receiving = FALSE
  /\ offset = 0
  /\ values = <<>>

\* The bytes of the buffer: what was written and, behind it, what is left of what
\* the buffer held before.
Contents == stream.data \o SubSeq(old, Len(stream.data) + 1, stream.size)

\* A serializer writes its item, or returns 0 and the writer goes on.
WriteItem ==
  /\ ~receiving
  /\ Len(items) < Loads[load].maxItems
  /\ \E item \in Loads[load].items :
       LET result == Serialize(stream, item)
       IN  /\ stream' = result.stream
           /\ items' = IF result.ret = 0 THEN items ELSE Append(items, item)
  /\ UNCHANGED <<load, old, receiving, offset, values>>

\* cbor_clear: the buffer is used again, with what it holds.
Clear ==
  /\ ~receiving
  /\ Len(items) <= Loads[load].maxCleared
  /\ old' = Contents
  /\ stream' = EmptyStream(stream.size)
  /\ items' = <<>>
  /\ UNCHANGED <<load, receiving, offset, values>>

\* cbor_destroy: the stream has no buffer left, and every write is refused.
Destroy ==
  /\ ~receiving
  /\ stream' = EmptyStream(0)
  /\ old' = <<>>
  /\ items' = <<>>
  /\ UNCHANGED <<load, receiving, offset, values>>

Send(b) ==
  /\ ~receiving
  /\ Loads[load].reader = "receiver"
  /\ receiving' = TRUE
  /\ stream' = ReceivedStream(stream.data, b)
  /\ UNCHANGED <<load, old, items, offset, values>>

NextKind == items[Len(values) + 1].kind

Receive(result) ==
  /\ receiving
  /\ Len(values) < Len(items)
  /\ offset' = offset + result.ret
  /\ values' = Append(values, result.val)
  /\ UNCHANGED <<load, stream, old, items, receiving>>

ReadItem == Receive(Deserialize(stream, NextKind, offset))

\* cbor_deserialize_byte_string_no_copy, cbor_deserialize_unicode_string_no_copy:
\* the string is left where it is in the buffer.
ReadInPlace(major) ==
  /\ receiving
  /\ Len(values) < Len(items)
  /\ NextKind = (IF major = BYTES THEN "bytes" ELSE "text")
  /\ Receive(DecodeBytesNoCopy(major, stream, offset))

WriterNext == WriteItem \/ Clear \/ Destroy

ReceiverNext ==
  \/ \E b \in AfterBytes : Send(b)
  \/ ReadItem
  \/ \E major \in {BYTES, TEXT} : ReadInPlace(major)

StreamNext == WriterNext \/ ReceiverNext

StreamSpec == Init /\ [][StreamNext]_streamVars

-----------------------------------------------------------------------------
\* No serializer writes past the buffer (CBOR_ENSURE_SIZE counts every byte the
\* serializer then writes), and no read leads past the bytes sent.
NoOverrun ==
  /\ stream.data \in Seq(Byte)
  /\ Len(stream.data) <= stream.size
  /\ receiving => offset <= Len(stream.data)

\* The receiver reads the values that were written, whatever their number, kinds
\* and sizes: each return value leads to the first byte of the next item, and the
\* reads add up to the bytes sent, which is the test that Subscriber::take makes
\* (rmw_sub.cpp:112).
RoundTrip ==
  /\ \A k \in DOMAIN values : items[k].kind # "half" => values[k] = items[k].val
  /\ receiving /\ Len(values) = Len(items) => offset = Len(stream.data)

Integer == {"int", "int64", "uint64"}

\* A deserializer refuses an item of another kind: a field that was not written
\* is not read from the bytes of the next one.  (The readers of booleans and of
\* counted arrays and maps are not that strict, and are not in the list.)
StrictReaders ==
  receiving /\ Len(values) < Len(items) =>
    \A kind \in Integer \cup {"half", "float", "double", "bytes", "text"} :
      LET found == items[Len(values) + 1].kind
      IN  \/ kind = found
          \/ {kind, found} \subseteq Integer
          \/ Deserialize(stream, kind, offset).ret = 0

HalvesRead == {k \in DOMAIN values : items[k].kind = "half"}

\* A float in the range of the halves is sent as the half nearest to it, of two
\* equally near the larger, and read as a float no other half is nearer to: the
\* carry of the rounding goes from the denormals to the normals, into the exponent
\* and up to infinity (encode_float_half, decode_float_half).
NearestHalf ==
  \A k \in HalvesRead :
    LET h == EncodeHalf(items[k].val) % 32768
    IN  Exponent(items[k].val) \in 103..142 =>
          /\ RoundsTo(items[k].val, h)
          /\ h = 31744 \/ RoundsTo(values[k], h)

\* A float that was read from a half is sent again as that half: relaying a value
\* through several processes rounds it once.  The sign is kept, also of zero and of
\* infinity, and a NaN stays a NaN while nothing else becomes one.
HalfStable ==
  \A k \in HalvesRead :
    /\ IsNaN(values[k]) \/ EncodeHalf(values[k]) = EncodeHalf(items[k].val)
    /\ Sign(values[k]) = Sign(items[k].val)
    /\ IsNaN(values[k]) <=> IsNaN(items[k].val)

\* A buffer in which every item fits.
Ample == EmptyStream(64)

\* "Ensure that stream is big enough to fit bytes bytes, otherwise return 0": an
\* item that fits in the buffer is written (cbor.c:76).
FittingItemWritten ==
  \A item \in Loads[load].items :
    ~receiving /\ Len(stream.data) + Serialize(Ample, item).ret <= stream.size
    => Serialize(stream, item).ret # 0
=============================================================================
