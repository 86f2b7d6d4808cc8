---------------------------- MODULE Typesupport ----------------------------
(***************************************************************************)
(* The serialize and deserialize functions that the typesupport templates  *)
(* generate for a message (msg__type_support.c.em for C,                   *)
(* msg__type_support.cpp.em for C++), between Publisher::push, which gives *)
(* them a buffer of BufferSize bytes, and Subscriber::take, which accepts  *)
(* the message when the reads add up to its size.                          *)
(*                                                                         *)
(* The functions treat the fields one after the other and never stop: a    *)
(* field that does not fit, or whose type the template does not know, is   *)
(* skipped, and the next one is written right after the previous.          *)
(***************************************************************************)
EXTENDS Cbor

CONSTANTS
  Messages,     \* sequences of fields: records with a type and a value
  Languages,    \* the languages of the two typesupports
  BufferSize,   \* the 512 of Publisher::push
  AfterBytes,   \* the bytes that may follow a received buffer in memory
  HeldSizes,    \* the sizes a std::string of the receiver's message may have
  Untouched     \* what a field of the receiver's message held before

\* What a field holds.  The types the templates do not know are left open.
WellTyped(f) ==
  /\ f.type = "string" => f.val \in Seq(Byte) /\ Len(f.val) < 65536
  /\ f.type = "bool" => f.val \in BOOLEAN
  /\ f.type \in {"int32", "uint32"} => f.val \in [1..4 -> Byte]
  /\ f.type \in {"int64", "uint64", "float64"} => f.val \in Uint64

ASSUME TypesupportAssumption ==
  /\ BufferSize \in Nat
  /\ Languages \subseteq {"C", "C++"}
  /\ AfterBytes \subseteq Byte
  /\ HeldSizes \subseteq Nat
  /\ \A m \in Messages : Len(m) \in Nat /\ \A k \in 1..Len(m) : WellTyped(m[k])

VARIABLES
  fields,       \* the message published
  writer,       \* the language of the publisher
  reader,       \* the language of the subscriber
  stage,        \* "serialize", "deserialize", "taken", "rejected"
  next,         \* the field the function treats next
  stream,       \* the cbor_stream_t of the function
  ret,          \* its local variable ret
  written,      \* history: the fields serialized
  ends,         \* history: the offsets where an item of the stream ends
  result        \* the fields of the receiver's message

tsVars ==
  <<fields, writer, reader, stage, next, stream, ret, written, ends, result>>

AsInt(b) == <<0, 0, 0, IF b THEN 1 ELSE 0>>

TsInit ==
  /\ fields \in Messages
  /\ writer \in Languages
  /\ reader \in Languages
  /\ stage = "serialize"
  /\ next = 1
  /\ stream = EmptyStream(BufferSize)
  /\ ret = 0
  /\ written = {}
  /\ ends = {0}
  /\ result = [k \in 1..Len(fields) |-> Untouched]

\* Mutant of SerializeField: an int64 goes through cbor_serialize_int.
SerializeFieldNarrow(lang, s, f) ==
  CASE f.type = "string" -> SerializeByteString(s, f.val)
    [] f.type = "bool" /\ lang = "C" -> SerializeInt(s, AsInt(f.val))
    [] f.type \in {"int32", "uint32"} -> SerializeInt(s, f.val)
    [] f.type = "int64" -> SerializeInt(s, LowBytes(f.val, 4))
    [] f.type = "uint64" -> SerializeUint64(s, f.val)
    [] f.type = "float64" -> SerializeDouble(s, f.val)
    [] OTHER -> Refused(s)

\* What the template generates for a field.  The C++ template has no case for
\* bool when it serializes.
SerializeField(lang, s, f) ==
  CASE f.type = "string" -> SerializeByteString(s, f.val)
    [] f.type = "bool" /\ lang = "C" -> SerializeInt(s, AsInt(f.val))
    [] f.type \in {"int32", "uint32", "int64"} -> SerializeInt(s, f.val)
    [] f.type = "uint64" -> SerializeUint64(s, f.val)
    [] f.type = "float64" -> SerializeDouble(s, f.val)
    [] OTHER -> Refused(s)

WriteField ==
  LET r == SerializeField(writer, stream, fields[next])
  IN  /\ stage = "serialize"
      /\ next <= Len(fields)
      /\ stream' = r.stream
      /\ ret' = ret + r.ret
      /\ written' = IF r.ret = 0 THEN written ELSE written \cup {next}
      /\ ends' = ends \cup {Len(r.stream.data)}
      /\ next' = next + 1
      /\ UNCHANGED <<fields, writer, reader, stage, result>>

\* push sends the first ret bytes of its buffer, and take deserializes them.
Transmit(b) ==
  /\ stage = "serialize"
  /\ next > Len(fields)
  /\ stage' = "deserialize"
  /\ next' = 1
  /\ stream' = ReceivedStream(SubSeq(stream.data, 1, ret), b)
  /\ ret' = 0
  /\ UNCHANGED <<fields, writer, reader, written, ends, result>>

\* The read of one field: how many bytes, and what it stores in the message.
DeserializeField(s, offset, type) ==
  CASE type = "string" -> DeserializeByteString(s, offset, s.size)
    [] type \in {"bool", "int32", "uint32"} -> DeserializeInt(s, offset)
    [] type = "int64" -> DeserializeInt64(s, offset)
    [] type = "uint64" -> DeserializeUint64(s, offset)
    [] type = "float64" -> DeserializeDouble(s, offset)
    [] OTHER -> Failed

\* Mutant of Stores: the int of a bool is copied to 32-bit integers as well.
StoresFromInt(lang, type, r) ==
  CASE type = "string" ->
         {[chars |-> r.val, size |-> n] :
            n \in IF lang = "C" THEN {r.ret} ELSE HeldSizes}
    [] type = "bool" -> IF r = Failed THEN BOOLEAN ELSE {r.val # Zeros(4)}
    [] OTHER -> {IF r = Failed THEN Zeros(4) ELSE r.val}

\* The characters of a string are copied to its data, none of them when the read
\* fails.  In C its data is allocated anew, and its size becomes what the read
\* returned, the bytes of the header included; in C++ nobody sets its size, which
\* stays the one it had.  A bool is copied from an int that nothing initializes when
\* the read fails.
Stores(lang, type, r) ==
  CASE type = "string" ->
         {[chars |-> r.val, size |-> n] :
            n \in IF lang = "C" THEN {r.ret} ELSE HeldSizes}
    [] type = "bool" -> IF r = Failed THEN BOOLEAN ELSE {r.val # Zeros(4)}
    [] OTHER -> {IF r = Failed THEN Untouched ELSE r.val}

ReadField ==
  LET type == fields[next].type
      r == DeserializeField(stream, ret, type)
  IN  /\ stage = "deserialize"
      /\ next <= Len(fields)
      /\ ret' = ret + r.ret
      /\ \E v \in Stores(reader, type, r) :
           result' = [result EXCEPT ![next] = v]
      /\ next' = next + 1
      /\ UNCHANGED <<fields, writer, reader, stage, stream, written, ends>>

\* take: the message is accepted when every byte was read.
Finish ==
  /\ stage = "deserialize"
  /\ next > Len(fields)
  /\ stage' = IF ret = stream.size THEN "taken" ELSE "rejected"
  /\ UNCHANGED <<fields, writer, reader, next, stream, ret, written, ends,
                 result>>

TsNext ==
  \/ WriteField
  \/ \E b \in AfterBytes : Transmit(b)
  \/ ReadField
  \/ Finish

TsSpec == TsInit /\ [][TsNext]_tsVars

-----------------------------------------------------------------------------
\* The fields written are the first ones: what was skipped is at the end.
PrefixWritten == \E n \in 0..Len(fields) : written = 1..n

\* A message of which only a last part was skipped, or nothing, is accepted: the
\* reads of what is missing find the end of the buffer and count for nothing,
\* whatever follows the buffer in memory.
PrefixTaken == PrefixWritten => stage # "rejected"

\* The fields of such a message are received as they were sent, between
\* typesupports of either language: numbers of any sign and size, unsigned ones
\* through the signed encoding.  Of a string that is true of the characters in its
\* data only, never of its size: in C that is too large by the head of the item, and
\* in C++ it is the one the std::string had before, so that size() and the strings
\* assigned from it do not have the characters that data() has.
PrefixFaithful ==
  (stage = "taken" /\ PrefixWritten) =>
    \A k \in written :
      IF fields[k].type = "string"
        THEN /\ result[k].chars = fields[k].val
             /\ IF reader = "C" THEN result[k].size > Len(fields[k].val)
                               ELSE result[k].size \in HeldSizes
        ELSE result[k] = fields[k].val

\* What serialize returns is what it wrote: push sends neither less nor bytes of
\* malloc that nobody wrote.  The reads stand at the start or the end of an item,
\* whatever was skipped and in whichever language: a message that lost a field in
\* the middle, as a C++ message loses every bool, may be received with values
\* exchanged between fields, but never with a value made of parts of two.
StaysOnItems ==
  IF stage = "serialize" THEN ret = Len(stream.data) /\ ret <= BufferSize
                         ELSE ret \in ends

\* What is missing at the end of a message leaves the fields of the receiver as
\* they were, with three exceptions.  A bool may become either value.  A C string is
\* emptied, as no character is copied and its size becomes 0, while a std::string
\* keeps its size.  And the reads of 64-bit integers store a value they did not find,
\* when the byte behind the buffer looks like the head of an integer: 0, or -1 for an
\* int64 and a byte that announces a negative number.
SkippedUntouched ==
  (stage = "taken" /\ PrefixWritten) =>
    \A k \in DOMAIN result \ written :
      CASE fields[k].type = "string" ->
             /\ result[k].chars = <<>>
             /\ IF reader = "C" THEN result[k].size = 0
                               ELSE result[k].size \in HeldSizes
        [] fields[k].type = "bool" -> result[k] \in BOOLEAN
        [] fields[k].type = "int64" ->
             result[k] \in {Untouched, Zeros(8), Complement(Zeros(8))}
        [] fields[k].type = "uint64" -> result[k] \in {Untouched, Zeros(8)}
        [] OTHER -> result[k] = Untouched

\* A C string that was received can be sent on: the size it is left with, which
\* counts the head of the item, covers its characters and stays within the
\* allocation of stream.size bytes that holds them.
RelayWithinAllocation ==
  \A k \in DOMAIN result :
    (reader = "C" /\ fields[k].type = "string" /\ result[k] # Untouched) =>
      /\ result[k].size <= stream.size
      /\ result[k].size > 0 => Len(result[k].chars) <= result[k].size
=============================================================================
