------------------------- MODULE TypesupportProofs -------------------------
(***************************************************************************)
(* Proofs about Typesupport, for every message, of any number of fields,   *)
(* and every size of the buffer.                                           *)
(***************************************************************************)
EXTENDS Typesupport, CborProofs

-----------------------------------------------------------------------------
(* The item of a field. *)

Integers32 == {"int32", "uint32"}
IntegerTypes == Integers32 \cup {"bool", "int64", "uint64"}

\* The fields that are serialized: the C++ template has no case for bool.
Encodable(lang, f) ==
  f.type \in {"string", "float64"} \cup (IntegerTypes \ {"bool"})
    \/ (f.type = "bool" /\ lang = "C")

MajorOf(f) ==
  IF f.type \in Integers32 \cup {"int64"} /\ IsNegative(f.val) THEN NEGINT ELSE UINT

NumberOf(f) ==
  CASE f.type = "bool" -> Widen(AsInt(f.val))
    [] f.type = "uint64" -> f.val
    [] f.type \in Integers32 \cup {"int64"} ->
         IF IsNegative(f.val) THEN Widen(Complement(f.val)) ELSE Widen(f.val)

ItemOf(f) ==
  CASE f.type = "string" -> StringItem(BYTES, f.val)
    [] f.type = "float64" -> Marked(FLOAT64, f.val)
    [] f.type \in IntegerTypes -> IntBytes(MajorOf(f), NumberOf(f))

\* A field is either skipped or written whole.
LEMMA SerializeIs ==
  ASSUME NEW lang \in {"C", "C++"}, NEW f, WellTyped(f), NEW s, s.data \in Seq(Nat)
  PROVE  SerializeField(lang, s, f) = IF Encodable(lang, f) THEN Write(s, ItemOf(f))
                                      ELSE Refused(s)
<1>1. CASE f.type = "string"
  <2>1. f.val \in Seq(Byte) /\ Len(f.val) < 65536
    BY <1>1 DEF WellTyped
  <2>2. EncodeBytes(BYTES, s, f.val) = Write(s, StringItem(BYTES, f.val))
    BY <2>1, EncodeBytesIs
  <2>3. ItemOf(f) = StringItem(BYTES, f.val)
    BY <1>1 DEF ItemOf, IntegerTypes, Integers32
  <2>4. SerializeField(lang, s, f) = EncodeBytes(BYTES, s, f.val)
    BY <1>1 DEF SerializeField, SerializeByteString
  <2> QED
    BY <1>1, <2>2, <2>3, <2>4 DEF Encodable
<1>2. CASE f.type = "bool"
  <2>1. ~IsNegative(AsInt(f.val))
    BY DEF IsNegative, AsInt
  <2>2. ItemOf(f) = IntBytes(UINT, Widen(AsInt(f.val)))
    BY <1>2 DEF ItemOf, MajorOf, NumberOf, IntegerTypes, Integers32
  <2>3. Encodable(lang, f) <=> lang = "C"
    BY <1>2 DEF Encodable, IntegerTypes, Integers32
  <2>4. SerializeField(lang, s, f) =
          IF lang = "C" THEN SerializeInt(s, AsInt(f.val)) ELSE Refused(s)
    BY <1>2 DEF SerializeField
  <2>5. SerializeInt(s, AsInt(f.val)) = Write(s, ItemOf(f))
    BY <2>1, <2>2 DEF SerializeInt, EncodeInt
  <2> QED
    BY <2>3, <2>4, <2>5
<1>3. CASE f.type \in Integers32 \cup {"int64"}
  <2>1. ItemOf(f) = IF IsNegative(f.val) THEN IntBytes(NEGINT, Widen(Complement(f.val)))
                    ELSE IntBytes(UINT, Widen(f.val))
    BY <1>3 DEF ItemOf, MajorOf, NumberOf, IntegerTypes, Integers32
  <2>2. SerializeField(lang, s, f) = SerializeInt(s, f.val) /\ Encodable(lang, f)
    BY <1>3 DEF SerializeField, Encodable, IntegerTypes, Integers32
  <2> QED
    BY <2>1, <2>2 DEF SerializeInt, EncodeInt
<1>4. CASE f.type = "uint64"
  <2>1. ItemOf(f) = IntBytes(UINT, f.val)
    BY <1>4 DEF ItemOf, MajorOf, NumberOf, IntegerTypes, Integers32
  <2>2. SerializeField(lang, s, f) = SerializeUint64(s, f.val) /\ Encodable(lang, f)
    BY <1>4 DEF SerializeField, Encodable, IntegerTypes, Integers32
  <2> QED
    BY <2>1, <2>2 DEF SerializeUint64, EncodeInt
<1>5. CASE f.type = "float64"
  <2>1. ItemOf(f) = Marked(FLOAT64, f.val)
    BY <1>5 DEF ItemOf, IntegerTypes, Integers32
  <2>2. SerializeField(lang, s, f) = SerializeDouble(s, f.val) /\ Encodable(lang, f)
    BY <1>5 DEF SerializeField, Encodable
  <2> QED
    BY <2>1, <2>2 DEF SerializeDouble, Marked
<1>6. CASE f.type \notin {"string", "float64"} \cup IntegerTypes
  BY <1>6 DEF SerializeField, Encodable, IntegerTypes, Integers32
<1> QED
  BY <1>1, <1>2, <1>3, <1>4, <1>5, <1>6 DEF IntegerTypes

\* The number an integer field travels as, and that it comes back as it was.
LEMMA NumberIs ==
  ASSUME NEW f, WellTyped(f), f.type \in IntegerTypes
  PROVE  /\ MajorOf(f) \in {UINT, NEGINT} /\ NumberOf(f) \in Uint64
         /\ f.type = "bool" => Signed(MajorOf(f), NumberOf(f), 4) = AsInt(f.val)
         /\ f.type \in Integers32 => Signed(MajorOf(f), NumberOf(f), 4) = f.val
         /\ f.type = "int64" => Signed(MajorOf(f), NumberOf(f), 8) = f.val
         /\ f.type = "uint64" => MajorOf(f) = UINT /\ NumberOf(f) = f.val
<1>2. CASE f.type = "bool"
  <2>1. AsInt(f.val) \in [1..4 -> Byte]
    BY DEF AsInt, Byte
  <2>2. MajorOf(f) = UINT /\ NumberOf(f) = Widen(AsInt(f.val))
    BY <1>2 DEF MajorOf, NumberOf, Integers32
  <2> QED
    BY <1>2, <2>1, <2>2, SignedBack DEF Integers32
<1>3. CASE f.type \in Integers32
  <2>1. f.val \in [1..4 -> Byte]
    BY <1>3 DEF WellTyped, Integers32
  <2>2. /\ MajorOf(f) = IF IsNegative(f.val) THEN NEGINT ELSE UINT
        /\ NumberOf(f) = IF IsNegative(f.val) THEN Widen(Complement(f.val))
                         ELSE Widen(f.val)
    BY <1>3 DEF MajorOf, NumberOf, Integers32
  <2> QED
    BY <1>3, <2>1, <2>2, SignedBack DEF Integers32
<1>4. CASE f.type = "int64"
  <2>1. f.val \in [1..8 -> Byte]
    BY <1>4 DEF WellTyped, Uint64
  <2>2. /\ MajorOf(f) = IF IsNegative(f.val) THEN NEGINT ELSE UINT
        /\ NumberOf(f) = IF IsNegative(f.val) THEN Widen(Complement(f.val))
                         ELSE Widen(f.val)
    BY <1>4 DEF MajorOf, NumberOf, Integers32
  <2> QED
    BY <1>4, <2>1, <2>2, SignedBack DEF Integers32
<1>5. CASE f.type = "uint64"
  BY <1>5 DEF MajorOf, NumberOf, Integers32, WellTyped
<1> QED
  BY <1>2, <1>3, <1>4, <1>5 DEF IntegerTypes

-----------------------------------------------------------------------------
(* Reading an item as a field of any type. *)

ReadTypes == {"string", "float64"} \cup IntegerTypes

LEMMA ReadIs ==
  ASSUME NEW s, NEW offset, NEW type
  PROVE  LET r == DeserializeField(s, offset, type)
         IN  /\ type = "string" => r = DecodeBytes(BYTES, s, offset, s.size)
             /\ type \in Integers32 \cup {"bool"} => r = DeserializeInt(s, offset)
             /\ type = "int64" => r = DeserializeInt64(s, offset)
             /\ type = "uint64" => r = DeserializeUint64(s, offset)
             /\ type = "float64" => r = DeserializeDouble(s, offset)
             /\ type \notin ReadTypes => r = Failed
  BY DEF DeserializeField, DeserializeByteString, Integers32, ReadTypes, IntegerTypes

\* An item of an integer, read as a field of any type.
LEMMA NumberRead ==
  ASSUME NEW s, IsReceived(s), NEW offset, NEW type,
         NEW major \in {UINT, NEGINT}, NEW v \in Uint64,
         At(s.data, offset, IntBytes(major, v))
  PROVE  LET r == DeserializeField(s, offset, type)
             n == Len(IntBytes(major, v))
         IN  /\ type = "string" => r = Failed
             /\ type \in Integers32 \cup {"bool"} => r = Read(n, Signed(major, v, 4))
             /\ type = "int64" => r = Read(n, Signed(major, v, 8))
             /\ type = "uint64" => r = IF major = UINT THEN Read(n, v) ELSE Failed
             /\ type = "float64" => r = Failed
             /\ type \notin ReadTypes => r = Failed
<1> DEFINE n == Len(IntBytes(major, v))
           info == UintAdditionalInfo(v)
<1>1. /\ TypeAt(s, offset) = major /\ ByteAt(s, offset) = major + info
      /\ DecodeInt(s, offset) = Read(n, v)
  BY MajorTypes, HeadAt, DecodeIntAt
<1>2. info \in 0..27 /\ n \in Nat /\ n >= 1
  BY InfoIs, IntBytesSize, MajorTypes
<1>3. s.size \in Nat /\ offset \in Nat /\ offset + n <= s.size
  BY DEF At, IsReceived
<1> HIDE DEF n, info
<1>4. EnsureSizeRead(s, offset + 1)
  BY <1>2, <1>3 DEF EnsureSizeRead
<1>5. major # BYTES /\ ByteAt(s, offset) # FLOAT64
  BY <1>1, <1>2, MajorTypes
<1>6. DecodeBytes(BYTES, s, offset, s.size) = Failed
  BY <1>1, <1>5 DEF DecodeBytes
<1>7. DeserializeInt(s, offset) = Read(n, Signed(major, v, 4))
  BY <1>1, <1>2, <1>4 DEF DeserializeInt, Read
<1>8. DeserializeInt64(s, offset) = Read(n, Signed(major, v, 8))
  BY <1>1 DEF DeserializeInt64, Read
<1>9. DeserializeUint64(s, offset) = IF major = UINT THEN Read(n, v) ELSE Failed
  BY <1>1 DEF DeserializeUint64
<1>10. DeserializeDouble(s, offset) = Failed
  BY <1>5 DEF DeserializeDouble
<1> QED
  BY <1>6, <1>7, <1>8, <1>9, <1>10, ReadIs DEF n

\* An item of a string, read as a field of any type.
LEMMA StringRead ==
  ASSUME NEW s, IsReceived(s), NEW offset, NEW type,
         NEW v \in Seq(Byte), Len(v) < 65536,
         NEW item, item = StringItem(BYTES, v), At(s.data, offset, item)
  PROVE  DeserializeField(s, offset, type) =
           IF type = "string" THEN Read(Len(item), v) ELSE Failed
<1>1. /\ TypeAt(s, offset) = BYTES
      /\ ByteAt(s, offset) >= BYTES /\ ByteAt(s, offset) <= BYTES + 27
      /\ DecodeBytes(BYTES, s, offset, s.size) = Read(Len(item), v)
  BY StringAt
<1>2. /\ TypeAt(s, offset) \notin {UINT, NEGINT} /\ TypeAt(s, offset) # UINT
      /\ ByteAt(s, offset) # FLOAT64
  BY <1>1, MajorTypes
<1>3. /\ DeserializeInt(s, offset) = Failed
      /\ DeserializeInt64(s, offset) = Failed
      /\ DeserializeUint64(s, offset) = Failed
      /\ DeserializeDouble(s, offset) = Failed
  BY <1>2 DEF DeserializeInt, DeserializeInt64, DeserializeUint64, DeserializeDouble
<1>4. type = "string" => DeserializeField(s, offset, type) = Read(Len(item), v)
  BY <1>1, ReadIs
<1>5. type # "string" => DeserializeField(s, offset, type) = Failed
  BY <1>3, ReadIs DEF ReadTypes, IntegerTypes
<1> QED
  BY <1>4, <1>5

\* An item of a double, read as a field of any type.
LEMMA DoubleRead ==
  ASSUME NEW s, IsReceived(s), NEW offset, NEW type, NEW v \in Uint64,
         NEW item, item = Marked(FLOAT64, v), At(s.data, offset, item)
  PROVE  DeserializeField(s, offset, type) =
           IF type = "float64" THEN Read(Len(item), v) ELSE Failed
<1>1. ByteAt(s, offset) = 251 /\ DeserializeDouble(s, offset) = Read(Len(item), v)
  BY DoubleAt
<1>2. TypeAt(s, offset) = 224
  BY <1>1 DEF TypeAt
<1>3. /\ DeserializeInt(s, offset) = Failed
      /\ DeserializeInt64(s, offset) = Failed
      /\ DeserializeUint64(s, offset) = Failed
      /\ DecodeBytes(BYTES, s, offset, s.size) = Failed
  <2>1. TypeAt(s, offset) \notin {UINT, NEGINT} /\ TypeAt(s, offset) # BYTES
    BY <1>2, MajorTypes
  <2> QED
    BY <2>1 DEF DeserializeInt, DeserializeInt64, DeserializeUint64, DecodeBytes
<1> QED
  BY <1>1, <1>3, ReadIs DEF ReadTypes, IntegerTypes

\* Nothing read, and a number stored nevertheless.
Ghosts(type) ==
  CASE type = "int64" -> {Zeros(8), Complement(Zeros(8))}
    [] type = "uint64" -> {Zeros(8)}
    [] OTHER -> {}

\* A read at the end of a stream finds nothing, whatever follows the stream, but
\* that of a 64-bit integer may store 0, and that of a signed one -1.
LEMMA EndRead ==
  ASSUME NEW s, IsReceived(s), NEW type, NEW offset, offset = s.size
  PROVE  LET r == DeserializeField(s, offset, type)
         IN  /\ r.ret = 0
             /\ r = Failed \/ r.val \in Ghosts(type)
<1>1. /\ s.size \in Nat /\ ~EnsureSizeRead(s, s.size + 1)
      /\ DecodeInt(s, s.size) = Read(0, Zeros(8))
  BY DecodeIntAtEnd DEF IsReceived, EnsureSizeRead
<1>2. \A v : Read(0, v).ret = 0 /\ Read(0, v).val = v
  BY DEF Read
<1>3. /\ DeserializeInt(s, s.size) = Failed
      /\ DeserializeDouble(s, s.size) = Failed
      /\ DecodeBytes(BYTES, s, s.size, s.size) = Failed
  BY <1>1 DEF DeserializeInt, DeserializeDouble, DecodeBytes
<1>4. \/ DeserializeInt64(s, s.size) = Failed
      \/ DeserializeInt64(s, s.size) = Read(0, Zeros(8))
      \/ DeserializeInt64(s, s.size) = Read(0, Complement(Zeros(8)))
  <2>1. /\ Signed(UINT, Zeros(8), 8) = Zeros(8)
        /\ UINT # NEGINT /\ Signed(NEGINT, Zeros(8), 8) = Complement(Zeros(8))
    <3>1. PICK n \in Nat : n = 8
      OBVIOUS
    <3>2. Zeros(8) \in [1..n -> Byte]
      BY <3>1 DEF Zeros, Byte
    <3> HIDE <3>1
    <3>3. Complement(Zeros(8)) \in [1..n -> Byte]
      BY <3>2, ComplementIs
    <3>4. LowBytes(Zeros(8), n) = Zeros(8)
      BY <3>2, LowBytesWhole
    <3>5. LowBytes(Complement(Zeros(8)), n) = Complement(Zeros(8))
      BY <3>3, LowBytesWhole
    <3>6. UINT # NEGINT
      BY MajorTypes
    <3> QED
      BY <3>1, <3>4, <3>5, <3>6 DEF Signed
  <2>2. TypeAt(s, s.size) \in {UINT, NEGINT} =>
          DeserializeInt64(s, s.size) = Read(0, Signed(TypeAt(s, s.size), Zeros(8), 8))
    BY <1>1, <1>2 DEF DeserializeInt64
  <2>3. TypeAt(s, s.size) \notin {UINT, NEGINT} => DeserializeInt64(s, s.size) = Failed
    BY DEF DeserializeInt64
  <2> QED
    BY <2>1, <2>2, <2>3
<1>5. DeserializeUint64(s, s.size) \in {Read(0, Zeros(8)), Failed}
  BY <1>1 DEF DeserializeUint64
<1>6. Failed.ret = 0
  BY DEF Failed
<1>7. CASE type = "int64"
  BY <1>2, <1>4, <1>6, <1>7, ReadIs DEF Ghosts
<1>8. CASE type = "uint64"
  BY <1>2, <1>5, <1>6, <1>8, ReadIs DEF Ghosts
<1>9. CASE type \notin {"int64", "uint64"}
  BY <1>3, <1>6, <1>9, ReadIs DEF ReadTypes, IntegerTypes, Integers32
<1> QED
  BY <1>7, <1>8, <1>9

LEMMA ItemSize ==
  ASSUME NEW lang, NEW f, WellTyped(f), Encodable(lang, f)
  PROVE  ItemOf(f) \in Seq(Nat) /\ Len(ItemOf(f)) \in Nat /\ Len(ItemOf(f)) >= 1
<1>3. CASE f.type = "string"
  <2>1. f.val \in Seq(Byte) /\ Len(f.val) < 65536
    BY <1>3 DEF WellTyped
  <2>2. ItemOf(f) = StringItem(BYTES, f.val)
    BY <1>3 DEF ItemOf, IntegerTypes, Integers32
  <2> QED
    BY <2>1, <2>2, StringSize
<1>4. CASE f.type = "float64"
  <2>1. f.val \in Seq(Byte) /\ FLOAT64 \in Byte
    BY <1>4, UintIsSeq, MajorTypes DEF WellTyped, Byte
  <2>2. ItemOf(f) = Marked(FLOAT64, f.val)
    BY <1>4 DEF ItemOf, IntegerTypes, Integers32
  <2> QED
    BY <2>1, <2>2, MarkedSize
<1>5. CASE f.type \in IntegerTypes
  <2>1. MajorOf(f) \in {UINT, NEGINT} /\ NumberOf(f) \in Uint64
    BY <1>5, NumberIs
  <2>2. MajorOf(f) \in Majors
    BY <2>1, MajorTypes
  <2>3. ItemOf(f) = IntBytes(MajorOf(f), NumberOf(f))
    BY <1>5 DEF ItemOf, IntegerTypes, Integers32
  <2> QED
    BY <2>1, <2>2, <2>3, IntBytesSize
<1> QED
  BY <1>3, <1>4, <1>5 DEF Encodable, IntegerTypes

\* What a field holds when it was received as it was sent; the size of a string is
\* not what it was in either language.
Faithful(lang, f, v) ==
  IF f.type = "string"
    THEN /\ v.chars = f.val
         /\ IF lang = "C" THEN v.size > Len(f.val) ELSE v.size \in HeldSizes
    ELSE v = f.val

LEMMA StoresIs ==
  ASSUME NEW lang, NEW type, NEW r
  PROVE  /\ type = "string" => \A v \in Stores(lang, type, r) :
              /\ v.chars = r.val
              /\ IF lang = "C" THEN v.size = r.ret ELSE v.size \in HeldSizes
         /\ type = "bool" /\ r = Failed => Stores(lang, type, r) = BOOLEAN
         /\ type \notin {"string", "bool"} => \A v \in Stores(lang, type, r) :
              v = IF r = Failed THEN Untouched ELSE r.val
<1>1. ASSUME type = "string", NEW v \in Stores(lang, type, r)
      PROVE  v.chars = r.val /\ IF lang = "C" THEN v.size = r.ret ELSE v.size \in HeldSizes
  <2>1. PICK n \in IF lang = "C" THEN {r.ret} ELSE HeldSizes :
          v = [chars |-> r.val, size |-> n]
    BY <1>1 DEF Stores
  <2> QED
    BY <2>1
<1>2. type = "bool" /\ r = Failed => Stores(lang, type, r) = BOOLEAN
  BY DEF Stores
<1>3. type \notin {"string", "bool"} => \A v \in Stores(lang, type, r) :
        v = IF r = Failed THEN Untouched ELSE r.val
  BY DEF Stores
<1> QED
  BY <1>1, <1>2, <1>3

\* A read at an item, as a field of any type, either passes the item or stays before
\* it; one of the type of the item passes it and stores its value.
LEMMA ItemRead ==
  ASSUME NEW s, IsReceived(s), NEW offset, NEW type, NEW writing, NEW reading,
         NEW f, WellTyped(f), Encodable(writing, f), At(s.data, offset, ItemOf(f))
  PROVE  LET r == DeserializeField(s, offset, type)
         IN  /\ r.ret \in {0, Len(ItemOf(f))}
             /\ type = f.type => /\ r.ret = Len(ItemOf(f))
                                 /\ \A v \in Stores(reading, type, r) : Faithful(reading, f, v)
             /\ type = "string" /\ r # Failed =>
                  Len(r.val) <= r.ret /\ r.ret <= s.size
<1> DEFINE r == DeserializeField(s, offset, type)
           n == Len(ItemOf(f))
<1>1. n \in Nat /\ n >= 1 /\ ItemOf(f) \in Seq(Nat)
  BY ItemSize
<1>2. offset \in Nat /\ s.size \in Nat /\ offset + n <= s.size
  BY DEF At, IsReceived
<1>3. Failed.ret = 0 /\ Failed.val = <<>>
  BY DEF Failed
<1>4. ASSUME NEW m, NEW v
      PROVE  Read(m, v).ret = m /\ Read(m, v).val = v
  BY DEF Read
<1>5. CASE f.type = "string"
  <2>1. PICK chars \in Seq(Byte) : chars = f.val /\ Len(chars) < 65536
    BY <1>5 DEF WellTyped
  <2> DEFINE item == ItemOf(f)
  <2>2. item = StringItem(BYTES, chars)
    BY <1>5, <2>1 DEF ItemOf, IntegerTypes, Integers32
  <2> HIDE DEF item
  <2>3. r = IF type = "string" THEN Read(Len(item), chars) ELSE Failed
    BY <2>1, <2>2, StringRead DEF item
  <2>4. Len(chars) \in Nat /\ Len(chars) < Len(item)
    BY <2>1, <2>2, StringSize
  <2>5. n = Len(item)
    BY DEF item
  <2> HIDE DEF r, n
  <2>6. CASE type = "string"
    <3>1. r.ret = n /\ r.val = chars /\ r # Failed
      BY <1>1, <1>3, <1>4, <2>3, <2>5, <2>6
    <3>2. \A v \in Stores(reading, type, r) :
            /\ v.chars = chars
            /\ IF reading = "C" THEN v.size = n ELSE v.size \in HeldSizes
      BY <2>6, <3>1, StoresIs
    <3>3. Len(r.val) <= r.ret /\ r.ret <= s.size
      BY <1>1, <1>2, <2>4, <2>5, <3>1
    <3>4. n > Len(chars)
      BY <1>1, <2>4, <2>5
    <3>5. \A v \in Stores(reading, type, r) : Faithful(reading, f, v)
      BY <1>5, <2>1, <3>2, <3>4 DEF Faithful
    <3> QED
      BY <3>1, <3>3, <3>5 DEF r, n
  <2>7. CASE type # "string"
    BY <1>3, <1>5, <2>3, <2>7 DEF r, n
  <2> QED
    BY <2>6, <2>7
<1>6. CASE f.type = "float64"
  <2>1. f.val \in Uint64
    BY <1>6 DEF WellTyped
  <2>2. ItemOf(f) = Marked(FLOAT64, f.val)
    BY <1>6 DEF ItemOf, IntegerTypes, Integers32
  <2>3. r = IF type = "float64" THEN Read(n, f.val) ELSE Failed
    BY <2>1, <2>2, DoubleRead
  <2> HIDE DEF r, n
  <2>4. CASE type = "float64"
    <3>1. r.ret = n /\ r.val = f.val /\ r # Failed
      BY <1>1, <1>3, <1>4, <2>3, <2>4
    <3>2. \A v \in Stores(reading, type, r) : v = f.val
      BY <2>4, <3>1 DEF Stores
    <3> QED
      BY <1>6, <2>4, <3>1, <3>2 DEF Faithful, r, n
  <2>5. CASE type # "float64"
    BY <1>3, <1>6, <2>3, <2>5 DEF r, n
  <2> QED
    BY <2>4, <2>5
<1>7. CASE f.type \in IntegerTypes
  <2> DEFINE major == MajorOf(f)
             num == NumberOf(f)
  <2>1. /\ major \in {UINT, NEGINT} /\ num \in Uint64
        /\ f.type = "bool" => Signed(major, num, 4) = AsInt(f.val)
        /\ f.type \in Integers32 => Signed(major, num, 4) = f.val
        /\ f.type = "int64" => Signed(major, num, 8) = f.val
        /\ f.type = "uint64" => major = UINT /\ num = f.val
    BY <1>7, NumberIs
  <2>2. ItemOf(f) = IntBytes(major, num)
    BY <1>7 DEF ItemOf, IntegerTypes, Integers32
  <2>3. /\ type = "string" => r = Failed
        /\ type \in Integers32 \cup {"bool"} => r = Read(n, Signed(major, num, 4))
        /\ type = "int64" => r = Read(n, Signed(major, num, 8))
        /\ type = "uint64" => r = IF major = UINT THEN Read(n, num) ELSE Failed
        /\ type = "float64" => r = Failed
        /\ type \notin ReadTypes => r = Failed
    BY <2>1, <2>2, NumberRead
  <2> HIDE DEF r, n, major, num
  <2>4. r.ret \in {0, n}
    BY <1>3, <1>4, <2>3 DEF ReadTypes, IntegerTypes
  <2>5. ASSUME type = f.type
        PROVE  /\ r.ret = n /\ r # Failed
               /\ IF type = "bool" THEN r.val = AsInt(f.val) ELSE r.val = f.val
    BY <1>1, <1>3, <1>4, <1>7, <2>1, <2>3, <2>5 DEF IntegerTypes, Integers32
  <2>6. ASSUME type = f.type, NEW v \in Stores(reading, type, r)
        PROVE  Faithful(reading, f, v)
    <3>1. CASE type = "bool"
      <4>1. f.val \in BOOLEAN /\ (f.val <=> AsInt(f.val) # Zeros(4))
        <5>1. AsInt(f.val)[4] = (IF f.val THEN 1 ELSE 0) /\ Zeros(4)[4] = 0
          BY DEF AsInt, Zeros
        <5>2. ~f.val => AsInt(f.val) = Zeros(4)
          BY DEF AsInt, Zeros
        <5> QED
          BY <2>6, <3>1, <5>1, <5>2 DEF WellTyped
      <4>2. v = (r.val # Zeros(4))
        BY <2>5, <2>6, <3>1 DEF Stores
      <4> QED
        BY <2>5, <2>6, <3>1, <4>1, <4>2 DEF Faithful
    <3>2. CASE type # "bool"
      <4>1. type # "string"
        BY <1>7, <2>6 DEF IntegerTypes, Integers32
      <4> QED
        BY <2>5, <2>6, <3>2, <4>1 DEF Stores, Faithful
    <3> QED
      BY <3>1, <3>2
  <2> QED
    BY <2>3, <2>4, <2>5, <2>6 DEF r, n
<1> QED
  BY <1>5, <1>6, <1>7 DEF Encodable, IntegerTypes

-----------------------------------------------------------------------------
(* The inductive invariant. *)

Serializing == stage = "serialize"

\* The last field that the serializer has treated.
Last == IF Serializing THEN next - 1 ELSE Len(fields)

End == Len(stream.data)

Size(k) == Len(ItemOf(fields[k]))

TsTypeOK ==
  /\ fields \in Messages /\ writer \in {"C", "C++"}
  /\ stage \in {"serialize", "deserialize", "taken", "rejected"}
  /\ next \in 1..(Len(fields) + 1)
  /\ stage \in {"taken", "rejected"} => next = Len(fields) + 1
  /\ stream.data \in Seq(Nat)
  /\ written \subseteq 1..Last
  /\ DOMAIN result = 1..Len(fields)

\* The serializer returns what it wrote, and the stream received is what was sent.
Stream ==
  IF Serializing
    THEN /\ stream = [data |-> stream.data, size |-> BufferSize]
         /\ ret = End /\ End <= BufferSize
         /\ result = [k \in 1..Len(fields) |-> Untouched]
    ELSE IsReceived(stream)

\* Every end of an item is the start of an item or the end of the stream.
OnItems ==
  /\ \A k \in written : Encodable(writer, fields[k])
  /\ 0 \in ends /\ End \in ends
  /\ \A e \in ends : e = End \/ \E k \in written :
       At(stream.data, e, ItemOf(fields[k])) /\ e + Size(k) \in ends
  /\ ~Serializing => ret \in ends

\* Where the items of the fields start; a field that was skipped has none, and starts
\* where the next one does.
Layout(start) ==
  /\ start \in [1..(Last + 1) -> Nat]
  /\ start[1] = 0 /\ start[Last + 1] = End
  /\ \A k \in 1..Last :
       IF k \in written
         THEN At(stream.data, start[k], ItemOf(fields[k])) /\ start[k + 1] = start[k] + Size(k)
         ELSE start[k + 1] = start[k]
  /\ \A k \in 1..Last : (\A j \in k..Last : j \notin written) => start[k] = End

\* A message of which only a last part was skipped is read item by item.
InStep(start) == ~Serializing /\ PrefixWritten => ret = start[next]

\* What a field that was skipped leaves in the message of the receiver.
Skipped(lang, f, v) ==
  CASE f.type = "string" ->
         /\ v.chars = <<>>
         /\ IF lang = "C" THEN v.size = 0 ELSE v.size \in HeldSizes
    [] f.type = "bool" -> v \in BOOLEAN
    [] f.type \notin {"string", "bool"} -> v \in {Untouched} \cup Ghosts(f.type)

Received ==
  ~Serializing /\ PrefixWritten =>
    /\ stage # "rejected"
    /\ \A k \in 1..(next - 1) :
         IF k \in written THEN Faithful(reader, fields[k], result[k])
                          ELSE Skipped(reader, fields[k], result[k])

TsInv ==
  /\ TsTypeOK /\ Stream /\ OnItems /\ Received /\ RelayWithinAllocation
  /\ \E start : Layout(start) /\ InStep(start)

LEMMA MessageIs ==
  ASSUME fields \in Messages
  PROVE  Len(fields) \in Nat /\ \A k \in 1..Len(fields) : WellTyped(fields[k])
BY TypesupportAssumption

LEMMA TsInvInit == TsInit => TsInv
<1> SUFFICES ASSUME TsInit PROVE TsInv
  OBVIOUS
<1> USE DEF TsInit
<1>1. Len(fields) \in Nat /\ BufferSize \in Nat /\ Languages \subseteq {"C", "C++"}
  BY MessageIs, TypesupportAssumption
<1>2. Serializing /\ Last = 0 /\ stream.data = <<>> /\ End = 0
  BY DEF Serializing, Last, End, EmptyStream
<1>3. TsTypeOK
  BY <1>1, <1>2 DEF TsTypeOK
<1>4. Stream
  BY <1>1, <1>2 DEF Stream, EmptyStream
<1>5. OnItems
  BY <1>2 DEF OnItems
<1>6. Received
  BY <1>2 DEF Received
<1>7. RelayWithinAllocation
  BY DEF RelayWithinAllocation
<1>8. \E start : Layout(start) /\ InStep(start)
  <2> DEFINE start == [k \in 1..1 |-> 0]
  <2>1. Layout(start)
    BY <1>2 DEF Layout
  <2>2. InStep(start)
    BY <1>2 DEF InStep
  <2> QED
    BY <2>1, <2>2
<1> QED
  BY <1>3, <1>4, <1>5, <1>6, <1>7, <1>8 DEF TsInv

-----------------------------------------------------------------------------
(* The serializer. *)

\* A field that is skipped leaves the stream as it was.
LEMMA FieldSkippedKeeps ==
  ASSUME TsInv, Serializing, next <= Len(fields),
         stream' = stream, ret' = ret, written' = written, ends' = ends \cup {End},
         next' = next + 1, UNCHANGED <<fields, writer, reader, stage, result>>
  PROVE  TsInv'
<1> USE DEF Serializing
<1>1. /\ Len(fields) \in Nat /\ next \in Nat /\ next >= 1
      /\ Last = next - 1 /\ Last' = next /\ End' = End /\ stream.data \in Seq(Nat)
      /\ written \subseteq 1..Last
  BY MessageIs DEF TsInv, TsTypeOK, Last, End
<1>2. TsTypeOK'
  BY <1>1 DEF TsInv, TsTypeOK
<1>3. Stream'
  BY <1>1 DEF TsInv, Stream
<1>4. OnItems'
  <2>1. ends' = ends
    BY DEF TsInv, OnItems
  <2> QED
    BY <1>1, <2>1 DEF TsInv, OnItems, Size
<1>5. Received' /\ RelayWithinAllocation'
  BY DEF TsInv, Received, RelayWithinAllocation
<1>6. PICK start : Layout(start)
  BY DEF TsInv
<1>7. PICK longer : longer = [k \in 1..(next + 1) |-> IF k <= next THEN start[k] ELSE End]
  OBVIOUS
<1>8. Layout(longer)'
  <2>1. /\ start \in [1..next -> Nat] /\ start[1] = 0 /\ start[next] = End
        /\ \A k \in 1..(next - 1) :
             IF k \in written
               THEN /\ At(stream.data, start[k], ItemOf(fields[k]))
                    /\ start[k + 1] = start[k] + Size(k)
               ELSE start[k + 1] = start[k]
        /\ \A k \in 1..(next - 1) :
             (\A j \in k..(next - 1) : j \notin written) => start[k] = End
    BY <1>1, <1>6 DEF Layout
  <2>2. /\ longer \in [1..(next + 1) -> Nat] /\ longer[next + 1] = End
        /\ \A k \in 1..next : longer[k] = start[k]
    BY <1>1, <1>7, <2>1 DEF End
  <2>3. next \notin written
    BY <1>1
  <2>4. ASSUME NEW k \in 1..next
        PROVE  IF k \in written
                 THEN /\ At(stream.data, longer[k], ItemOf(fields[k]))
                      /\ longer[k + 1] = longer[k] + Size(k)
                 ELSE longer[k + 1] = longer[k]
    <3>1. CASE k = next
      BY <1>1, <2>1, <2>2, <2>3, <3>1
    <3>2. CASE k # next
      <4>1. k \in 1..(next - 1) /\ k + 1 \in 1..next
        BY <1>1, <3>2
      <4> QED
        BY <2>1, <2>2, <4>1
    <3> QED
      BY <3>1, <3>2
  <2>5. ASSUME NEW k \in 1..next, \A j \in k..next : j \notin written
        PROVE  longer[k] = End
    <3>1. CASE k = next
      BY <1>1, <2>1, <2>2, <3>1
    <3>2. CASE k # next
      <4>1. k \in 1..(next - 1) /\ \A j \in k..(next - 1) : j \in k..next
        BY <1>1, <3>2
      <4> QED
        BY <2>1, <2>2, <2>5, <4>1
    <3> QED
      BY <3>1, <3>2
  <2>6. longer[1] = 0
    BY <1>1, <2>1, <2>2
  <2>7. /\ \A k : Size(k)' = Size(k)
        /\ stream' = stream /\ written' = written /\ fields' = fields
    BY DEF Size
  <2> QED
    BY <1>1, <2>2, <2>4, <2>5, <2>6, <2>7 DEF Layout
<1>9. InStep(longer)'
  BY DEF InStep
<1> QED
  BY <1>2, <1>3, <1>4, <1>5, <1>8, <1>9 DEF TsInv

\* A field that is written adds an item at the end.
LEMMA FieldWrittenKeeps ==
  ASSUME TsInv, Serializing, next <= Len(fields),
         Encodable(writer, fields[next]), EnsureSize(stream, Size(next)),
         stream' = [stream EXCEPT !.data = @ \o ItemOf(fields[next])],
         ret' = ret + Size(next), written' = written \cup {next},
         ends' = ends \cup {Len(stream'.data)},
         next' = next + 1, UNCHANGED <<fields, writer, reader, stage, result>>
  PROVE  TsInv'
<1> USE DEF Serializing
<1> DEFINE item == ItemOf(fields[next])
<1>1. /\ Len(fields) \in Nat /\ next \in Nat /\ next >= 1 /\ next \in 1..Len(fields)
      /\ Last = next - 1 /\ Last' = next /\ stream.data \in Seq(Nat)
      /\ End \in Nat /\ ret = End /\ written \subseteq 1..Last
      /\ stream = [data |-> stream.data, size |-> BufferSize]
  BY MessageIs DEF TsInv, TsTypeOK, Stream, Last, End
<1>2. item \in Seq(Nat) /\ Len(item) \in Nat /\ Len(item) >= 1
  <2>1. WellTyped(fields[next])
    BY <1>1, MessageIs DEF TsInv, TsTypeOK
  <2> QED
    BY <2>1, ItemSize
<1>3. /\ stream' = [data |-> stream.data \o item, size |-> BufferSize]
      /\ stream'.data = stream.data \o item /\ stream'.size = BufferSize
      /\ Size(next) = Len(item)
  <2>1. PICK data : stream = [data |-> data, size |-> BufferSize]
    BY <1>1
  <2>2. stream' = [data |-> data \o item, size |-> BufferSize]
    BY <2>1
  <2> QED
    BY <2>1, <2>2 DEF Size
<1> HIDE DEF item
<1>4. /\ stream'.data \in Seq(Nat) /\ End' = End + Len(item)
      /\ At(stream'.data, End, item)
      /\ \A e, b : At(stream.data, e, b) => At(stream'.data, e, b)
  BY <1>1, <1>2, <1>3, AtAppended DEF End
<1>5. End' <= BufferSize
  BY <1>1, <1>2, <1>3, <1>4, TypesupportAssumption DEF EnsureSize, End
<1>6. TsTypeOK'
  BY <1>1, <1>4 DEF TsInv, TsTypeOK
<1>7. Stream'
  <2>1. stream' = [data |-> stream'.data, size |-> BufferSize]
    BY <1>3
  <2>2. ret' = End'
    BY <1>1, <1>3, <1>4
  <2>3. stage' = stage /\ result' = result /\ fields' = fields
    OBVIOUS
  <2> QED
    BY <1>5, <2>1, <2>2, <2>3 DEF TsInv, Stream
<1>8. \A k : Size(k)' = Size(k)
  BY DEF Size
<1>9. OnItems'
  <2>1. \A k \in written' : Encodable(writer, fields[k])
    BY DEF TsInv, OnItems
  <2>2. End' \in ends' /\ ends' = ends \cup {End'}
    BY DEF End
  <2>3. ASSUME NEW e \in ends'
        PROVE  e = End' \/ \E k \in written' : At(stream'.data, e, ItemOf(fields[k]))
                                            /\ e + Size(k) \in ends'
    <3>1. CASE e \in ends /\ e # End
      <4>1. PICK k \in written : At(stream.data, e, ItemOf(fields[k])) /\ e + Size(k) \in ends
        BY <3>1 DEF TsInv, OnItems
      <4> QED
        BY <1>4, <2>2, <4>1
    <3>2. CASE e = End
      <4>1. At(stream'.data, e, ItemOf(fields[next])) /\ e + Size(next) \in ends'
        BY <1>3, <1>4, <2>2, <3>2 DEF item
      <4> QED
        BY <4>1
    <3> QED
      BY <2>2, <2>3, <3>1, <3>2
  <2>4. 0 \in ends' /\ Serializing'
    BY DEF TsInv, OnItems
  <2> QED
    BY <1>8, <2>1, <2>2, <2>3, <2>4 DEF OnItems
<1>10. Received'
  BY DEF TsInv, Received
<1>11. RelayWithinAllocation'
  BY <1>1 DEF TsInv, Stream, RelayWithinAllocation
<1>12. PICK start : Layout(start)
  BY DEF TsInv
<1>13. PICK longer : longer = [k \in 1..(next + 1) |-> IF k <= next THEN start[k] ELSE End']
  OBVIOUS
<1>14. Layout(longer)'
  <2>1. /\ start \in [1..next -> Nat] /\ start[1] = 0 /\ start[next] = End
        /\ \A k \in 1..(next - 1) :
             IF k \in written
               THEN /\ At(stream.data, start[k], ItemOf(fields[k]))
                    /\ start[k + 1] = start[k] + Size(k)
               ELSE start[k + 1] = start[k]
    BY <1>1, <1>12 DEF Layout
  <2>2. End' \in Nat
    BY <1>1, <1>2, <1>4
  <2>3. /\ longer \in [1..(next + 1) -> Nat] /\ longer[next + 1] = End'
        /\ \A k \in 1..next : longer[k] = start[k]
    BY <1>1, <1>13, <2>1, <2>2
  <2>4. ASSUME NEW k \in 1..next
        PROVE  IF k \in written'
                 THEN /\ At(stream'.data, longer[k], ItemOf(fields[k]))
                      /\ longer[k + 1] = longer[k] + Size(k)
                 ELSE longer[k + 1] = longer[k]
    <3>1. CASE k = next
      <4>1. longer[k] = End /\ longer[k + 1] = End + Size(k)
        BY <1>1, <1>3, <1>4, <2>1, <2>3, <3>1
      <4>2. At(stream'.data, End, ItemOf(fields[k]))
        BY <1>4, <3>1 DEF item
      <4> QED
        BY <3>1, <4>1, <4>2
    <3>2. CASE k # next
      <4>1. k \in 1..(next - 1) /\ k + 1 \in 1..next /\ (k \in written' <=> k \in written)
        BY <1>1, <3>2
      <4> QED
        BY <1>4, <2>1, <2>3, <4>1
    <3> QED
      BY <3>1, <3>2
  <2>5. ASSUME NEW k \in 1..next, \A j \in k..next : j \notin written'
        PROVE  longer[k] = End'
    <3>1. next \in k..next /\ next \in written'
      BY <1>1
    <3> QED
      BY <2>5, <3>1
  <2>6. longer[1] = 0
    <3>1. 1 \in 1..next
      BY <1>1
    <3> QED
      BY <2>1, <2>3, <3>1
  <2>7. fields' = fields
    OBVIOUS
  <2> QED
    BY <1>1, <1>8, <2>3, <2>4, <2>5, <2>6, <2>7 DEF Layout
<1>15. InStep(longer)'
  BY DEF InStep
<1> QED
  BY <1>6, <1>7, <1>9, <1>10, <1>11, <1>14, <1>15 DEF TsInv

LEMMA WriteFieldKeeps ==
  ASSUME TsInv, WriteField
  PROVE  TsInv'
<1> DEFINE r == SerializeField(writer, stream, fields[next])
<1>1. /\ Serializing /\ next <= Len(fields) /\ next' = next + 1
      /\ stream' = r.stream /\ ret' = ret + r.ret
      /\ written' = (IF r.ret = 0 THEN written ELSE written \cup {next})
      /\ ends' = ends \cup {Len(r.stream.data)}
      /\ UNCHANGED <<fields, writer, reader, stage, result>>
  BY DEF WriteField, Serializing
<1>2. /\ WellTyped(fields[next]) /\ stream.data \in Seq(Nat) /\ writer \in {"C", "C++"}
      /\ ret \in Nat
  BY <1>1, MessageIs DEF TsInv, TsTypeOK, Stream, End
<1>3. r = IF Encodable(writer, fields[next]) THEN Write(stream, ItemOf(fields[next]))
          ELSE Refused(stream)
  BY <1>2, SerializeIs
<1> HIDE DEF r
<1>4. CASE r = Refused(stream)
  <2>1. r.ret = 0 /\ r.stream = stream
    BY <1>4 DEF Refused
  <2> QED
    BY <1>1, <1>2, <2>1, FieldSkippedKeeps DEF End
<1>5. CASE r # Refused(stream)
  <2>1. /\ Encodable(writer, fields[next]) /\ EnsureSize(stream, Size(next))
        /\ r = [ret |-> Size(next),
                stream |-> [stream EXCEPT !.data = @ \o ItemOf(fields[next])]]
    BY <1>3, <1>5 DEF Write, Size
  <2>2. Size(next) # 0
    BY <1>2, <2>1, ItemSize DEF Size
  <2>3. r.ret = Size(next)
        /\ r.stream = [stream EXCEPT !.data = @ \o ItemOf(fields[next])]
    BY <2>1
  <2> QED
    BY <1>1, <2>1, <2>2, <2>3, FieldWrittenKeeps
<1> QED
  BY <1>4, <1>5

-----------------------------------------------------------------------------
(* The deserializer. *)

\* What is received is the whole of what was written.
LEMMA TransmitKeeps ==
  ASSUME TsInv, NEW b \in AfterBytes, Transmit(b)
  PROVE  TsInv'
<1>1. /\ stage = "serialize" /\ next > Len(fields) /\ stage' = "deserialize" /\ next' = 1
      /\ stream' = ReceivedStream(SubSeq(stream.data, 1, ret), b) /\ ret' = 0
      /\ UNCHANGED <<fields, writer, reader, written, ends, result>>
  BY DEF Transmit
<1>2. /\ Len(fields) \in Nat /\ next = Len(fields) + 1 /\ ret = Len(stream.data)
      /\ stream.data \in Seq(Nat)
  BY <1>1, MessageIs DEF TsInv, TsTypeOK, Stream, Serializing, End
<1>3. SubSeq(stream.data, 1, ret) = stream.data
  <2>1. At(stream.data, 0, stream.data)
    BY <1>2 DEF At
  <2>2. SubSeq(stream.data, 0 + 1, 0 + Len(stream.data)) = stream.data
    BY <1>2, <2>1, SliceAt
  <2>3. 0 + 1 = 1 /\ 0 + Len(stream.data) = ret
    BY <1>2
  <2> QED
    BY <2>2, <2>3
<1>4. stream'.data = stream.data /\ stream'.size = Len(stream.data) /\ stream'.after = b
  BY <1>1, <1>3 DEF ReceivedStream
<1>5. /\ Serializing /\ ~Serializing' /\ Last = Len(fields) /\ Last' = Len(fields)
      /\ End' = End /\ \A k : Size(k)' = Size(k)
  BY <1>1, <1>2, <1>4 DEF Serializing, Last, End, Size
<1>6. TsTypeOK'
  BY <1>1, <1>2, <1>4, <1>5 DEF TsInv, TsTypeOK
<1>7. Stream'
  BY <1>2, <1>4, <1>5 DEF Stream, IsReceived
<1>8. PICK start : Layout(start)
  BY DEF TsInv
<1>9. Layout(start)'
  BY <1>1, <1>4, <1>5, <1>8 DEF Layout
<1>10. InStep(start)'
  BY <1>1, <1>8 DEF InStep, Layout
<1>11. OnItems'
  <2>1. 0 \in ends
    BY DEF TsInv, OnItems
  <2> QED
    BY <1>1, <1>4, <1>5, <2>1 DEF TsInv, OnItems
<1>12. Received'
  <2>1. \A k \in 1..(next' - 1) : FALSE
    BY <1>1
  <2> QED
    BY <1>1, <2>1 DEF Received
<1>13. RelayWithinAllocation'
  BY <1>1, <1>2, <1>5 DEF TsInv, Stream, RelayWithinAllocation
<1> QED
  BY <1>6, <1>7, <1>9, <1>10, <1>11, <1>12, <1>13 DEF TsInv

\* A read at the end of the stream, and what it stores.
LEMMA ReadAtEnd ==
  ASSUME NEW s, IsReceived(s), NEW f, NEW lang, NEW offset, offset = s.size,
         NEW r, r = DeserializeField(s, offset, f.type)
  PROVE  /\ r.ret = 0
         /\ f.type = "string" => r = Failed
         /\ \A v \in Stores(lang, f.type, r) : Skipped(lang, f, v)
<1>1. r.ret = 0 /\ (r = Failed \/ r.val \in Ghosts(f.type))
  BY EndRead
<1>2. f.type \notin {"int64", "uint64"} => r = Failed
  <2>1. f.type \notin {"int64", "uint64"} => Ghosts(f.type) = {}
    BY DEF Ghosts
  <2> QED
    BY <1>1, <2>1
<1>3. ASSUME NEW v \in Stores(lang, f.type, r)
      PROVE  Skipped(lang, f, v)
  <2>1. CASE f.type = "string"
    <3>1. r = Failed /\ r.ret = 0 /\ Failed.val = <<>>
      BY <1>1, <1>2, <2>1 DEF Failed
    <3> QED
      BY <1>3, <2>1, <3>1, StoresIs DEF Skipped
  <2>2. CASE f.type = "bool"
    <3>1. r = Failed
      BY <1>2, <2>2
    <3>2. v \in BOOLEAN
      BY <1>3, <2>2, <3>1, StoresIs
    <3> QED
      BY <2>2, <3>2 DEF Skipped
  <2>3. CASE f.type \notin {"string", "bool"}
    <3>1. v = IF r = Failed THEN Untouched ELSE r.val
      BY <1>3, <2>3, StoresIs
    <3> QED
      BY <1>1, <2>3, <3>1 DEF Skipped
  <2> QED
    BY <2>1, <2>2, <2>3
<1> QED
  BY <1>1, <1>2, <1>3

LEMMA ReadFieldKeeps ==
  ASSUME TsInv, ReadField
  PROVE  TsInv'
<1> PICK f : f = fields[next]
  OBVIOUS
<1>a. PICK r : r = DeserializeField(stream, ret, f.type)
  OBVIOUS
<1>1. /\ stage = "deserialize" /\ next <= Len(fields) /\ ret' = ret + r.ret /\ next' = next + 1
      /\ UNCHANGED <<fields, writer, reader, stage, stream, written, ends>>
  BY <1>a DEF ReadField
<1>2. PICK v \in Stores(reader, f.type, r) : result' = [result EXCEPT ![next] = v]
  BY <1>a DEF ReadField
<1>3. /\ Len(fields) \in Nat /\ next \in 1..Len(fields) /\ DOMAIN result = 1..Len(fields)
      /\ ~Serializing /\ ~Serializing' /\ Last = Len(fields) /\ Last' = Len(fields)
      /\ End' = End /\ \A k : Size(k)' = Size(k)
  BY <1>1, MessageIs DEF TsInv, TsTypeOK, Serializing, Last, End, Size
<1>4. /\ IsReceived(stream) /\ stream.size = End
      /\ stream.data \in Seq(Nat) /\ ret \in ends
  BY <1>3 DEF TsInv, Stream, OnItems, IsReceived, End
<1>5. \A k \in 1..Len(fields) : WellTyped(fields[k])
  BY MessageIs DEF TsInv, TsTypeOK
<1>6. written \subseteq 1..Len(fields) /\ \A k \in written : Encodable(writer, fields[k])
  BY <1>3 DEF TsInv, TsTypeOK, OnItems
<1>7. ret = End => r.ret = 0 /\ Skipped(reader, f, v) /\ (f.type = "string" => r = Failed)
  <2>1. ret = End => ret = stream.size
    BY <1>4
  <2> QED
    BY <1>a, <1>2, <1>4, <2>1, ReadAtEnd
<1>8. ASSUME NEW k \in written, At(stream.data, ret, ItemOf(fields[k]))
      PROVE  /\ r.ret \in {0, Size(k)}
             /\ k = next => r.ret = Size(k) /\ Faithful(reader, f, v)
             /\ f.type = "string" /\ r # Failed =>
                  Len(r.val) <= r.ret /\ r.ret <= stream.size
  BY <1>a, <1>2, <1>4, <1>5, <1>6, <1>8, ItemRead DEF Size
<1>9. TsTypeOK'
  <2>1. next' \in 1..(Len(fields) + 1) /\ stage' = "deserialize"
    BY <1>1, <1>3
  <2>2. DOMAIN result' = 1..Len(fields)
    BY <1>2, <1>3
  <2> QED
    BY <1>1, <1>3, <2>1, <2>2 DEF TsInv, TsTypeOK
<1>10. Stream'
  BY <1>1, <1>3 DEF TsInv, Stream
<1>11. OnItems'
  <2>1. ret' \in ends
    <3>1. CASE ret = End
      BY <1>1, <1>4, <1>7, <3>1 DEF IsReceived, End
    <3>2. CASE ret # End
      <4>1. PICK k \in written : At(stream.data, ret, ItemOf(fields[k])) /\ ret + Size(k) \in ends
        BY <1>4, <3>2 DEF TsInv, OnItems
      <4>2. r.ret \in {0, Size(k)} /\ ret \in Nat
        BY <1>8, <4>1 DEF At
      <4> QED
        BY <1>1, <1>4, <4>1, <4>2
    <3> QED
      BY <3>1, <3>2
  <2> QED
    BY <1>1, <1>3, <2>1 DEF TsInv, OnItems
<1>12. RelayWithinAllocation'
  <2>1. ASSUME reader = "C", f.type = "string"
        PROVE  v.size <= stream.size /\ (v.size > 0 => Len(v.chars) <= v.size)
    <3>1. v.chars = r.val /\ v.size = r.ret
      BY <1>2, <2>1, StoresIs
    <3>2. stream.size \in Nat
      BY <1>4, ReceivedSize
    <3>3. CASE r = Failed
      BY <3>1, <3>2, <3>3 DEF Failed
    <3>4. CASE r # Failed
      <4>1. ret # End
        BY <1>7, <2>1, <3>4
      <4>2. PICK k \in written : At(stream.data, ret, ItemOf(fields[k]))
        BY <1>4, <4>1 DEF TsInv, OnItems
      <4> QED
        BY <1>8, <2>1, <3>1, <3>4, <4>2
    <3> QED
      BY <3>3, <3>4
  <2> QED
    BY <1>1, <1>2, <1>3, <2>1 DEF TsInv, RelayWithinAllocation
<1>13. PICK start : Layout(start) /\ InStep(start)
  BY DEF TsInv
<1>14. Layout(start)'
  BY <1>1, <1>3, <1>13 DEF Layout
<1>15. ASSUME PrefixWritten
       PROVE  /\ ret' = start[next + 1]
              /\ IF next \in written THEN Faithful(reader, f, v) ELSE Skipped(reader, f, v)
  <2>1. ret = start[next]
    BY <1>3, <1>13, <1>15 DEF InStep
  <2>2. CASE next \in written
    <3>1. /\ At(stream.data, ret, ItemOf(fields[next]))
          /\ start[next + 1] = start[next] + Size(next)
      BY <1>3, <1>13, <2>1, <2>2 DEF Layout
    <3>2. r.ret = Size(next) /\ Faithful(reader, f, v)
      BY <1>8, <2>2, <3>1
    <3> QED
      BY <1>1, <2>1, <2>2, <3>1, <3>2
  <2>3. CASE next \notin written
    <3>1. \A j \in next..Last : j \notin written
      <4>1. PICK n \in 0..Len(fields) : written = 1..n
        BY <1>15 DEF PrefixWritten
      <4> QED
        BY <1>3, <2>3, <4>1
    <3>2. start[next] = End /\ start[next + 1] = start[next]
      BY <1>3, <1>13, <2>3, <3>1 DEF Layout
    <3>3. r.ret = 0 /\ Skipped(reader, f, v) /\ ret \in Nat
      BY <1>4, <1>7, <2>1, <3>2 DEF IsReceived, End
    <3> QED
      BY <1>1, <2>1, <2>3, <3>2, <3>3
  <2> QED
    BY <2>2, <2>3
<1>16. PrefixWritten' <=> PrefixWritten
  BY <1>1 DEF PrefixWritten
<1>17. InStep(start)'
  BY <1>1, <1>15, <1>16 DEF InStep
<1>18. Received'
  <2>1. ASSUME PrefixWritten, NEW k \in 1..next
        PROVE  IF k \in written THEN Faithful(reader, fields[k], result'[k])
                                ELSE Skipped(reader, fields[k], result'[k])
    <3>1. CASE k = next
      BY <1>2, <1>3, <1>15, <2>1, <3>1
    <3>2. CASE k # next
      <4>1. k \in 1..(next - 1) /\ result'[k] = result[k]
        BY <1>2, <1>3, <3>2
      <4> QED
        BY <1>3, <2>1, <4>1 DEF TsInv, Received
    <3> QED
      BY <3>1, <3>2
  <2>2. next' - 1 = next /\ stage' # "rejected"
    BY <1>1, <1>3
  <2> QED
    BY <1>1, <1>16, <2>1, <2>2 DEF Received
<1> QED
  BY <1>9, <1>10, <1>11, <1>12, <1>14, <1>17, <1>18 DEF TsInv

\* A message whose written fields are the first ones was read to its last byte.
LEMMA FinishKeeps ==
  ASSUME TsInv, Finish
  PROVE  TsInv'
<1>1. /\ stage = "deserialize" /\ next > Len(fields)
      /\ stage' = IF ret = stream.size THEN "taken" ELSE "rejected"
      /\ UNCHANGED <<fields, writer, reader, next, stream, ret, written, ends, result>>
  BY DEF Finish
<1>2. /\ Len(fields) \in Nat /\ next = Len(fields) + 1
      /\ ~Serializing /\ ~Serializing' /\ Last = Len(fields) /\ Last' = Last
      /\ End' = End /\ (\A k : Size(k)' = Size(k)) /\ (PrefixWritten' <=> PrefixWritten)
  BY <1>1, MessageIs DEF TsInv, TsTypeOK, Serializing, Last, End, Size, PrefixWritten
<1>3. IsReceived(stream) /\ stream.size = End
  BY <1>2 DEF TsInv, Stream, IsReceived, End
<1>4. TsTypeOK'
  BY <1>1, <1>2 DEF TsInv, TsTypeOK
<1>5. Stream'
  BY <1>1, <1>2, <1>3 DEF Stream
<1>6. OnItems'
  BY <1>1, <1>2 DEF TsInv, OnItems
<1>7. PICK start : Layout(start) /\ InStep(start)
  BY DEF TsInv
<1>8. Layout(start)'
  BY <1>1, <1>2, <1>7 DEF Layout
<1>9. InStep(start)'
  BY <1>1, <1>2, <1>7 DEF InStep
<1>10. Received'
  <2>1. PrefixWritten => stage' = "taken"
    <3>1. PrefixWritten => ret = End
      BY <1>2, <1>7 DEF InStep, Layout
    <3> QED
      BY <1>1, <1>3, <3>1
  <2> QED
    BY <1>1, <1>2, <2>1 DEF TsInv, Received
<1>11. RelayWithinAllocation'
  BY <1>1 DEF TsInv, RelayWithinAllocation
<1> QED
  BY <1>4, <1>5, <1>6, <1>8, <1>9, <1>10, <1>11 DEF TsInv

LEMMA TsInvStep == TsInv /\ [TsNext]_tsVars => TsInv'
<1> SUFFICES ASSUME TsInv, [TsNext]_tsVars PROVE TsInv'
  OBVIOUS
<1>1. CASE WriteField
  BY <1>1, WriteFieldKeeps
<1>2. ASSUME NEW b \in AfterBytes, Transmit(b)
      PROVE  TsInv'
  BY <1>2, TransmitKeeps
<1>3. CASE ReadField
  BY <1>3, ReadFieldKeeps
<1>4. CASE Finish
  BY <1>4, FinishKeeps
<1>5. CASE UNCHANGED tsVars
  <2>1. UNCHANGED <<fields, writer, reader, stage, next, stream, ret, written, ends, result>>
    BY <1>5 DEF tsVars
  <2>2. /\ Last' = Last /\ End' = End /\ (Serializing' <=> Serializing)
        /\ (\A k : Size(k)' = Size(k)) /\ (PrefixWritten' <=> PrefixWritten)
    BY <2>1 DEF Last, End, Serializing, Size, PrefixWritten
  <2>3. TsTypeOK' /\ Stream' /\ OnItems'
    BY <2>1, <2>2 DEF TsInv, TsTypeOK, Stream, OnItems
  <2>4. Received' /\ RelayWithinAllocation'
    BY <2>1, <2>2 DEF TsInv, Received, RelayWithinAllocation
  <2>5. PICK start : Layout(start) /\ InStep(start)
    BY DEF TsInv
  <2>6. Layout(start)' /\ InStep(start)'
    BY <2>1, <2>2, <2>5 DEF Layout, InStep
  <2> QED
    BY <2>3, <2>4, <2>6 DEF TsInv
<1> QED
  BY <1>1, <1>2, <1>3, <1>4, <1>5 DEF TsNext

LEMMA TsInvHolds == TsSpec => []TsInv
BY TsInvInit, TsInvStep, PTL DEF TsSpec

-----------------------------------------------------------------------------
(* The properties, for every message, buffer size and pair of languages. *)

\* A message that lost only fields at its end, because the buffer was full or because
\* the template of the writer has no case for their types, is never refused by take:
\* the reads add up to the size received, whatever bytes follow the buffer.
THEOREM PrefixTakenCorrect == TsSpec => []PrefixTaken
<1>1. TsInv => PrefixTaken
  BY DEF TsInv, Received, PrefixTaken, Serializing
<1> QED
  BY <1>1, TsInvHolds, PTL

\* The numbers of such a message arrive as they were sent, and so do the characters of
\* its strings, from either language to either: the functions of cbor.c invert each
\* other on the values of the types the templates give them.  The strings themselves
\* do not arrive: in C the size is too large, as it counts the head of the item, and in
\* C++ it is one the std::string had before.
THEOREM PrefixFaithfulCorrect == TsSpec => []PrefixFaithful
<1>1. TsInv => PrefixFaithful
  <2> SUFFICES ASSUME TsInv, stage = "taken", PrefixWritten, NEW k \in written
               PROVE  Faithful(reader, fields[k], result[k])
    BY DEF PrefixFaithful, Faithful
  <2>1. k \in 1..(next - 1)
    BY MessageIs DEF TsInv, TsTypeOK, Serializing, Last
  <2> QED
    BY <2>1 DEF TsInv, Received, Serializing
<1> QED
  BY <1>1, TsInvHolds, PTL

\* serialize returns the number of bytes it wrote, which the buffer holds, and the
\* reads of deserialize never stand inside an item, whichever fields were skipped.
THEOREM StaysOnItemsCorrect == TsSpec => []StaysOnItems
<1>1. TsInv => StaysOnItems
  BY DEF TsInv, Stream, OnItems, StaysOnItems, Serializing, End
<1> QED
  BY <1>1, TsInvHolds, PTL

\* What is missing at the end leaves the receiver's field as it was, whatever byte
\* follows the buffer, with these exceptions: a bool is copied from an int that is not
\* initialized, a C string is emptied, a missing int64 may become 0 or -1 and a missing
\* uint64 may become 0.
THEOREM SkippedUntouchedCorrect == TsSpec => []SkippedUntouched
<1>1. TsInv => SkippedUntouched
  <2>1. ASSUME TsInv, stage = "taken", PrefixWritten, NEW k \in DOMAIN result \ written
        PROVE  Skipped(reader, fields[k], result[k])
    <3>1. k \in 1..(next - 1)
      BY <2>1, MessageIs DEF TsInv, TsTypeOK, Serializing
    <3> QED
      BY <2>1, <3>1 DEF TsInv, Received, Serializing
  <2> QED
    BY <2>1 DEF SkippedUntouched, Skipped, Ghosts
<1> QED
  BY <1>1, TsInvHolds, PTL

\* The size a C string is left with, which counts the head of the item, stays within
\* the allocation and covers the characters, whichever field its bytes came from.
THEOREM RelayCorrect == TsSpec => []RelayWithinAllocation
<1>1. TsInv => RelayWithinAllocation
  BY DEF TsInv
<1> QED
  BY <1>1, TsInvHolds, PTL
=============================================================================
