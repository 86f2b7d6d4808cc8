----------------------------- MODULE CborProofs -----------------------------
(***************************************************************************)
(* Facts about Cbor that the proofs about its users need, for every value, *)
(* every string and every stream: what a serializer writes, a deserializer *)
(* of the same kind reads at that offset, and how many bytes it was.       *)
(***************************************************************************)
EXTENDS Cbor, TLAPS

-----------------------------------------------------------------------------
(* Sequences. *)

LEMMA ElementsIn ==
  ASSUME NEW S, NEW T, NEW q \in Seq(S), \A j \in 1..Len(q) : q[j] \in T
  PROVE  q \in [1..Len(q) -> T] /\ q \in Seq(T)
  OBVIOUS

LEMMA SequenceIsFunction == ASSUME NEW S, NEW q \in Seq(S) PROVE q \in [1..Len(q) -> S]
  OBVIOUS

LEMMA FunctionIsSequence ==
  ASSUME NEW S, NEW w \in Nat, NEW v \in [1..w -> S]
  PROVE  v \in Seq(S) /\ Len(v) = w
  OBVIOUS

LEMMA SequencesEqual ==
  ASSUME NEW S, NEW u \in Seq(S), NEW v \in Seq(S), Len(u) = Len(v),
         \A j \in 1..Len(v) : u[j] = v[j]
  PROVE  u = v
<1>1. u \in [1..Len(v) -> S] /\ v \in [1..Len(v) -> S]
  BY SequenceIsFunction
<1> QED
  BY <1>1

LEMMA ConcatIs ==
  ASSUME NEW S, NEW p \in Seq(S), NEW q \in Seq(S), NEW u, u = p \o q
  PROVE  /\ u \in Seq(S) /\ Len(u) = Len(p) + Len(q)
         /\ \A k \in 1..Len(p) : u[k] = p[k]
         /\ \A k \in 1..Len(q) : u[Len(p) + k] = q[k]
  OBVIOUS

LEMMA BytesAreNumbers == \A b \in Seq(Byte) : b \in Seq(Nat)
<1> SUFFICES ASSUME NEW b \in Seq(Byte) PROVE b \in Seq(Nat)
  OBVIOUS
<1>1. \A j \in 1..Len(b) : b[j] \in Byte
  OBVIOUS
<1>2. \A x \in Byte : x \in Nat
  BY DEF Byte
<1>3. \A j \in 1..Len(b) : b[j] \in Nat
  BY <1>1, <1>2
<1> QED
  BY <1>3, ElementsIn

-----------------------------------------------------------------------------
(* Bytes at an offset of a stream. *)

\* The bytes at an offset of a stream.
At(data, offset, bytes) ==
  /\ offset \in Nat
  /\ offset + Len(bytes) <= Len(data)
  /\ \A j \in 1..Len(bytes) : data[offset + j] = bytes[j]

LEMMA BytesRead ==
  ASSUME NEW data \in Seq(Nat), NEW offset \in Nat, NEW n \in Nat,
         offset + n <= Len(data)
  PROVE  LET read == SubSeq(data, offset + 1, offset + n)
         IN  /\ read \in Seq(Nat) /\ Len(read) = n
             /\ \A j \in 1..n : read[j] = data[offset + j]
  OBVIOUS

LEMMA AtParts ==
  ASSUME NEW data \in Seq(Nat), NEW offset,
         NEW p \in Seq(Nat), NEW q \in Seq(Nat), At(data, offset, p \o q)
  PROVE  At(data, offset, p) /\ At(data, offset + Len(p), q)
<1> DEFINE u == p \o q
<1>1. /\ u \in Seq(Nat) /\ Len(u) = Len(p) + Len(q)
      /\ \A k \in 1..Len(p) : u[k] = p[k]
      /\ \A k \in 1..Len(q) : u[Len(p) + k] = q[k]
  BY ConcatIs
<1>2. At(data, offset, u)
  OBVIOUS
<1> HIDE DEF u
<1>3. /\ offset \in Nat /\ Len(p) \in Nat /\ Len(q) \in Nat
      /\ offset + (Len(p) + Len(q)) <= Len(data)
      /\ \A j \in 1..Len(u) : data[offset + j] = u[j]
  BY <1>1, <1>2 DEF At
<1>4. At(data, offset, p)
  <2>1. ASSUME NEW j \in 1..Len(p)
        PROVE  data[offset + j] = p[j]
    <3>1. j \in 1..Len(u)
      BY <1>1, <1>3
    <3> QED
      BY <1>1, <1>3, <3>1
  <2>2. offset + Len(p) <= Len(data)
    BY <1>3
  <2> QED
    BY <1>3, <2>1, <2>2 DEF At
<1>5. At(data, offset + Len(p), q)
  <2>1. ASSUME NEW j \in 1..Len(q)
        PROVE  data[(offset + Len(p)) + j] = q[j]
    <3>1. /\ Len(p) + j \in 1..Len(u)
          /\ (offset + Len(p)) + j = offset + (Len(p) + j)
      BY <1>1, <1>3
    <3> QED
      BY <1>1, <1>3, <3>1
  <2> QED
    BY <1>3, <2>1 DEF At
<1> QED
  BY <1>4, <1>5

LEMMA AtAppended ==
  ASSUME NEW data \in Seq(Nat), NEW item \in Seq(Nat), NEW longer, longer = data \o item
  PROVE  /\ longer \in Seq(Nat) /\ Len(longer) = Len(data) + Len(item)
         /\ At(longer, Len(data), item)
         /\ \A e, b : At(data, e, b) => At(longer, e, b)
<1>1. /\ longer \in Seq(Nat) /\ Len(longer) = Len(data) + Len(item)
      /\ \A k \in 1..Len(data) : longer[k] = data[k]
      /\ \A k \in 1..Len(item) : longer[Len(data) + k] = item[k]
  BY ConcatIs
<1>2. Len(data) \in Nat /\ Len(item) \in Nat
  OBVIOUS
<1>3. At(longer, Len(data), item)
  BY <1>1, <1>2 DEF At
<1>4. ASSUME NEW e, NEW b, At(data, e, b)
      PROVE  At(longer, e, b)
  <2>1. /\ e \in Nat /\ e + Len(b) <= Len(data)
        /\ \A j \in 1..Len(b) : data[e + j] = b[j]
    BY <1>4 DEF At
  <2>2. Len(b) \in Int => e + Len(b) <= Len(longer) /\ \A j \in 1..Len(b) : e + j \in 1..Len(data)
    BY <1>1, <1>2, <2>1
  <2> QED
    BY <1>1, <1>2, <2>1, <2>2 DEF At
<1> QED
  BY <1>1, <1>3, <1>4

LEMMA SliceAt ==
  ASSUME NEW data \in Seq(Nat), NEW offset, NEW v \in Seq(Nat), At(data, offset, v)
  PROVE  SubSeq(data, offset + 1, offset + Len(v)) = v
<1>1. offset \in Nat /\ Len(v) \in Nat /\ offset + Len(v) <= Len(data)
  BY DEF At
<1> DEFINE u == SubSeq(data, offset + 1, offset + Len(v))
<1>2. /\ u \in Seq(Nat) /\ Len(u) = Len(v)
      /\ \A j \in 1..Len(v) : u[j] = data[offset + j]
  BY <1>1, BytesRead
<1> HIDE DEF u
<1>3. \A j \in 1..Len(v) : u[j] = v[j]
  BY <1>2 DEF At
<1>4. u = v
  BY <1>2, <1>3, SequencesEqual
<1> QED
  BY <1>4 DEF u

\* A stream as it was received: it ends where the bytes end.
IsReceived(s) == s.data \in Seq(Nat) /\ s.size = Len(s.data)

LEMMA ReceivedSize == \A s : IsReceived(s) => s.size \in Nat
BY DEF IsReceived

-----------------------------------------------------------------------------
(* Integers: what IntBytes writes, DecodeInt reads. *)

Majors == {UINT, NEGINT, BYTES, TEXT, ARRAY, MAP}

LEMMA MajorTypes ==
  /\ UINT = 0 /\ NEGINT = 32 /\ BYTES = 64 /\ TEXT = 96 /\ ARRAY = 128 /\ MAP = 160
  /\ SEVEN = 224 /\ FLOAT32 = 250 /\ FLOAT64 = 251 /\ BREAK = 255
  /\ FALSEBYTE = 244 /\ TRUEBYTE = 245 /\ VarFollows = 31
  /\ {UINT, NEGINT} \subseteq Majors /\ {BYTES, TEXT, ARRAY, MAP} \subseteq Majors
  BY DEF UINT, NEGINT, BYTES, TEXT, ARRAY, MAP, SEVEN, FLOAT32, FLOAT64, BREAK,
         FALSEBYTE, TRUEBYTE, VarFollows, Majors

LEMMA MajorIsNat == \A major \in Majors : major \in Nat
  BY DEF UINT, NEGINT, BYTES, TEXT, ARRAY, MAP, Majors

LEMMA MajorIs ==
  ASSUME NEW major \in Majors, NEW info \in 0..31
  PROVE  /\ major \in Nat /\ major + info \in Byte
         /\ (major + info) % 32 = info /\ (major + info) - info = major
  BY DEF UINT, NEGINT, BYTES, TEXT, ARRAY, MAP, Majors, Byte

\* The bytes that follow the first one are enough for the value.
LEMMA InfoIs ==
  ASSUME NEW v \in Uint64
  PROVE  LET info == UintAdditionalInfo(v)
             n == UintBytesFollow(info)
         IN  /\ info \in 0..27 /\ n \in {0, 1, 2, 4, 8}
             /\ n = 0 => info = v[8]
             /\ FitsIn(v, IF n = 0 THEN 1 ELSE n)
<1> DEFINE info == UintAdditionalInfo(v)
<1>1. \A k \in 1..8 : v[k] \in 0..255
  BY DEF Uint64, Byte
<1>2. /\ FitsIn(v, 1) => FitsIn(v, 2)
      /\ FitsIn(v, 2) => FitsIn(v, 4)
      /\ FitsIn(v, 8)
  BY DEF FitsIn
<1>3. CASE FitsIn(v, 1) /\ v[8] < 24
  <2>1. info = v[8]
    BY <1>1, <1>2, <1>3 DEF UintAdditionalInfo, Uint8Follows
  <2>2. info \in 0..23
    BY <1>1, <1>3, <2>1
  <2>3. UintBytesFollow(info) = 0
    BY <2>2 DEF UintBytesFollow
  <2> QED
    BY <1>3, <2>1, <2>2, <2>3
<1>4. CASE FitsIn(v, 1) /\ ~(v[8] < 24)
  <2>1. info = 24
    BY <1>1, <1>2, <1>4 DEF UintAdditionalInfo, Uint8Follows
  <2> HIDE DEF info
  <2>2. UintBytesFollow(info) = 1
    BY <2>1 DEF UintBytesFollow
  <2> QED
    BY <1>4, <2>1, <2>2 DEF info
<1>5. CASE FitsIn(v, 2) /\ ~FitsIn(v, 1)
  <2>1. info = 25
    BY <1>2, <1>5 DEF UintAdditionalInfo
  <2> HIDE DEF info
  <2>2. UintBytesFollow(info) = 2
    BY <2>1 DEF UintBytesFollow
  <2> QED
    BY <1>5, <2>1, <2>2 DEF info
<1>6. CASE FitsIn(v, 4) /\ ~FitsIn(v, 2)
  <2>1. info = 26
    BY <1>2, <1>6 DEF UintAdditionalInfo
  <2> HIDE DEF info
  <2>2. UintBytesFollow(info) = 4
    BY <2>1 DEF UintBytesFollow
  <2> QED
    BY <1>6, <2>1, <2>2 DEF info
<1>7. CASE ~FitsIn(v, 4)
  <2>1. info = 27
    BY <1>2, <1>7 DEF UintAdditionalInfo
  <2> HIDE DEF info
  <2>2. UintBytesFollow(info) = 8
    BY <2>1 DEF UintBytesFollow
  <2> QED
    BY <1>2, <2>1, <2>2 DEF info
<1> QED
  BY <1>3, <1>4, <1>5, <1>6, <1>7

LEMMA LowBytesIs ==
  ASSUME NEW w \in Nat, NEW v \in [1..w -> Byte], NEW n \in 0..w
  PROVE  /\ LowBytes(v, n) \in Seq(Byte) /\ Len(LowBytes(v, n)) = n
         /\ \A j \in 1..n : LowBytes(v, n)[j] = v[w - n + j]
<1>1. v \in Seq(Byte) /\ Len(v) = w
  OBVIOUS
<1> QED
  BY <1>1 DEF LowBytes

LEMMA LowBytesWhole ==
  ASSUME NEW w \in Nat, NEW v \in [1..w -> Byte]
  PROVE  LowBytes(v, w) = v
<1>1. w \in 0..w /\ v \in Seq(Byte) /\ Len(v) = w
  OBVIOUS
<1>2. /\ LowBytes(v, w) \in Seq(Byte) /\ Len(LowBytes(v, w)) = w
      /\ \A j \in 1..w : LowBytes(v, w)[j] = v[w - w + j]
  BY <1>1, LowBytesIs
<1>3. \A j \in 1..w : w - w + j = j
  OBVIOUS
<1> QED
  BY <1>1, <1>2, <1>3, SequencesEqual

LEMMA EightBytes ==
  ASSUME NEW q \in Seq(Byte), Len(q) = 8
  PROVE  q \in Uint64
<1>1. PICK n : n = 8
  OBVIOUS
<1>2. Uint64 = [1..n -> Byte] /\ Len(q) = n
  BY <1>1 DEF Uint64
<1> HIDE <1>1
<1> QED
  BY <1>2, SequenceIsFunction

LEMMA WidenIs ==
  ASSUME NEW n \in 0..8, NEW v \in [1..n -> Byte]
  PROVE  /\ Widen(v) \in Uint64
         /\ \A k \in 1..8 : Widen(v)[k] = IF k <= 8 - n THEN 0 ELSE v[k - (8 - n)]
<1>1. v \in Seq(Byte) /\ Len(v) = n
  OBVIOUS
<1>2. Zeros(8 - n) \in Seq(Byte) /\ Len(Zeros(8 - n)) = 8 - n
  BY DEF Zeros, Byte
<1>3. /\ Widen(v) \in Seq(Byte) /\ Len(Widen(v)) = 8
      /\ \A k \in 1..8 : Widen(v)[k] = IF k <= 8 - n THEN Zeros(8 - n)[k]
                                                      ELSE v[k - (8 - n)]
  BY <1>1, <1>2 DEF Widen
<1>4. Widen(v) \in Uint64
  BY <1>3, EightBytes
<1>5. \A k \in 1..8 : k <= 8 - n => Zeros(8 - n)[k] = 0
  BY DEF Zeros
<1> QED
  BY <1>3, <1>4, <1>5

LEMMA IntBytesIs ==
  ASSUME NEW major \in Nat, NEW v \in Uint64
  PROVE  LET info == UintAdditionalInfo(v)
             n == UintBytesFollow(info)
             b == IntBytes(major, v)
         IN  /\ b \in Seq(Nat) /\ Len(b) = n + 1
             /\ b[1] = major + info
             /\ \A j \in 1..n : b[j + 1] = v[8 - n + j]
<1> DEFINE info == UintAdditionalInfo(v)
           n == UintBytesFollow(info)
<1>1. info \in 0..27 /\ n \in 0..8
  BY InfoIs
<1>2. /\ LowBytes(v, n) \in Seq(Byte) /\ Len(LowBytes(v, n)) = n
      /\ \A j \in 1..n : LowBytes(v, n)[j] = v[8 - n + j]
  BY <1>1, LowBytesIs DEF Uint64
<1>3. IntBytes(major, v) = <<major + info>> \o LowBytes(v, n)
  BY DEF IntBytes
<1> HIDE DEF info, n
<1>4. LowBytes(v, n) \in Seq(Nat) /\ <<major + info>> \in Seq(Nat)
  BY <1>1, <1>2, BytesAreNumbers
<1>5. /\ IntBytes(major, v) \in Seq(Nat) /\ Len(IntBytes(major, v)) = n + 1
      /\ IntBytes(major, v)[1] = major + info
      /\ \A j \in 1..n : IntBytes(major, v)[j + 1] = LowBytes(v, n)[j]
  BY <1>1, <1>2, <1>3, <1>4
<1> QED
  BY <1>2, <1>5 DEF info, n

LEMMA IntBytesSize ==
  ASSUME NEW major \in Majors, NEW v \in Uint64
  PROVE  /\ IntBytes(major, v) \in Seq(Byte) /\ IntBytes(major, v) \in Seq(Nat)
         /\ Len(IntBytes(major, v)) \in Nat /\ Len(IntBytes(major, v)) >= 1
<1> DEFINE info == UintAdditionalInfo(v)
           n == UintBytesFollow(info)
           b == IntBytes(major, v)
<1>1. info \in 0..31 /\ n \in 0..8
  BY InfoIs
<1>2. major \in Nat /\ major + info \in Byte
  BY <1>1, MajorIs
<1>3. /\ b \in Seq(Nat) /\ Len(b) = n + 1 /\ b[1] = major + info
      /\ \A j \in 1..n : b[j + 1] = v[8 - n + j]
  BY <1>2, IntBytesIs
<1>4. \A k \in 1..8 : v[k] \in Byte
  BY DEF Uint64
<1> HIDE DEF b, n, info
<1>5. \A j \in 1..Len(b) : b[j] \in Byte
  <2> TAKE j \in 1..Len(b)
  <2>1. CASE j = 1
    BY <1>2, <1>3, <2>1
  <2>2. CASE j # 1
    <3>1. j - 1 \in 1..n /\ (j - 1) + 1 = j /\ 8 - n + (j - 1) \in 1..8
      BY <1>1, <1>3, <2>2
    <3> QED
      BY <1>3, <1>4, <3>1
  <2> QED
    BY <2>1, <2>2
<1>6. b \in Seq(Byte)
  BY <1>3, <1>5, ElementsIn
<1> QED
  BY <1>1, <1>3, <1>6 DEF b

LEMMA HeadAt ==
  ASSUME NEW s, IsReceived(s), NEW offset,
         NEW major \in Majors, NEW v \in Uint64,
         At(s.data, offset, IntBytes(major, v))
  PROVE  /\ ByteAt(s, offset) = major + UintAdditionalInfo(v)
         /\ TypeAt(s, offset) = major
         /\ InfoAt(s, offset) = UintAdditionalInfo(v)
<1> DEFINE info == UintAdditionalInfo(v)
           b == IntBytes(major, v)
<1>1. info \in 0..27 /\ Len(b) \in Nat \ {0} /\ b[1] = major + info
  <2>1. major \in Nat
    BY MajorIsNat
  <2> QED
    BY <2>1, InfoIs, IntBytesIs
<1> HIDE DEF info, b
<1>2. offset \in Nat /\ offset < Len(s.data) /\ s.data[offset + 1] = b[1]
  BY <1>1 DEF At, IsReceived, b
<1>3. ByteAt(s, offset) = major + info
  BY <1>1, <1>2 DEF ByteAt
<1>4. info \in 0..31
  BY <1>1
<1>5. (major + info) % 32 = info /\ (major + info) - info = major
  BY <1>4, MajorIs
<1> QED
  BY <1>3, <1>5 DEF TypeAt, InfoAt, info

LEMMA DecodeIntAt ==
  ASSUME NEW s, IsReceived(s), NEW offset,
         NEW major \in Majors, NEW v \in Uint64,
         At(s.data, offset, IntBytes(major, v))
  PROVE  DecodeInt(s, offset) = Read(Len(IntBytes(major, v)), v)
<1> DEFINE info == UintAdditionalInfo(v)
           n == UintBytesFollow(info)
           b == IntBytes(major, v)
           read == IF n = 0 THEN <<info>> ELSE SubSeq(s.data, offset + 2, offset + 1 + n)
<1>1. /\ info \in 0..27 /\ n \in {0, 1, 2, 4, 8}
      /\ n = 0 => info = v[8]
      /\ FitsIn(v, IF n = 0 THEN 1 ELSE n)
  BY InfoIs
<1>2. Len(b) = n + 1 /\ \A j \in 1..n : b[j + 1] = v[8 - n + j]
  <2>1. major \in Nat
    BY MajorIsNat
  <2> QED
    BY <2>1, IntBytesIs
<1>3. InfoAt(s, offset) = info
  BY HeadAt
<1>4. \A k \in 1..8 : v[k] \in Byte
  BY DEF Uint64
<1>5. /\ offset \in Nat /\ s.data \in Seq(Nat) /\ s.size = Len(s.data)
      /\ offset + Len(b) <= Len(s.data)
      /\ \A j \in 1..Len(b) : s.data[offset + j] = b[j]
  BY DEF At, IsReceived
<1> HIDE DEF info, n, b
<1>6. n = 0 => Widen(read) = v
  <2> SUFFICES ASSUME n = 0 PROVE Widen(read) = v
    OBVIOUS
  <2>1. read = <<v[8]>> /\ read \in [1..1 -> Byte]
    BY <1>1, <1>4
  <2>2. \A k \in 1..7 : v[k] = 0
    BY <1>1 DEF FitsIn
  <2>3. /\ Widen(read) \in Uint64
        /\ \A k \in 1..8 : Widen(read)[k] = IF k <= 7 THEN 0 ELSE read[k - 7]
    BY <2>1, WidenIs
  <2> HIDE DEF read
  <2>4. \A k \in 1..8 : Widen(read)[k] = v[k]
    BY <2>1, <2>2, <2>3
  <2> QED
    BY <2>3, <2>4 DEF Uint64
<1>7. n # 0 => Widen(read) = v
  <2> SUFFICES ASSUME n # 0 PROVE Widen(read) = v
    OBVIOUS
  <2>1. /\ n \in Nat /\ offset + 1 \in Nat /\ offset + 1 + n <= Len(s.data)
        /\ read = SubSeq(s.data, (offset + 1) + 1, (offset + 1) + n)
    BY <1>1, <1>2, <1>5
  <2>2. /\ read \in Seq(Nat) /\ Len(read) = n
        /\ \A j \in 1..n : read[j] = s.data[(offset + 1) + j]
    BY <1>5, <2>1, BytesRead
  <2> HIDE DEF read
  <2>3. \A j \in 1..n : read[j] = v[8 - n + j]
    <3> SUFFICES ASSUME NEW j \in 1..n PROVE read[j] = v[8 - n + j]
      OBVIOUS
    <3>1. j + 1 \in 1..Len(b) /\ offset + (j + 1) = (offset + 1) + j
      BY <1>2, <1>5, <2>1
    <3>2. s.data[(offset + 1) + j] = b[j + 1]
      BY <1>5, <3>1
    <3> QED
      BY <1>2, <2>2, <3>2
  <2>4. read \in [1..n -> Byte]
    <3>1. \A j \in 1..n : 8 - n + j \in 1..8
      BY <1>1
    <3>2. \A j \in 1..n : read[j] \in Byte
      BY <1>4, <2>3, <3>1
    <3> QED
      BY <2>2, <3>2, ElementsIn
  <2>5. /\ Widen(read) \in Uint64
        /\ \A k \in 1..8 :
             Widen(read)[k] = IF k <= 8 - n THEN 0 ELSE read[k - (8 - n)]
    <3>1. n \in 0..8
      BY <1>1
    <3> QED
      BY <2>4, <3>1, WidenIs
  <2>6. \A k \in 1..(8 - n) : v[k] = 0
    BY <1>1 DEF FitsIn
  <2>7. \A k \in 1..8 : Widen(read)[k] = v[k]
    <3> TAKE k \in 1..8
    <3>1. CASE k <= 8 - n
      BY <1>1, <2>5, <2>6, <3>1
    <3>2. CASE ~(k <= 8 - n)
      <4>1. k - (8 - n) \in 1..n /\ 8 - n + (k - (8 - n)) = k
        BY <1>1, <3>2
      <4> QED
        BY <2>3, <2>5, <3>2, <4>1
    <3> QED
      BY <3>1, <3>2
  <2> QED
    BY <2>5, <2>7 DEF Uint64
<1>8. EnsureSizeRead(s, offset + 1) /\ EnsureSizeRead(s, offset + 1 + n)
  BY <1>1, <1>2, <1>5 DEF EnsureSizeRead
<1>9. DecodeInt(s, offset) = Read(n + 1, Widen(read))
  BY <1>3, <1>8 DEF DecodeInt, n
<1> QED
  BY <1>2, <1>6, <1>7, <1>9 DEF b

\* At the end of a stream nothing is read, whatever follows it.
LEMMA DecodeIntAtEnd ==
  ASSUME NEW s, IsReceived(s)
  PROVE  DecodeInt(s, s.size) = Read(0, Zeros(8))
<1>1. s.size \in Nat /\ ~EnsureSizeRead(s, s.size + 1)
  BY DEF IsReceived, EnsureSizeRead
<1> QED
  BY <1>1 DEF DecodeInt

LEMMA ComplementIs ==
  ASSUME NEW n \in Nat, NEW v \in [1..n -> Byte]
  PROVE  /\ Complement(v) \in [1..n -> Byte]
         /\ \A k \in 1..n : Complement(v)[k] = 255 - v[k]
<1>1. \A x \in Byte : 255 - x \in Byte
  BY DEF Byte
<1>2. \A k \in 1..n : v[k] \in Byte
  OBVIOUS
<1> QED
  BY <1>1, <1>2 DEF Complement

LEMMA ComplementWide ==
  ASSUME NEW v \in Uint64
  PROVE  /\ Complement(v) \in Uint64
         /\ \A k \in 1..8 : Complement(v)[k] = 255 - v[k]
<1>1. PICK m \in Nat : m = 8
  OBVIOUS
<1>2. Uint64 = [1..m -> Byte] /\ 1..8 = 1..m
  BY <1>1 DEF Uint64
<1> HIDE <1>1
<1>3. v \in [1..m -> Byte]
  BY <1>2
<1>4. /\ Complement(v) \in [1..m -> Byte]
      /\ \A k \in 1..m : Complement(v)[k] = 255 - v[k]
  BY <1>3, ComplementIs
<1> QED
  BY <1>2, <1>4

\* The sign of a number survives the width of the item.
LEMMA SignedIs ==
  ASSUME NEW n \in 1..8, NEW v \in [1..n -> Byte]
  PROVE  /\ LowBytes(Widen(v), n) = v
         /\ LowBytes(Complement(Widen(Complement(v))), n) = v
<1>1. ASSUME NEW u \in Uint64, NEW w \in [1..n -> Byte],
             \A j \in 1..n : u[8 - n + j] = w[j]
      PROVE  LowBytes(u, n) = w
  <2>1. u \in [1..8 -> Byte] /\ n \in 0..8
    BY DEF Uint64
  <2>2. /\ LowBytes(u, n) \in Seq(Byte) /\ Len(LowBytes(u, n)) = n
        /\ \A j \in 1..n : LowBytes(u, n)[j] = u[8 - n + j]
    BY <2>1, LowBytesIs
  <2> QED
    BY <1>1, <2>2
<1>2. ASSUME NEW w \in [1..n -> Byte]
      PROVE  /\ Widen(w) \in Uint64
             /\ \A j \in 1..n : Widen(w)[8 - n + j] = w[j]
  <2>1. /\ Widen(w) \in Uint64
        /\ \A k \in 1..8 : Widen(w)[k] = IF k <= 8 - n THEN 0 ELSE w[k - (8 - n)]
    <3>1. n \in 0..8
      OBVIOUS
    <3> QED
      BY <3>1, WidenIs
  <2>2. \A j \in 1..n : /\ 8 - n + j \in 1..8 /\ ~(8 - n + j <= 8 - n)
                        /\ (8 - n + j) - (8 - n) = j
    OBVIOUS
  <2> QED
    BY <2>1, <2>2
<1>3. LowBytes(Widen(v), n) = v
  BY <1>1, <1>2
<1> DEFINE c == Complement(v)
           u == Complement(Widen(c))
<1>4. c \in [1..n -> Byte] /\ \A k \in 1..n : c[k] = 255 - v[k]
  BY ComplementIs
<1> HIDE DEF c
<1>5. /\ Widen(c) \in Uint64
      /\ \A j \in 1..n : Widen(c)[8 - n + j] = c[j]
  BY <1>2, <1>4
<1>6. u \in Uint64 /\ \A k \in 1..8 : u[k] = 255 - Widen(c)[k]
  BY <1>5, ComplementWide
<1> HIDE DEF u
<1>7. \A j \in 1..n : u[8 - n + j] = v[j]
  <2> SUFFICES ASSUME NEW j \in 1..n PROVE u[8 - n + j] = v[j]
    OBVIOUS
  <2>1. 8 - n + j \in 1..8 /\ v[j] \in Byte
    OBVIOUS
  <2>2. u[8 - n + j] = 255 - Widen(c)[8 - n + j]
    BY <1>6, <2>1
  <2>4. Widen(c)[8 - n + j] = c[j]
    BY <1>5
  <2>3. \A x \in Byte : 255 - (255 - x) = x
    BY DEF Byte
  <2> QED
    BY <1>4, <2>1, <2>2, <2>4, <2>3
<1>8. LowBytes(u, n) = v
  BY <1>1, <1>6, <1>7
<1> QED
  BY <1>3, <1>8 DEF u, c

\* An int of n bytes is read as it was, at any width of the item.
LEMMA SignedBack ==
  ASSUME NEW n \in {4, 8}, NEW v \in [1..n -> Byte]
  PROVE  /\ Widen(v) \in Uint64 /\ Widen(Complement(v)) \in Uint64
         /\ Signed(UINT, Widen(v), n) = v
         /\ Signed(NEGINT, Widen(Complement(v)), n) = v
<1>1. n \in Nat /\ n \in 0..8 /\ n \in 1..8
  OBVIOUS
<1>2. Complement(v) \in [1..n -> Byte]
  BY <1>1, ComplementIs
<1>3. Widen(v) \in Uint64 /\ Widen(Complement(v)) \in Uint64
  BY <1>1, <1>2, WidenIs
<1>4. NEGINT # UINT
  BY MajorTypes
<1> QED
  BY <1>1, <1>3, <1>4, SignedIs DEF Signed

-----------------------------------------------------------------------------
(* Strings and doubles. *)

LEMMA ShortNumber ==
  ASSUME NEW u \in Seq(Byte), Len(u) = 8, \A k \in 1..6 : u[k] = 0
  PROVE  u \in Uint64 /\ FitsIn(u, 2)
<1>1. u \in [1..Len(u) -> Byte]
  BY SequenceIsFunction
<1>2. u \in [1..8 -> Byte]
  BY <1>1
<1> QED
  BY <1>2 DEF Uint64, FitsIn

LEMMA LengthBytesIs ==
  ASSUME NEW len \in Nat, len < 65536
  PROVE  /\ LengthBytes(len) \in Uint64 /\ FitsIn(LengthBytes(len), 2)
         /\ 256 * LengthBytes(len)[7] + LengthBytes(len)[8] = len
<1>1. /\ len \div 256 \in Nat /\ len \div 256 <= 255
      /\ len % 256 \in Nat /\ len % 256 <= 255
      /\ 256 * (len \div 256) + (len % 256) = len
  OBVIOUS
<1>2. /\ Zeros(6) \in Seq(Byte) /\ Len(Zeros(6)) = 6
      /\ \A k \in 1..6 : Zeros(6)[k] = 0
  BY DEF Zeros, Byte
<1>3. len \div 256 \in Byte /\ len % 256 \in Byte
  BY <1>1 DEF Byte
<1> DEFINE z == Zeros(6)
           q == <<len \div 256, len % 256>>
           u == LengthBytes(len)
<1>4. q \in Seq(Byte) /\ Len(q) = 2 /\ q[1] = len \div 256 /\ q[2] = len % 256
  BY <1>3
<1>5. z \in Seq(Byte) /\ u = z \o q
  BY <1>2 DEF LengthBytes
<1> HIDE DEF q, u, z
<1>6. /\ u \in Seq(Byte) /\ Len(u) = Len(z) + Len(q)
      /\ \A k \in 1..Len(z) : u[k] = z[k]
      /\ \A k \in 1..Len(q) : u[Len(z) + k] = q[k]
  <2>1. q \in Seq(Byte)
    BY <1>4
  <2> QED
    BY <1>5, <2>1, ConcatIs
<1>7. Len(z) = 6 /\ \A k \in 1..6 : z[k] = 0
  BY <1>2 DEF z
<1>8. Len(u) = 8 /\ \A k \in 1..6 : u[k] = 0
  <2>1. \A k \in 1..6 : k \in 1..Len(z)
    BY <1>7
  <2> QED
    BY <1>4, <1>6, <1>7, <2>1
<1>9. u[7] = q[1] /\ u[8] = q[2]
  <2>1. 1 \in 1..Len(q) /\ 2 \in 1..Len(q)
    BY <1>4
  <2>2. u[Len(z) + 1] = q[1] /\ u[Len(z) + 2] = q[2]
    BY <1>6, <2>1
  <2> QED
    BY <1>7, <2>2
<1>10. u \in Uint64 /\ FitsIn(u, 2)
  BY <1>6, <1>8, ShortNumber
<1> QED
  BY <1>1, <1>4, <1>9, <1>10 DEF u

LEMMA DecodeBytesIs ==
  ASSUME NEW s, NEW offset \in Nat, NEW capacity \in Nat, NEW h \in Nat, NEW num,
         NEW major, NEW len \in Nat,
         DecodeInt(s, offset) = Read(h, num), h # 0,
         FitsIn(num, 2), 256 * num[7] + num[8] = len,
         TypeAt(s, offset) = major, len + 1 <= capacity,
         EnsureSizeRead(s, offset + 1), EnsureSizeRead(s, offset + h + len)
  PROVE  LET read == Read(h + len, SubSeq(s.data, offset + h + 1, offset + h + len))
         IN  /\ DecodeBytes(major, s, offset, capacity) = read
             /\ DecodeBytesNoCopy(major, s, offset) = read
<1>1. DecodeInt(s, offset).ret = h /\ DecodeInt(s, offset).val = num
  BY DEF Read
<1> QED
  BY <1>1 DEF DecodeBytes, DecodeBytesNoCopy

StringItem(major, v) == IntBytes(major, LengthBytes(Len(v))) \o v

\* A string, with its length before it.
HeadAndBody(item, head, v) ==
  /\ item \in Seq(Byte) /\ item \in Seq(Nat)
  /\ Len(item) = Len(head) + Len(v)
  /\ Len(head) \in Nat /\ Len(head) >= 1 /\ Len(item) \in Nat

LEMMA StringIs ==
  ASSUME NEW major \in {BYTES, TEXT}, NEW v \in Seq(Byte), Len(v) < 65536,
         NEW head, head = IntBytes(major, LengthBytes(Len(v))),
         NEW item, item = StringItem(major, v)
  PROVE  HeadAndBody(item, head, v)
<1>1. LengthBytes(Len(v)) \in Uint64 /\ major \in Majors /\ Len(v) \in Nat
  BY LengthBytesIs, MajorTypes
<1>2. head \in Seq(Byte) /\ Len(head) \in Nat /\ Len(head) >= 1
  BY <1>1, IntBytesSize
<1>3. item = head \o v
  BY DEF StringItem
<1> DEFINE whole == head \o v
<1>4. whole \in Seq(Byte) /\ Len(whole) = Len(head) + Len(v)
  BY <1>2, ConcatIs
<1> HIDE DEF whole
<1>5. whole \in Seq(Nat) /\ Len(whole) \in Nat
  BY <1>1, <1>2, <1>4, BytesAreNumbers
<1>6. item = whole
  BY <1>3 DEF whole
<1> QED
  BY <1>2, <1>4, <1>5, <1>6 DEF HeadAndBody

LEMMA StringSize ==
  ASSUME NEW major \in {BYTES, TEXT}, NEW v \in Seq(Byte), Len(v) < 65536,
         NEW item, item = StringItem(major, v)
  PROVE  /\ item \in Seq(Byte) /\ item \in Seq(Nat) /\ Len(item) \in Nat
         /\ Len(item) >= 1 /\ Len(v) < Len(item)
<1>1. PICK head : head = IntBytes(major, LengthBytes(Len(v)))
  OBVIOUS
<1>2. HeadAndBody(item, head, v)
  BY <1>1, StringIs
<1>3. Len(v) \in Nat
  OBVIOUS
<1> QED
  BY <1>2, <1>3 DEF HeadAndBody

\* The serializer writes a string whole or not at all.
LEMMA EncodeBytesIs ==
  ASSUME NEW major \in {BYTES, TEXT}, NEW v \in Seq(Byte), Len(v) < 65536, NEW s
  PROVE  EncodeBytes(major, s, v) = Write(s, StringItem(major, v))
<1> DEFINE head == IntBytes(major, LengthBytes(Len(v)))
           item == StringItem(major, v)
<1>1. HeadAndBody(item, head, v)
  BY StringIs
<1>2. item = head \o v
  BY DEF StringItem
<1>3. EncodeBytes(major, s, v) =
        IF EnsureSize(s, Len(head) + Len(v)) THEN Write(s, head \o v) ELSE Refused(s)
  BY DEF EncodeBytes
<1> HIDE DEF head, item
<1>4. EncodeBytes(major, s, v) = Write(s, item)
  BY <1>1, <1>2, <1>3 DEF Write, HeadAndBody
<1> QED
  BY <1>4 DEF item

LEMMA StringAt ==
  ASSUME NEW s, IsReceived(s), NEW offset, NEW major \in {BYTES, TEXT},
         NEW v \in Seq(Byte), Len(v) < 65536,
         NEW item, item = StringItem(major, v), At(s.data, offset, item)
  PROVE  /\ TypeAt(s, offset) = major
         /\ ByteAt(s, offset) >= major /\ ByteAt(s, offset) <= major + 27
         /\ DecodeBytes(major, s, offset, s.size) = Read(Len(item), v)
         /\ DecodeBytesNoCopy(major, s, offset) = Read(Len(item), v)
<1> DEFINE len == Len(v)
           num == LengthBytes(len)
           head == IntBytes(major, num)
           info == UintAdditionalInfo(num)
<1>1. len \in Nat /\ v \in Seq(Nat) /\ major \in Majors
  BY BytesAreNumbers, MajorTypes
<1>2. num \in Uint64 /\ FitsIn(num, 2) /\ 256 * num[7] + num[8] = len
  BY <1>1, LengthBytesIs
<1>3. /\ item \in Seq(Nat) /\ Len(item) = Len(head) + len
      /\ Len(head) \in Nat /\ Len(head) >= 1
  <2>1. HeadAndBody(item, head, v)
    BY StringIs
  <2> QED
    BY <2>1 DEF HeadAndBody
<1> HIDE DEF num
<1>4. head \in Seq(Nat) /\ info \in 0..27 /\ major \in Nat
  <2>1. info \in 0..27
    BY <1>2, InfoIs
  <2>2. head \in Seq(Nat)
    BY <1>1, <1>2, IntBytesSize
  <2> QED
    BY <1>1, <2>1, <2>2, MajorIsNat
<1>5. /\ At(s.data, offset, item) /\ s.data \in Seq(Nat) /\ s.size = Len(s.data)
      /\ item = head \o v
  BY DEF IsReceived, num, StringItem
<1>6. At(s.data, offset, head) /\ At(s.data, offset + Len(head), v)
  <2> HIDE DEF head
  <2> QED
    BY <1>1, <1>4, <1>5, AtParts
<1>7. /\ TypeAt(s, offset) = major /\ ByteAt(s, offset) = major + info
      /\ DecodeInt(s, offset) = Read(Len(head), num)
  BY <1>1, <1>2, <1>6, HeadAt, DecodeIntAt
<1> HIDE DEF head, info
<1>8. offset \in Nat /\ offset + Len(head) + len <= s.size /\ s.size \in Nat
  BY <1>1, <1>3, <1>5 DEF At
<1>9. SubSeq(s.data, offset + Len(head) + 1, offset + Len(head) + len) = v
  BY <1>1, <1>5, <1>6, SliceAt
<1>10. /\ DecodeBytes(major, s, offset, s.size) = Read(Len(item), v)
       /\ DecodeBytesNoCopy(major, s, offset) = Read(Len(item), v)
  <2>1. /\ EnsureSizeRead(s, offset + 1) /\ len + 1 <= s.size
        /\ EnsureSizeRead(s, offset + Len(head) + len)
        /\ Len(head) # 0 /\ Len(head) \in Nat /\ offset \in Nat /\ s.size \in Nat
        /\ len \in Nat
    BY <1>1, <1>3, <1>8 DEF EnsureSizeRead
  <2>2. Len(head) + len = Len(item) /\ FitsIn(num, 2) /\ 256 * num[7] + num[8] = len
    BY <1>2, <1>3
  <2>3. SubSeq(s.data, offset + Len(head) + 1, offset + Len(head) + len) = v
    BY <1>9
  <2> HIDE DEF len
  <2> DEFINE chars == SubSeq(s.data, offset + Len(head) + 1, offset + Len(head) + len)
  <2>4. /\ DecodeBytes(major, s, offset, s.size) = Read(Len(head) + len, chars)
        /\ DecodeBytesNoCopy(major, s, offset) = Read(Len(head) + len, chars)
    BY <1>7, <2>1, <2>2, DecodeBytesIs
  <2>5. chars = v
    BY <2>3
  <2> HIDE DEF chars
  <2> QED
    BY <2>2, <2>4, <2>5
<1> QED
  BY <1>4, <1>7, <1>10

\* An item of one byte and the bytes of a value.
Marked(b, v) == <<b>> \o v

LEMMA MarkedSize ==
  ASSUME NEW b \in Byte, NEW v \in Seq(Byte), NEW item, item = Marked(b, v)
  PROVE  /\ item \in Seq(Byte) /\ item \in Seq(Nat)
         /\ Len(item) = 1 + Len(v) /\ Len(v) \in Nat
<1> DEFINE head == <<b>>
<1>1. head \in Seq(Byte) /\ Len(head) = 1
  OBVIOUS
<1>2. item = head \o v
  BY DEF Marked
<1> HIDE DEF head
<1> DEFINE whole == head \o v
<1>3. whole \in Seq(Byte) /\ Len(whole) = 1 + Len(v) /\ Len(v) \in Nat
  <2>1. head \in Seq(Byte)
    BY <1>1
  <2>2. whole \in Seq(Byte) /\ Len(whole) = Len(head) + Len(v)
    BY <2>1, ConcatIs
  <2> QED
    BY <1>1, <2>2
<1> HIDE DEF whole
<1>4. item = whole
  BY <1>2 DEF whole
<1> QED
  BY <1>3, <1>4, BytesAreNumbers

\* What is found at an item whose first byte is followed by the bytes of its value.
FollowedBy(s, offset, b, v, item) ==
  /\ item \in Seq(Byte) /\ Len(item) = 1 + Len(v) /\ Len(v) \in Nat
  /\ offset \in Nat /\ s.size \in Nat /\ offset + Len(v) + 1 <= s.size
  /\ ByteAt(s, offset) = b
  /\ \A j \in 1..Len(v) : ByteAt(s, offset + j) = v[j]
  /\ SubSeq(s.data, offset + 2, offset + 1 + Len(v)) = v

LEMMA AfterByteAt ==
  ASSUME NEW s, IsReceived(s), NEW offset, NEW b \in Byte, NEW v \in Seq(Byte),
         NEW item, item = Marked(b, v), At(s.data, offset, item)
  PROVE  FollowedBy(s, offset, b, v, item)
<1> DEFINE head == <<b>>
<1> HIDE DEF head
<1>0. item = head \o v
  BY DEF head, Marked
<1>1. head \in Seq(Byte) /\ Len(head) = 1 /\ head[1] = b
  BY DEF head
<1>2. /\ item \in Seq(Byte) /\ Len(item) = 1 + Len(v) /\ item[1] = b
      /\ \A j \in 1..Len(v) : item[1 + j] = v[j]
  <2> DEFINE whole == head \o v
  <2>1. /\ whole \in Seq(Byte) /\ Len(whole) = 1 + Len(v) /\ whole[1] = b
        /\ \A j \in 1..Len(v) : whole[1 + j] = v[j]
    <3>1. head \in Seq(Byte)
      BY <1>1
    <3>2. /\ whole \in Seq(Byte) /\ Len(whole) = Len(head) + Len(v)
          /\ \A k \in 1..Len(head) : whole[k] = head[k]
          /\ \A k \in 1..Len(v) : whole[Len(head) + k] = v[k]
      BY <3>1, ConcatIs
    <3> HIDE DEF whole
    <3> QED
      BY <1>1, <3>2
  <2> HIDE DEF whole
  <2>2. item = whole
    BY <1>0 DEF whole
  <2> QED
    BY <2>1, <2>2
<1>3. s.data \in Seq(Nat) /\ s.size = Len(s.data) /\ Len(v) \in Nat /\ Len(s.data) \in Nat
  BY DEF IsReceived
<1>4. /\ offset \in Nat /\ offset + Len(v) + 1 <= s.size
      /\ \A j \in 1..(1 + Len(v)) : s.data[offset + j] = item[j]
  BY <1>2, <1>3 DEF At
<1>5. ByteAt(s, offset) = b
  BY <1>2, <1>3, <1>4 DEF ByteAt
<1>6. \A j \in 1..Len(v) : ByteAt(s, offset + j) = v[j]
  <2> TAKE j \in 1..Len(v)
  <2>1. offset + j < Len(s.data) /\ 1 + j \in 1..(1 + Len(v)) /\ (offset + j) + 1 = offset + (1 + j)
    BY <1>3, <1>4
  <2> QED
    BY <1>2, <1>4, <2>1 DEF ByteAt
<1>7. SubSeq(s.data, offset + 2, offset + 1 + Len(v)) = v
  <2>1. v \in Seq(Nat) /\ head \in Seq(Nat)
    BY <1>1, BytesAreNumbers
  <2>2. At(s.data, offset + 1, v)
    BY <1>0, <1>1, <1>3, <2>1, AtParts
  <2>3. SubSeq(s.data, (offset + 1) + 1, (offset + 1) + Len(v)) = v
    BY <1>3, <2>1, <2>2, SliceAt
  <2>4. (offset + 1) + 1 = offset + 2 /\ (offset + 1) + Len(v) = offset + 1 + Len(v)
    BY <1>3, <1>4
  <2> QED
    BY <2>3, <2>4
<1> QED
  BY <1>2, <1>3, <1>4, <1>5, <1>6, <1>7 DEF FollowedBy

LEMMA UintIsSeq == ASSUME NEW v \in Uint64 PROVE v \in Seq(Byte) /\ Len(v) = 8
<1>1. 8 \in Nat /\ v \in [1..8 -> Byte]
  BY DEF Uint64
<1> QED
  BY <1>1, FunctionIsSequence

LEMMA DoubleAt ==
  ASSUME NEW s, IsReceived(s), NEW offset, NEW v \in Uint64,
         NEW item, item = Marked(FLOAT64, v), At(s.data, offset, item)
  PROVE  /\ Len(item) = 9 /\ ByteAt(s, offset) = 251
         /\ DeserializeDouble(s, offset) = Read(Len(item), v)
<1>1. v \in Seq(Byte) /\ Len(v) = 8 /\ FLOAT64 \in Byte /\ FLOAT64 = 251
  BY UintIsSeq, MajorTypes DEF Byte
<1>2. FollowedBy(s, offset, FLOAT64, v, item)
  <2>1. v \in Seq(Byte)
    BY <1>1
  <2>2. FLOAT64 \in Byte
    BY <1>1
  <2> QED
    BY <2>1, <2>2, AfterByteAt
<1>3. /\ EnsureSizeRead(s, offset + 1) /\ EnsureSizeRead(s, offset + 9)
      /\ offset + 1 + Len(v) = offset + 9 /\ Len(item) = 9
  <2>1. /\ Len(item) = 1 + Len(v) /\ offset \in Nat /\ s.size \in Nat
        /\ offset + Len(v) + 1 <= s.size
    BY <1>2 DEF FollowedBy
  <2> QED
    BY <1>1, <2>1 DEF EnsureSizeRead
<1>4. ByteAt(s, offset) = FLOAT64 /\ SubSeq(s.data, offset + 2, offset + 1 + Len(v)) = v
  BY <1>2 DEF FollowedBy
<1> QED
  BY <1>1, <1>3, <1>4 DEF DeserializeDouble

=============================================================================
