-------------------------- MODULE CborStreamProofs --------------------------
(***************************************************************************)
(* The properties of a stream of cbor items, for every load: any items,    *)
(* any number of them, any buffer.                                         *)
(*                                                                         *)
(* First the half-width floats, without streams: the halves, numbered from *)
(* 0, are ordered as their floats are (Scaled), EncodeHalf rounds a float  *)
(* to a half from the one bit it keeps besides (RoundedFrom), and what     *)
(* DecodeHalf makes of a half is encoded as that half.  Then what the      *)
(* serializer of each kind writes and its deserializer reads of it, and    *)
(* what the first byte of an item tells.  Last the stream: StreamInv says  *)
(* that the items lie one after the other in the buffer, and that the      *)
(* receiver stands at the start of one of them.                            *)
(***************************************************************************)
EXTENDS CborStream, CborProofs

-----------------------------------------------------------------------------
(* Half-width floats.                                                      *)

LEMMA ByteIs == \A x : x \in Byte <=> x \in Nat /\ x < 256
  BY DEF Byte

IsFloat(v) == v \in [1..4 -> Byte]

LEMMA FloatIs ==
  ASSUME NEW v, IsFloat(v)
  PROVE  /\ v[1] \in Nat /\ v[1] < 256 /\ v[2] \in Nat /\ v[2] < 256
         /\ v[3] \in Nat /\ v[3] < 256 /\ v[4] \in Nat /\ v[4] < 256
<1>1. v[1] \in Byte /\ v[2] \in Byte /\ v[3] \in Byte /\ v[4] \in Byte
  BY DEF IsFloat
<1> QED
  BY <1>1, ByteIs

HighBit(b, top, low) ==
  b = 128 * top + low /\ top \in {0, 1} /\ low \in Nat /\ low < 128

LEMMA HighBitIs ==
  ASSUME NEW b \in Nat, b < 256
  PROVE  HighBit(b, b \div 128, b % 128)
  BY SMT DEF HighBit

\* The sign, the exponent and the mantissa of a float are its bits.
LEMMA FloatParts ==
  ASSUME NEW v, IsFloat(v)
  PROVE  /\ Sign(v) \in {0, 1}
         /\ Exponent(v) \in Nat /\ Exponent(v) < 256
         /\ Mantissa(v) \in Nat /\ Mantissa(v) < 8388608
         /\ Magnitude(v) = 8388608 * Exponent(v) + Mantissa(v)
<1>1. /\ v[1] \in Nat /\ v[1] < 256 /\ v[2] \in Nat /\ v[2] < 256
      /\ v[3] \in Nat /\ v[3] < 256 /\ v[4] \in Nat /\ v[4] < 256
  BY FloatIs
<1> DEFINE top == v[1] \div 128
           low == v[1] % 128
           odd == v[2] \div 128
           high == v[2] % 128
<1>2. HighBit(v[1], top, low) /\ HighBit(v[2], odd, high)
  BY <1>1, HighBitIs
<1>4. /\ Sign(v) = top /\ Exponent(v) = 2 * low + odd
      /\ Mantissa(v) = 65536 * high + 256 * v[3] + v[4]
      /\ Magnitude(v) = 16777216 * low + 65536 * v[2] + 256 * v[3] + v[4]
  BY SMT DEF Sign, Exponent, Mantissa, Magnitude
<1> HIDE DEF top, low, odd, high
<1>5. Sign(v) \in {0, 1} /\ Exponent(v) \in Nat /\ Exponent(v) < 256
  BY SMT, <1>2, <1>4 DEF HighBit
<1>6. Mantissa(v) \in Nat /\ Mantissa(v) < 8388608
  BY SMT, <1>1, <1>2, <1>4 DEF HighBit
<1>7. Magnitude(v) = 8388608 * Exponent(v) + Mantissa(v)
  BY SMT, <1>1, <1>2, <1>4 DEF HighBit
<1> QED
  BY SMT, <1>5, <1>6, <1>7

\* v is the float of a sign, an exponent and a mantissa.
FloatOf(v, sign, e, m) ==
  /\ IsFloat(v)
  /\ Sign(v) = sign /\ Exponent(v) = e /\ Mantissa(v) = m
  /\ Magnitude(v) = 8388608 * e + m

LEMMA FloatBytesIs ==
  ASSUME NEW sign \in {0, 1}, NEW e \in Nat, e < 256, NEW m \in Nat, m < 8388608,
         NEW v, v = FloatBytes(sign, e, m)
  PROVE  FloatOf(v, sign, e, m)
<1>1. PICK v1, v2, v3, v4 :
        /\ v1 = 128 * sign + (e \div 2) /\ v2 = 128 * (e % 2) + (m \div 65536)
        /\ v3 = (m \div 256) % 256 /\ v4 = m % 256
  BY SMT
<1>2. /\ v1 \in Nat /\ v1 < 256 /\ v2 \in Nat /\ v2 < 256
      /\ v3 \in Nat /\ v3 < 256 /\ v4 \in Nat /\ v4 < 256
  BY SMT, <1>1
<1>3. v = <<v1, v2, v3, v4>>
  BY SMT, <1>1 DEF FloatBytes
<1>4. v1 \div 128 = sign /\ v1 % 128 = e \div 2 /\ v2 \div 128 = e % 2 /\ v2 % 128 = m \div 65536
  BY SMT, <1>1
<1>5. 2 * (e \div 2) + (e % 2) = e
  BY SMT
<1>6. 65536 * (m \div 65536) + 256 * v3 + v4 = m
  BY SMT, <1>1
<1>7. IsFloat(v) /\ v[1] = v1 /\ v[2] = v2 /\ v[3] = v3 /\ v[4] = v4
  BY SMT, <1>2, <1>3, ByteIs DEF IsFloat
<1>8. Sign(v) = sign /\ Exponent(v) = e /\ Mantissa(v) = m
  BY SMT, <1>4, <1>5, <1>6, <1>7 DEF Sign, Exponent, Mantissa
<1> QED
  BY SMT, <1>7, <1>8, FloatParts DEF FloatOf

Pow(k) == 2^k

LEMMA Powers ==
  ASSUME NEW k \in 0..11
  PROVE  \/ k = 0 /\ Pow(k) = 1 /\ Pow(k + 1) = 2 /\ Pow(23 - k) = 8388608
         \/ k = 1 /\ Pow(k) = 2 /\ Pow(k + 1) = 4 /\ Pow(23 - k) = 4194304
         \/ k = 2 /\ Pow(k) = 4 /\ Pow(k + 1) = 8 /\ Pow(23 - k) = 2097152
         \/ k = 3 /\ Pow(k) = 8 /\ Pow(k + 1) = 16 /\ Pow(23 - k) = 1048576
         \/ k = 4 /\ Pow(k) = 16 /\ Pow(k + 1) = 32 /\ Pow(23 - k) = 524288
         \/ k = 5 /\ Pow(k) = 32 /\ Pow(k + 1) = 64 /\ Pow(23 - k) = 262144
         \/ k = 6 /\ Pow(k) = 64 /\ Pow(k + 1) = 128 /\ Pow(23 - k) = 131072
         \/ k = 7 /\ Pow(k) = 128 /\ Pow(k + 1) = 256 /\ Pow(23 - k) = 65536
         \/ k = 8 /\ Pow(k) = 256 /\ Pow(k + 1) = 512 /\ Pow(23 - k) = 32768
         \/ k = 9 /\ Pow(k) = 512 /\ Pow(k + 1) = 1024 /\ Pow(23 - k) = 16384
         \/ k = 10 /\ Pow(k) = 1024 /\ Pow(k + 1) = 2048 /\ Pow(23 - k) = 8192
         \/ k = 11 /\ Pow(k) = 2048 /\ Pow(k + 1) = 4096 /\ Pow(23 - k) = 4096
<1>0. CASE k = 0
  BY SMT, <1>0 DEF Pow
<1>1. CASE k = 1
  BY SMT, <1>1 DEF Pow
<1>2. CASE k = 2
  BY SMT, <1>2 DEF Pow
<1>3. CASE k = 3
  BY SMT, <1>3 DEF Pow
<1>4. CASE k = 4
  BY SMT, <1>4 DEF Pow
<1>5. CASE k = 5
  BY SMT, <1>5 DEF Pow
<1>6. CASE k = 6
  BY SMT, <1>6 DEF Pow
<1>7. CASE k = 7
  BY SMT, <1>7 DEF Pow
<1>8. CASE k = 8
  BY SMT, <1>8 DEF Pow
<1>9. CASE k = 9
  BY SMT, <1>9 DEF Pow
<1>10. CASE k = 10
  BY SMT, <1>10 DEF Pow
<1>11. CASE k = 11
  BY SMT, <1>11 DEF Pow
<1> QED
  BY SMT, <1>0, <1>1, <1>2, <1>3, <1>4, <1>5, <1>6, <1>7, <1>8, <1>9, <1>10, <1>11

LEMMA LdexpIs ==
  ASSUME NEW sign, NEW n \in Nat, NEW x, NEW t \in 0..11, Pow(t) <= n, n < Pow(t + 1)
  PROVE  Ldexp(sign, n, x) = FloatBytes(sign, t + x + 127, (n - Pow(t)) * Pow(23 - t))
<1>1. n # 0
  BY SMT, Powers
<1>2. \A k \in 0..11 : Pow(k) <= n /\ n < Pow(k + 1) => k = t
  <2> SUFFICES ASSUME NEW k \in 0..11, Pow(k) <= n, n < Pow(k + 1) PROVE k = t
    BY SMT
  <2> QED
    BY SMT, Powers
<1> DEFINE top == CHOOSE k \in 0..11 : Pow(k) <= n /\ n < Pow(k + 1)
<1>3. top = t
  BY SMT, <1>2
<1>4. Ldexp(sign, n, x) = FloatBytes(sign, top + x + 127, (n - Pow(top)) * Pow(23 - top))
  BY SMT, <1>1 DEF Ldexp, Pow
<1> HIDE DEF top
<1> QED
  BY SMT, <1>3, <1>4

LEMMA BinadeIs ==
  ASSUME NEW t \in 0..11, NEW n \in Nat, Pow(t) <= n, n < Pow(t + 1)
  PROVE  /\ (n - Pow(t)) * Pow(23 - t) = n * Pow(23 - t) - 8388608
         /\ n * Pow(23 - t) - 8388608 \in Nat
         /\ n * Pow(23 - t) - 8388608 < 8388608
  BY SMT, Powers

LEMMA LdexpFloat ==
  ASSUME NEW sign \in {0, 1}, NEW t \in 0..11, NEW n \in Nat, Pow(t) <= n, n < Pow(t + 1),
         NEW x \in Int, t + x + 127 \in Nat, t + x + 127 < 256
  PROVE  FloatOf(Ldexp(sign, n, x), sign, t + x + 127, n * Pow(23 - t) - 8388608)
<1> DEFINE e == t + x + 127
           m == n * Pow(23 - t) - 8388608
<1>1. e \in Nat /\ e < 256
  BY SMT
<1>2. m \in Nat /\ m < 8388608 /\ m = (n - Pow(t)) * Pow(23 - t)
  BY SMT, BinadeIs
<1>3. Ldexp(sign, n, x) = FloatBytes(sign, e, (n - Pow(t)) * Pow(23 - t))
  BY SMT, LdexpIs
<1> HIDE DEF e, m
<1>4. Ldexp(sign, n, x) = FloatBytes(sign, e, m)
  BY SMT, <1>2, <1>3
<1>5. FloatOf(Ldexp(sign, n, x), sign, e, m)
  BY SMT, <1>1, <1>2, <1>4, FloatBytesIs
<1> QED
  BY SMT, <1>5 DEF e, m

\* The magnitude of a half with one bit more: Midpoint is that of an odd number,
\* and the halves are those of the even ones.
Scaled(g) ==
  Magnitude(IF g < 2048 THEN Ldexp(0, g, -25)
            ELSE Ldexp(0, (g % 2048) + 2048, (g \div 2048) - 26))

LEMMA ScaledLow ==
  ASSUME NEW t \in 0..10, NEW g \in Nat, Pow(t) <= g, g < Pow(t + 1)
  PROVE  Scaled(g) = 8388608 * (t + 101) + g * Pow(23 - t)
<1>1. g < 2048 /\ t \in 0..11
  BY SMT, Powers
<1>2. t + (-25) + 127 \in Nat /\ t + (-25) + 127 < 256 /\ -25 \in Int /\ 0 \in {0, 1}
  BY SMT
<1>3. FloatOf(Ldexp(0, g, -25), 0, t + (-25) + 127, g * Pow(23 - t) - 8388608)
  BY SMT, <1>1, <1>2, LdexpFloat
<1>4. Magnitude(Ldexp(0, g, -25)) = 8388608 * (t + (-25) + 127) + (g * Pow(23 - t) - 8388608)
  BY <1>3 DEF FloatOf
<1>5. Scaled(g) = Magnitude(Ldexp(0, g, -25))
  BY SMT, <1>1 DEF Scaled
<1>6. Pow(23 - t) \in Int
  BY SMT, <1>1, Powers
<1> QED
  BY SMT, <1>4, <1>5, <1>6

LEMMA ScaledHigh ==
  ASSUME NEW g \in Nat, g >= 2048, g < 65536
  PROVE  Scaled(g) = 8388608 * 112 + 4096 * g
<1> DEFINE n == (g % 2048) + 2048
           x == (g \div 2048) - 26
<1>1. /\ n \in Nat /\ n >= 2048 /\ n < 4096 /\ x \in Int /\ x >= -25 /\ x <= 5
      /\ 2048 * (x + 26) + (n - 2048) = g
  BY SMT
<1>2. Scaled(g) = Magnitude(Ldexp(0, n, x))
  BY SMT DEF Scaled
<1> HIDE DEF n, x
<1>3. 11 \in 0..11 /\ Pow(11) = 2048 /\ Pow(11 + 1) = 4096 /\ Pow(23 - 11) = 4096
  BY SMT, Powers
<1>4. 11 + x + 127 \in Nat /\ 11 + x + 127 < 256 /\ Pow(11) <= n /\ n < Pow(11 + 1) /\ 0 \in {0, 1}
  BY SMT, <1>1, <1>3
<1>5. FloatOf(Ldexp(0, n, x), 0, 11 + x + 127, n * Pow(23 - 11) - 8388608)
  BY SMT, <1>1, <1>3, <1>4, LdexpFloat
<1>6. Magnitude(Ldexp(0, n, x)) = 8388608 * (11 + x + 127) + (n * 4096 - 8388608)
  BY SMT, <1>3, <1>5 DEF FloatOf
<1> QED
  BY SMT, <1>1, <1>2, <1>6

LEMMA ScaledZero == Scaled(0) = 0
<1>1. Scaled(0) = Magnitude(FloatBytes(0, 0, 0))
  BY SMT DEF Scaled, Ldexp
<1>2. FloatOf(FloatBytes(0, 0, 0), 0, 0, 0)
  BY SMT, FloatBytesIs
<1> QED
  BY SMT, <1>1, <1>2 DEF FloatOf

LEMMA InBinade ==
  ASSUME NEW g \in Nat, g >= 1, g < 2048
  PROVE  \E t \in 0..10 : Pow(t) <= g /\ g < Pow(t + 1)
<1>1. /\ Pow(0) = 1 /\ Pow(0 + 1) = 2 /\ Pow(1) = 2 /\ Pow(1 + 1) = 4
      /\ Pow(2) = 4 /\ Pow(2 + 1) = 8 /\ Pow(3) = 8 /\ Pow(3 + 1) = 16
  BY SMT, Powers
<1>2. /\ Pow(4) = 16 /\ Pow(4 + 1) = 32 /\ Pow(5) = 32 /\ Pow(5 + 1) = 64
      /\ Pow(6) = 64 /\ Pow(6 + 1) = 128 /\ Pow(7) = 128 /\ Pow(7 + 1) = 256
  BY SMT, Powers
<1>3. /\ Pow(8) = 256 /\ Pow(8 + 1) = 512 /\ Pow(9) = 512 /\ Pow(9 + 1) = 1024
      /\ Pow(10) = 1024 /\ Pow(10 + 1) = 2048
  BY SMT, Powers
<1>4. CASE g < 16
  BY SMT, <1>1, <1>4
<1>5. CASE g >= 16 /\ g < 256
  BY SMT, <1>2, <1>5
<1>6. CASE g >= 256
  BY SMT, <1>3, <1>6
<1> QED
  BY SMT, <1>4, <1>5, <1>6

LEMMA ScaledBounds ==
  ASSUME NEW t \in 0..10, NEW g \in Nat, Pow(t) <= g, g < Pow(t + 1)
  PROVE  /\ Scaled(g) \in Nat
         /\ 8388608 * (t + 102) <= Scaled(g) /\ Scaled(g) < 8388608 * (t + 103)
<1>1. Scaled(g) = 8388608 * (t + 101) + g * Pow(23 - t)
  BY SMT, ScaledLow
<1>2. t \in 0..11
  OBVIOUS
<1>3. g * Pow(23 - t) - 8388608 \in Nat /\ g * Pow(23 - t) - 8388608 < 8388608
  BY SMT, <1>2, BinadeIs
<1>4. Pow(23 - t) \in Int
  BY SMT, <1>2, Powers
<1> QED
  BY SMT, <1>1, <1>3, <1>4

LEMMA ScaledGrows ==
  ASSUME NEW f \in Nat, NEW g \in Nat, f < g, g < 65536
  PROVE  Scaled(f) \in Nat /\ Scaled(g) \in Nat /\ Scaled(f) < Scaled(g)
<1>1. CASE g < 2048 /\ f >= 1
  <2>1. PICK t \in 0..10 : Pow(t) <= g /\ g < Pow(t + 1)
    BY SMT, <1>1, InBinade
  <2>2. PICK u \in 0..10 : Pow(u) <= f /\ f < Pow(u + 1)
    BY SMT, <1>1, InBinade
  <2>3. CASE u = t
    <3>1. /\ Scaled(f) = 8388608 * (t + 101) + f * Pow(23 - t)
          /\ Scaled(g) = 8388608 * (t + 101) + g * Pow(23 - t)
      BY SMT, <2>1, <2>2, <2>3, ScaledLow
    <3>2. f * Pow(23 - t) < g * Pow(23 - t) /\ Pow(23 - t) \in Int
      <4>1. t \in 0..11
        OBVIOUS
      <4> QED
        BY SMT, <4>1, Powers
    <3>3. Scaled(f) \in Nat /\ Scaled(g) \in Nat
      BY SMT, <2>1, <2>2, ScaledBounds
    <3> QED
      BY SMT, <3>1, <3>2, <3>3
  <2>4. CASE u < t
    <3>1. /\ Scaled(f) \in Nat /\ Scaled(g) \in Nat
          /\ Scaled(f) < 8388608 * (u + 103) /\ 8388608 * (t + 102) <= Scaled(g)
      BY SMT, <2>1, <2>2, ScaledBounds
    <3> QED
      BY SMT, <2>4, <3>1
  <2>5. ~(t < u)
    <3>1. t < u => Pow(t + 1) <= Pow(u)
      <4>1. t \in 0..11 /\ u \in 0..11
        OBVIOUS
      <4> QED
        BY SMT, <4>1, Powers
    <3>2. Pow(t + 1) \in Int /\ Pow(u) \in Int
      <4>1. t \in 0..11 /\ u \in 0..11
        OBVIOUS
      <4> QED
        BY SMT, <4>1, Powers
    <3> QED
      BY SMT, <2>1, <2>2, <3>1, <3>2
  <2> QED
    BY SMT, <2>3, <2>4, <2>5
<1>2. CASE g < 2048 /\ f = 0
  <2>1. PICK t \in 0..10 : Pow(t) <= g /\ g < Pow(t + 1)
    BY SMT, <1>2, InBinade
  <2> QED
    BY SMT, <1>2, <2>1, ScaledZero, ScaledBounds
<1>3. CASE g >= 2048 /\ f >= 2048
  BY SMT, <1>3, ScaledHigh
<1>4. CASE g >= 2048 /\ f < 2048 /\ f >= 1
  <2>1. PICK u \in 0..10 : Pow(u) <= f /\ f < Pow(u + 1)
    BY SMT, <1>4, InBinade
  <2>2. Scaled(f) \in Nat /\ Scaled(f) < 8388608 * (u + 103)
    BY SMT, <2>1, ScaledBounds
  <2>3. Scaled(g) = 8388608 * 112 + 4096 * g
    BY SMT, <1>4, ScaledHigh
  <2> QED
    BY SMT, <1>4, <2>2, <2>3
<1>5. CASE g >= 2048 /\ f = 0
  BY SMT, <1>5, ScaledHigh, ScaledZero
<1> QED
  BY SMT, <1>1, <1>2, <1>3, <1>4, <1>5

\* Of what number a half is the rounded half: one bit more of the float.
RoundedFrom(v, h, a) ==
  /\ a \in Nat /\ a >= 1 /\ a < 63488 /\ h = (a + 1) \div 2
  /\ Scaled(a) <= Magnitude(v) /\ Magnitude(v) < Scaled(a + 1)

\* The halves of a float: the values of EncodeHalf by exponent.
Encoded(v, h) ==
  /\ h \in Nat /\ h <= 31745 /\ EncodeHalf(v) = 32768 * Sign(v) + h
  /\ h = 31745 <=> IsNaN(v)
  /\ Exponent(v) < 103 => h = 0
  /\ Exponent(v) > 142 /\ ~IsNaN(v) => h = 31744
  /\ Exponent(v) >= 103 /\ Exponent(v) <= 142 => \E a : RoundedFrom(v, h, a)

IsShift(D) == D \in {1, 2, 4, 8, 16, 32, 64, 128, 256, 512, 1024}

\* a is m without its last bits, and h is m without one bit more, rounded.
Halved(m, D, a, h) ==
  /\ a \in Nat /\ h = (a + 1) \div 2
  /\ a * D <= m /\ m < (a + 1) * D

LEMMA Halving ==
  ASSUME NEW D, IsShift(D), NEW m \in Nat
  PROVE  Halved(m, D, m \div D, (m \div (2 * D)) + ((m \div D) % 2))
<1>0. CASE D = 1
  BY SMT, <1>0 DEF Halved
<1>1. CASE D = 2
  BY SMT, <1>1 DEF Halved
<1>2. CASE D = 4
  BY SMT, <1>2 DEF Halved
<1>3. CASE D = 8
  BY SMT, <1>3 DEF Halved
<1>4. CASE D = 16
  BY SMT, <1>4 DEF Halved
<1>5. CASE D = 32
  BY SMT, <1>5 DEF Halved
<1>6. CASE D = 64
  BY SMT, <1>6 DEF Halved
<1>7. CASE D = 128
  BY SMT, <1>7 DEF Halved
<1>8. CASE D = 256
  BY SMT, <1>8 DEF Halved
<1>9. CASE D = 512
  BY SMT, <1>9 DEF Halved
<1>10. CASE D = 1024
  BY SMT, <1>10 DEF Halved
<1> QED
  BY SMT, <1>0, <1>1, <1>2, <1>3, <1>4, <1>5, <1>6, <1>7, <1>8, <1>9, <1>10 DEF IsShift

\* The widths of the denormals: 11 bits are kept, but for the leading zeros.
LEMMA Shifts ==
  ASSUME NEW t \in 1..10
  PROVE  /\ IsShift(Pow(11 - t))
         /\ Pow(12 - t) = 2 * Pow(11 - t) /\ Pow(23 - t) = 4096 * Pow(11 - t)
         /\ Pow(t) * Pow(11 - t) = 2048 /\ Pow(t + 1) * Pow(11 - t) = 4096
         /\ Pow(t) \in Nat /\ Pow(t + 1) \in Nat
<1>1. t \in 0..11 /\ 11 - t \in 0..11 /\ (11 - t) + 1 = 12 - t
  BY SMT
<1> DEFINE k == 11 - t
<1>2. /\ k \in 0..11 /\ Pow(12 - t) = Pow(k + 1)
      /\ Pow(11 - t) = Pow(k)
  BY SMT, <1>1
<1>3. t = 11 - k
  BY SMT
<1> HIDE DEF k
<1> QED
  BY SMT, <1>1, <1>2, <1>3, Powers DEF IsShift

LEMMA DenormalRounded ==
  ASSUME NEW v, IsFloat(v), NEW t \in 1..10, Exponent(v) = t + 102
  PROVE  \E a : RoundedFrom(v, RoundDenormal((Mantissa(v) \div 4096) + 2048, Exponent(v)), a)
<1> DEFINE m == (Mantissa(v) \div 4096) + 2048
           D == Pow(11 - t)
           a == m \div D
           h == RoundDenormal(m, Exponent(v))
<1>1. /\ Mantissa(v) \in Nat /\ Mantissa(v) < 8388608
      /\ Magnitude(v) = 8388608 * (t + 102) + Mantissa(v)
  BY SMT, FloatParts
<1>2. /\ m \in Nat /\ m >= 2048 /\ m < 4096
      /\ 4096 * (m - 2048) <= Mantissa(v) /\ Mantissa(v) < 4096 * (m - 2047)
  BY SMT, <1>1
<1>3. /\ IsShift(D)
      /\ Pow(12 - t) = 2 * D /\ Pow(23 - t) = 4096 * D
      /\ Pow(t) * D = 2048 /\ Pow(t + 1) * D = 4096
      /\ Pow(t) \in Nat /\ Pow(t + 1) \in Nat
  BY Shifts
<1>4. h = (m \div (2 * D)) + ((m \div D) % 2)
  <2>1. 114 - Exponent(v) = 12 - t /\ 113 - Exponent(v) = 11 - t
    BY SMT
  <2>2. 2^(114 - Exponent(v)) = Pow(12 - t) /\ 2^(113 - Exponent(v)) = Pow(11 - t)
    BY <2>1 DEF Pow
  <2> QED
    BY <1>3, <2>2 DEF RoundDenormal
<1> HIDE DEF m, D, h
<1>5. /\ a \in Nat /\ h = (a + 1) \div 2 /\ a * D <= m /\ m < (a + 1) * D
  <2>1. Halved(m, D, a, (m \div (2 * D)) + ((m \div D) % 2))
    BY <1>2, <1>3, Halving
  <2> QED
    BY <1>4, <2>1 DEF Halved
<1> HIDE DEF a
<1>6. Pow(t) <= a /\ a < Pow(t + 1)
  <2>1. D \in Nat /\ D >= 1
    BY SMT, <1>3 DEF IsShift
  <2>2. ASSUME NEW i \in Nat, NEW j \in Nat, i * D < (j + 1) * D PROVE i <= j
    BY SMT, <2>1, <2>2
  <2>3. Pow(t) * D < (a + 1) * D
    BY SMT, <1>2, <1>3, <1>5, <2>1
  <2>4. a * D < ((Pow(t + 1) - 1) + 1) * D
    BY SMT, <1>2, <1>3, <1>5, <2>1
  <2>5. Pow(t + 1) - 1 \in Nat
    BY SMT, <1>3, <2>1
  <2> QED
    BY SMT, <1>3, <1>5, <2>2, <2>3, <2>4, <2>5
<1>7. /\ a * Pow(23 - t) = 4096 * (a * D)
      /\ (a + 1) * Pow(23 - t) = 4096 * ((a + 1) * D)
      /\ a * D \in Nat /\ (a + 1) * D \in Nat
  <2>1. D \in Nat /\ a \in Nat /\ Pow(23 - t) = 4096 * D
    BY SMT, <1>3, <1>5 DEF IsShift
  <2>2. \A i \in Nat, d \in Nat : i * (4096 * d) = 4096 * (i * d) /\ i * d \in Nat
    BY SMT
  <2> QED
    BY SMT, <2>1, <2>2
<1>8. /\ a * Pow(23 - t) <= 4096 * m /\ 4096 * (m + 1) <= (a + 1) * Pow(23 - t)
  BY SMT, <1>2, <1>5, <1>7
<1>9. Scaled(a) <= Magnitude(v)
  <2>1. Scaled(a) = 8388608 * (t + 101) + a * Pow(23 - t)
    BY SMT, <1>5, <1>6, ScaledLow
  <2>2. a * Pow(23 - t) \in Nat
    BY SMT, <1>7
  <2> QED
    BY SMT, <1>1, <1>2, <1>8, <2>1, <2>2
<1>10. Magnitude(v) < Scaled(a + 1)
  <2>1. CASE a + 1 < Pow(t + 1)
    <3>1. Scaled(a + 1) = 8388608 * (t + 101) + (a + 1) * Pow(23 - t)
      BY SMT, <1>3, <1>5, <1>6, <2>1, ScaledLow
    <3>2. (a + 1) * Pow(23 - t) \in Nat
      BY SMT, <1>7
    <3> QED
      BY SMT, <1>1, <1>2, <1>8, <3>1, <3>2
  <2>2. CASE ~(a + 1 < Pow(t + 1))
    <3>1. a + 1 = Pow(t + 1)
      BY SMT, <1>3, <1>5, <1>6, <2>2
    <3>2. CASE t = 10
      <4>1. Pow(t + 1) = 2048
        BY SMT, <3>2, Powers
      <4>2. Scaled(2048) = 8388608 * 112 + 4096 * 2048
        BY SMT, ScaledHigh
      <4> QED
        BY SMT, <1>1, <3>1, <3>2, <4>1, <4>2
    <3>3. CASE t # 10
      <4>1. /\ t + 1 \in 0..10 /\ Pow(t + 1) <= a + 1 /\ a + 1 \in Nat
        BY SMT, <1>3, <1>5, <3>1, <3>3
      <4>2. a + 1 < Pow((t + 1) + 1)
        <5>1. t + 1 \in 0..11
          BY SMT, <3>3
        <5> QED
          BY SMT, <3>1, <5>1, Powers
      <4>3. 8388608 * ((t + 1) + 102) <= Scaled(a + 1) /\ Scaled(a + 1) \in Nat
        BY SMT, <4>1, <4>2, ScaledBounds
      <4> QED
        BY SMT, <1>1, <4>3
    <3> QED
      BY <3>2, <3>3
  <2> QED
    BY <2>1, <2>2
<1>11. a >= 1 /\ a < 63488
  <2>1. Pow(t) >= 1 /\ Pow(t + 1) <= 2048 /\ Pow(t) \in Nat /\ Pow(t + 1) \in Nat
    <3>1. t \in 0..11
      BY SMT
    <3> QED
      BY SMT, <3>1, Powers
  <2> QED
    BY SMT, <1>5, <1>6, <2>1
<1>12. RoundedFrom(v, h, a)
  BY <1>5, <1>9, <1>10, <1>11 DEF RoundedFrom
<1> QED
  BY <1>12 DEF h, m

LEMMA EncodeCases ==
  ASSUME NEW v, IsFloat(v)
  PROVE  LET e == Exponent(v)
             q == Mantissa(v) \div 4096
             s == 32768 * Sign(v)
         IN  /\ e < 103 => EncodeHalf(v) = s
             /\ e > 142 => EncodeHalf(v) = s + (31744 + (IF IsNaN(v) THEN 1 ELSE 0))
             /\ e >= 103 /\ e <= 112 => EncodeHalf(v) = s + RoundDenormal(q + 2048, e)
             /\ e >= 113 /\ e <= 142 =>
                  EncodeHalf(v) = s + (1024 * (e - 112) + (q \div 2) + (q % 2))
<1> DEFINE e == Exponent(v)
           q == Mantissa(v) \div 4096
           s == 32768 * Sign(v)
           nan == IF IsNaN(v) THEN 1 ELSE 0
           low == RoundDenormal(q + 2048, e)
           high == 1024 * (e - 112) + (q \div 2) + (q % 2)
<1>1. e \in Nat /\ s \in Nat
  BY SMT, FloatParts
<1>2. EncodeHalf(v) = s + (CASE e < 103 -> 0
                            [] e > 142 -> 31744 + nan
                            [] e \in 103..112 -> low
                            [] e \in 113..142 -> high)
  BY DEF EncodeHalf
<1> HIDE DEF e, q, s, nan, low, high
<1>3. e < 103 => EncodeHalf(v) = s
  BY SMT, <1>1, <1>2
<1>4. e > 142 => EncodeHalf(v) = s + (31744 + nan)
  BY SMT, <1>1, <1>2
<1>5. e >= 103 /\ e <= 112 => EncodeHalf(v) = s + low
  BY SMT, <1>1, <1>2
<1>6. e >= 113 /\ e <= 142 => EncodeHalf(v) = s + high
  BY SMT, <1>1, <1>2
<1> QED
  BY <1>3, <1>4, <1>5, <1>6 DEF e, q, s, nan, low, high

LEMMA NormalRounded ==
  ASSUME NEW v, IsFloat(v), Exponent(v) >= 113, Exponent(v) <= 142,
         NEW q, q = Mantissa(v) \div 4096
  PROVE  \E a : RoundedFrom(v, 1024 * (Exponent(v) - 112) + (q \div 2) + (q % 2), a)
<1> DEFINE e == Exponent(v)
           a == 2048 * (e - 112) + q
           h == 1024 * (e - 112) + (q \div 2) + (q % 2)
<1>1. /\ e \in Nat /\ Mantissa(v) \in Nat /\ Mantissa(v) < 8388608
      /\ Magnitude(v) = 8388608 * e + Mantissa(v)
  BY SMT, FloatParts
<1>2. q \in Nat /\ q < 2048 /\ 4096 * q <= Mantissa(v) /\ Mantissa(v) < 4096 * (q + 1)
  BY SMT, <1>1
<1>3. e >= 113 /\ e <= 142
  OBVIOUS
<1> HIDE DEF e
<1>4. a \in Nat /\ a >= 2048 /\ a < 63488
  BY SMT, <1>1, <1>2, <1>3
<1>5. h = (a + 1) \div 2
  <2>1. q = 2 * (q \div 2) + (q % 2) /\ q % 2 \in {0, 1} /\ q \div 2 \in Nat
    BY SMT, <1>2
  <2>2. h \in Nat /\ a + 1 \in Nat /\ (a + 1 = 2 * h \/ a + 1 = 2 * h + 1)
    BY SMT, <1>1, <1>2, <1>3, <2>1
  <2>3. \A x \in Nat, y \in Nat : y = 2 * x \/ y = 2 * x + 1 => y \div 2 = x
    BY SMT
  <2> HIDE DEF h, a
  <2> QED
    BY <2>2, <2>3
<1>6. Scaled(a) = 8388608 * 112 + 4096 * a /\ Scaled(a + 1) = 8388608 * 112 + 4096 * (a + 1)
  BY SMT, <1>4, ScaledHigh
<1>7. Scaled(a) <= Magnitude(v) /\ Magnitude(v) < Scaled(a + 1)
  BY SMT, <1>1, <1>2, <1>3, <1>6
<1>8. RoundedFrom(v, h, a)
  BY SMT, <1>4, <1>5, <1>7 DEF RoundedFrom
<1> QED
  BY <1>8 DEF e

LEMMA RoundedSize ==
  ASSUME NEW v, NEW h, NEW a, RoundedFrom(v, h, a)
  PROVE  h \in Nat /\ h <= 31744
BY SMT DEF RoundedFrom

LEMMA EncodeIs == ASSUME NEW v, IsFloat(v) PROVE \E h : Encoded(v, h)
<1> DEFINE e == Exponent(v)
           q == Mantissa(v) \div 4096
           s == 32768 * Sign(v)
<1>1. /\ e < 103 => EncodeHalf(v) = s
      /\ e > 142 => EncodeHalf(v) = s + (31744 + (IF IsNaN(v) THEN 1 ELSE 0))
      /\ e >= 103 /\ e <= 112 => EncodeHalf(v) = s + RoundDenormal(q + 2048, e)
      /\ e >= 113 /\ e <= 142 =>
           EncodeHalf(v) = s + (1024 * (e - 112) + (q \div 2) + (q % 2))
  BY EncodeCases
<1>2. e \in Nat /\ s \in Nat /\ (IsNaN(v) => e = 255)
  BY SMT, FloatParts DEF IsNaN
<1>3. CASE e < 103
  <2>1. EncodeHalf(v) = s + 0 /\ ~IsNaN(v)
    BY SMT, <1>1, <1>2, <1>3
  <2>2. Encoded(v, 0)
    BY SMT, <1>2, <1>3, <2>1 DEF Encoded
  <2> QED
    BY <2>2
<1>4. CASE e > 142
  <2>1. CASE IsNaN(v)
    <3>1. Encoded(v, 31745)
      BY SMT, <1>1, <1>2, <1>4, <2>1 DEF Encoded
    <3> QED
      BY SMT, <3>1
  <2>2. CASE ~IsNaN(v)
    <3>1. Encoded(v, 31744)
      BY SMT, <1>1, <1>2, <1>4, <2>2 DEF Encoded
    <3> QED
      BY SMT, <3>1
  <2> QED
    BY <2>1, <2>2
<1>5. ASSUME NEW h, EncodeHalf(v) = s + h, e >= 103, e <= 142, \E a : RoundedFrom(v, h, a)
      PROVE  Encoded(v, h)
  <2>1. h \in Nat /\ h <= 31744
    BY <1>5, RoundedSize
  <2>2. ~IsNaN(v)
    BY SMT, <1>2, <1>5
  <2>3. h # 31745 /\ ~(e < 103) /\ ~(e > 142)
    BY SMT, <1>2, <1>5, <2>1
  <2>4. h <= 31745
    BY SMT, <2>1
  <2> QED
    BY SMT, <1>5, <2>1, <2>2, <2>3, <2>4 DEF Encoded
<1>6. CASE e >= 103 /\ e <= 112
  <2>1. PICK t \in 1..10 : t = e - 102
    BY SMT, <1>2, <1>6
  <2>2. e = t + 102
    BY SMT, <1>2, <2>1
  <2>3. \E a : RoundedFrom(v, RoundDenormal(q + 2048, e), a)
    BY <2>2, DenormalRounded
  <2>4. e <= 142
    BY SMT, <1>2, <1>6
  <2> HIDE DEF e, q, s
  <2> QED
    BY <1>1, <1>5, <1>6, <2>3, <2>4
<1>7. CASE e >= 113 /\ e <= 142
  <2>1. \E a : RoundedFrom(v, 1024 * (e - 112) + (q \div 2) + (q % 2), a)
    BY <1>7, NormalRounded
  <2>2. e >= 103
    BY SMT, <1>2, <1>7
  <2> HIDE DEF e, q, s
  <2> QED
    BY <1>1, <1>5, <1>7, <2>1, <2>2
<1> QED
  BY SMT, <1>2, <1>3, <1>4, <1>6, <1>7

\* The float that is read for a half.
Decoded(w, sign, h) ==
  /\ IsFloat(w) /\ Sign(w) = sign
  /\ IsNaN(w) <=> h = 31745
  /\ h < 31744 => Magnitude(w) = Scaled(2 * h)
  /\ h = 0 => Exponent(w) = 0
  /\ h >= 1 /\ h < 31744 => Exponent(w) >= 103 /\ Exponent(w) <= 142
  /\ h = 31744 => Exponent(w) = 255

LEMMA DecodeCases ==
  ASSUME NEW sign \in {0, 1}, NEW h \in Nat, h <= 31745
  PROVE  LET w == DecodeHalf(32768 * sign + h)
         IN  /\ h < 1024 => w = Ldexp(sign, h, -24)
             /\ h >= 1024 /\ h < 31744 =>
                  w = Ldexp(sign, (h % 1024) + 1024, (h \div 1024) - 25)
             /\ h >= 31744 => w = FloatBytes(sign, 255, IF h = 31744 THEN 0 ELSE 4194304)
<1> DEFINE half == 32768 * sign + h
           exp == h \div 1024
           mant == h % 1024
           low == Ldexp(sign, mant, -24)
           mid == Ldexp(sign, mant + 1024, exp - 25)
           high == FloatBytes(sign, 255, IF mant = 0 THEN 0 ELSE 2^22)
<1>1. half \div 32768 = sign /\ (half \div 1024) % 32 = exp /\ half % 1024 = mant
  BY SMT
<1>2. DecodeHalf(half) = CASE exp = 0 -> low [] exp \in 1..30 -> mid [] exp = 31 -> high
  <2> DEFINE a == half \div 32768
             b == (half \div 1024) % 32
             c == half % 1024
             d == 2^22
  <2>1. DecodeHalf(half) = CASE b = 0 -> Ldexp(a, c, -24)
                             [] b \in 1..30 -> Ldexp(a, c + 1024, b - 25)
                             [] b = 31 -> FloatBytes(a, 255, IF c = 0 THEN 0 ELSE d)
    BY DEF DecodeHalf
  <2>2. high = FloatBytes(sign, 255, IF mant = 0 THEN 0 ELSE d)
    OBVIOUS
  <2> HIDE DEF a, b, c, d, half, exp, mant
  <2>3. a = sign /\ b = exp /\ c = mant
    BY <1>1 DEF a, b, c
  <2> QED
    BY <2>1, <2>2, <2>3
<1>3. /\ h < 1024 => exp = 0 /\ mant = h
      /\ h >= 1024 /\ h < 31744 => exp \in 1..30
      /\ h >= 31744 => exp = 31 /\ (mant = 0 <=> h = 31744)
  BY SMT
<1>4. /\ h < 1024 => DecodeHalf(half) = low
      /\ h >= 1024 /\ h < 31744 => DecodeHalf(half) = mid
      /\ h >= 31744 => DecodeHalf(half) = high
  <2> HIDE DEF half, exp, mant, low, mid, high
  <2> QED
    BY SMT, <1>2, <1>3
<1>5. /\ h < 1024 => low = Ldexp(sign, h, -24)
      /\ h >= 31744 => high = FloatBytes(sign, 255, IF h = 31744 THEN 0 ELSE 4194304)
  <2>1. 2^22 = 4194304
    BY SMT
  <2> HIDE DEF exp, mant
  <2> QED
    BY SMT, <1>3, <2>1
<1> HIDE DEF low, high
<1> QED
  BY <1>4, <1>5

LEMMA DecodedDenormal ==
  ASSUME NEW sign \in {0, 1}, NEW h \in Nat, h >= 1, h < 1024,
         NEW w, w = Ldexp(sign, h, -24)
  PROVE  Decoded(w, sign, h)
<1>1. PICK t \in 0..10 : Pow(t) <= h /\ h < Pow(t + 1)
  BY SMT, InBinade
<1>2. t \in 0..9 /\ t \in 0..11 /\ t + 1 \in 0..10 /\ t + 1 \in 0..11
  <2>1. t \in 0..11 /\ 10 \in 0..11
    BY SMT
  <2>2. t # 10
    BY SMT, <1>1, <2>1, Powers
  <2> QED
    BY SMT, <2>1, <2>2
<1>3. t + (-24) + 127 \in Nat /\ t + (-24) + 127 < 256 /\ -24 \in Int
  BY SMT, <1>2
<1>4. FloatOf(w, sign, t + (-24) + 127, h * Pow(23 - t) - 8388608)
  BY SMT, <1>1, <1>2, <1>3, LdexpFloat
<1>5. Pow(t + 1) <= 2 * h /\ 2 * h < Pow((t + 1) + 1)
      /\ (2 * h) * Pow(23 - (t + 1)) = h * Pow(23 - t) /\ h * Pow(23 - t) \in Nat
  BY SMT, <1>1, <1>2, Powers
<1>6. Scaled(2 * h) = 8388608 * ((t + 1) + 101) + (2 * h) * Pow(23 - (t + 1))
  <2>1. 2 * h \in Nat
    BY SMT
  <2> QED
    BY SMT, <1>2, <1>5, <2>1, ScaledLow
<1>7. Magnitude(w) = Scaled(2 * h)
  <2>1. Magnitude(w) = 8388608 * (t + (-24) + 127) + (h * Pow(23 - t) - 8388608)
    BY <1>4 DEF FloatOf
  <2> QED
    BY SMT, <1>5, <1>6, <2>1
<1>8. IsFloat(w) /\ Sign(w) = sign /\ Exponent(w) = t + (-24) + 127
  BY <1>4 DEF FloatOf
<1>9. Exponent(w) >= 103 /\ Exponent(w) <= 142 /\ ~IsNaN(w)
  BY SMT, <1>2, <1>8 DEF IsNaN
<1>10. h # 0 /\ h # 31744 /\ h # 31745
  BY SMT
<1> QED
  BY <1>7, <1>8, <1>9, <1>10 DEF Decoded

LEMMA DecodedNormal ==
  ASSUME NEW sign \in {0, 1}, NEW h \in Nat, h >= 1024, h < 31744,
         NEW w, w = Ldexp(sign, (h % 1024) + 1024, (h \div 1024) - 25)
  PROVE  Decoded(w, sign, h)
<1> DEFINE n == (h % 1024) + 1024
           x == (h \div 1024) - 25
<1>1. /\ n \in Nat /\ n >= 1024 /\ n < 2048 /\ x \in Int /\ x >= -24 /\ x <= 5
      /\ 1024 * (x + 25) + (n - 1024) = h
  BY SMT
<1>2. w = Ldexp(sign, n, x)
  OBVIOUS
<1> HIDE DEF n, x
<1>3. /\ 10 \in 0..11 /\ 10 \in 0..10 /\ Pow(10) = 1024 /\ Pow(10 + 1) = 2048
      /\ Pow(23 - 10) = 8192
  BY SMT, Powers
<1>4. 10 + x + 127 \in Nat /\ 10 + x + 127 < 256 /\ Pow(10) <= n /\ n < Pow(10 + 1)
  BY SMT, <1>1, <1>3
<1>5. FloatOf(w, sign, 10 + x + 127, n * Pow(23 - 10) - 8388608)
  BY SMT, <1>1, <1>2, <1>3, <1>4, LdexpFloat
<1>6. Magnitude(w) = 8388608 * (10 + x + 127) + (n * 8192 - 8388608)
  BY SMT, <1>3, <1>5 DEF FloatOf
<1>7. Scaled(2 * h) = 8388608 * 112 + 4096 * (2 * h)
  BY SMT, ScaledHigh
<1>8. Magnitude(w) = Scaled(2 * h)
  BY SMT, <1>1, <1>6, <1>7
<1>9. IsFloat(w) /\ Sign(w) = sign /\ Exponent(w) = 10 + x + 127
  BY <1>5 DEF FloatOf
<1>10. Exponent(w) >= 103 /\ Exponent(w) <= 142 /\ ~IsNaN(w)
  BY SMT, <1>1, <1>9 DEF IsNaN
<1>11. h # 0 /\ h # 31744 /\ h # 31745
  BY SMT
<1> QED
  BY <1>8, <1>9, <1>10, <1>11 DEF Decoded

LEMMA DecodeIs ==
  ASSUME NEW sign \in {0, 1}, NEW h \in Nat, h <= 31745
  PROVE  Decoded(DecodeHalf(32768 * sign + h), sign, h)
<1> DEFINE w == DecodeHalf(32768 * sign + h)
<1>1. /\ h < 1024 => w = Ldexp(sign, h, -24)
      /\ h >= 1024 /\ h < 31744 => w = Ldexp(sign, (h % 1024) + 1024, (h \div 1024) - 25)
      /\ h >= 31744 => w = FloatBytes(sign, 255, IF h = 31744 THEN 0 ELSE 4194304)
  BY DecodeCases
<1> SUFFICES Decoded(w, sign, h)
  BY DEF w
<1> HIDE DEF w
<1>2. CASE h = 0
  <2>1. w = FloatBytes(sign, 0, 0)
    BY SMT, <1>1, <1>2 DEF Ldexp
  <2>2. FloatOf(w, sign, 0, 0)
    BY SMT, <2>1, FloatBytesIs
  <2>3. IsFloat(w) /\ Sign(w) = sign /\ Exponent(w) = 0 /\ Magnitude(w) = 0
    BY SMT, <2>2 DEF FloatOf
  <2>4. ~IsNaN(w) /\ Scaled(2 * h) = 0 /\ h # 31745 /\ ~(h >= 1) /\ h # 31744
    BY SMT, <1>2, <2>3, ScaledZero DEF IsNaN
  <2> QED
    BY <1>2, <2>3, <2>4 DEF Decoded
<1>3. CASE h >= 1 /\ h < 1024
  BY SMT, <1>1, <1>3, DecodedDenormal
<1>4. CASE h >= 1024 /\ h < 31744
  BY SMT, <1>1, <1>4, DecodedNormal
<1>5. CASE h >= 31744
  <2>1. PICK m \in Nat : m = (IF h = 31744 THEN 0 ELSE 4194304)
    BY SMT
  <2>2. m < 8388608 /\ w = FloatBytes(sign, 255, m) /\ 255 \in Nat /\ 255 < 256
    BY SMT, <1>1, <1>5, <2>1
  <2>3. FloatOf(w, sign, 255, m)
    BY SMT, <2>2, FloatBytesIs
  <2>4. IsFloat(w) /\ Sign(w) = sign /\ Exponent(w) = 255 /\ Mantissa(w) = m
    BY <2>3 DEF FloatOf
  <2>5. IsNaN(w) <=> h = 31745
    BY SMT, <1>5, <2>1, <2>4 DEF IsNaN
  <2>6. ~(h < 31744) /\ h # 0
    BY SMT, <1>5
  <2> QED
    BY <2>4, <2>5, <2>6 DEF Decoded
<1> QED
  BY SMT, <1>2, <1>3, <1>4, <1>5

\* A float rounded to a half is nearer to no other half.
LEMMA RoundedNearest ==
  ASSUME NEW v, IsFloat(v), NEW h, NEW a, RoundedFrom(v, h, a)
  PROVE  RoundsTo(v, h)
<1>1. /\ a \in Nat /\ a >= 1 /\ a < 63488 /\ h \in Nat
      /\ Scaled(a) <= Magnitude(v) /\ Magnitude(v) < Scaled(a + 1)
      /\ (a = 2 * h \/ a + 1 = 2 * h)
  BY SMT DEF RoundedFrom
<1>2. Magnitude(v) \in Int
  BY SMT, FloatParts
<1>3. Midpoint(h) = Scaled(2 * h + 1) /\ (h > 0 => Midpoint(h - 1) = Scaled(2 * h - 1))
  <2>1. ASSUME NEW g \in Int PROVE Midpoint(g) = Scaled(2 * g + 1)
    BY DEF Midpoint, Scaled
  <2>2. h \in Int /\ h - 1 \in Int /\ 2 * (h - 1) + 1 = 2 * h - 1
    BY SMT, <1>1
  <2> QED
    BY <2>1, <2>2
<1>4. /\ 2 * h \in Nat /\ 2 * h + 1 \in Nat /\ 2 * h + 1 < 65536 /\ 2 * h < 65536
      /\ h > 0 => 2 * h - 1 \in Nat
  BY SMT, <1>1
<1>5. Scaled(2 * h) < Scaled(2 * h + 1) /\ Scaled(2 * h) \in Nat /\ Scaled(2 * h + 1) \in Nat
  BY SMT, <1>4, ScaledGrows
<1>6. h > 0 => Scaled(2 * h - 1) < Scaled(2 * h) /\ Scaled(2 * h - 1) \in Nat
  BY SMT, <1>1, <1>4, ScaledGrows
<1>7. CASE a = 2 * h
  <2>1. Magnitude(v) < Scaled(2 * h + 1) /\ Scaled(2 * h) <= Magnitude(v)
    BY <1>1, <1>7
  <2>2. h > 0 => Magnitude(v) >= Scaled(2 * h - 1)
    BY SMT, <1>2, <1>5, <1>6, <2>1
  <2> QED
    BY <1>3, <2>1, <2>2 DEF RoundsTo
<1>8. CASE a + 1 = 2 * h
  <2>1. a = 2 * h - 1
    BY SMT, <1>1, <1>8
  <2>2. Scaled(2 * h - 1) <= Magnitude(v) /\ Magnitude(v) < Scaled(2 * h) /\ h > 0
    BY SMT, <1>1, <1>8, <2>1
  <2>3. Magnitude(v) < Scaled(2 * h + 1) /\ Magnitude(v) >= Scaled(2 * h - 1)
    BY SMT, <1>2, <1>5, <1>6, <2>2
  <2> QED
    BY <1>3, <2>3 DEF RoundsTo
<1> QED
  BY <1>1, <1>7, <1>8

\* The float of a half lies between the midpoints around it.
LEMMA HalfNearest ==
  ASSUME NEW w, NEW sign, NEW h \in Nat, h < 31744, Decoded(w, sign, h)
  PROVE  RoundsTo(w, h)
<1>1. Magnitude(w) = Scaled(2 * h)
  BY DEF Decoded
<1>2. ASSUME NEW g \in Int PROVE Midpoint(g) = Scaled(2 * g + 1)
  BY DEF Midpoint, Scaled
<1>3. h \in Int /\ h - 1 \in Int /\ 2 * (h - 1) + 1 = 2 * h - 1
  BY SMT
<1>4. Midpoint(h) = Scaled(2 * h + 1) /\ Midpoint(h - 1) = Scaled(2 * h - 1)
  BY <1>2, <1>3
<1>5. /\ 2 * h \in Nat /\ 2 * h + 1 \in Nat /\ 2 * h + 1 < 65536 /\ 2 * h < 65536
      /\ h > 0 => 2 * h - 1 \in Nat
  BY SMT
<1>6. Scaled(2 * h) < Scaled(2 * h + 1)
  BY SMT, <1>5, ScaledGrows
<1>7. h > 0 => Scaled(2 * h) >= Scaled(2 * h - 1)
  BY SMT, <1>5, ScaledGrows
<1> QED
  BY <1>1, <1>4, <1>6, <1>7 DEF RoundsTo

\* The float of a half, but for the NaN, is written as that half.
LEMMA HalfKept ==
  ASSUME NEW w, NEW sign \in {0, 1}, NEW h \in Nat, h <= 31744, Decoded(w, sign, h)
  PROVE  EncodeHalf(w) = 32768 * sign + h
<1>1. IsFloat(w) /\ Sign(w) = sign /\ (h # 31745 => ~IsNaN(w))
  BY DEF Decoded
<1>2. PICK g : Encoded(w, g)
  BY <1>1, EncodeIs
<1>3. EncodeHalf(w) = 32768 * sign + g
  BY <1>1, <1>2 DEF Encoded
<1>4. h # 31745 /\ ~IsNaN(w)
  BY SMT, <1>1
<1>5. CASE h = 0
  <2>1. Exponent(w) < 103
    BY SMT, <1>5 DEF Decoded
  <2> QED
    BY <1>2, <1>3, <1>5, <2>1 DEF Encoded
<1>6. CASE h = 31744
  <2>1. Exponent(w) > 142
    BY SMT, <1>6 DEF Decoded
  <2> QED
    BY <1>2, <1>3, <1>4, <1>6, <2>1 DEF Encoded
<1>7. CASE h >= 1 /\ h < 31744
  <2>1. Exponent(w) >= 103 /\ Exponent(w) <= 142 /\ Magnitude(w) = Scaled(2 * h)
    BY <1>7 DEF Decoded
  <2>2. PICK a : RoundedFrom(w, g, a)
    BY <1>2, <2>1 DEF Encoded
  <2>3. /\ a \in Nat /\ a >= 1 /\ a < 63488 /\ g = (a + 1) \div 2
        /\ Scaled(a) <= Scaled(2 * h) /\ Scaled(2 * h) < Scaled(a + 1)
    BY <2>1, <2>2 DEF RoundedFrom
  <2>4. 2 * h \in Nat /\ 2 * h < 65536 /\ a < 65536 /\ a + 1 \in Nat /\ a + 1 < 65536
    BY SMT, <1>7, <2>3
  <2>5. ~(2 * h < a)
    BY SMT, <2>3, <2>4, ScaledGrows
  <2>6. ~(a + 1 < 2 * h)
    BY SMT, <2>3, <2>4, ScaledGrows
  <2>7. a + 1 # 2 * h
    <3>1. Scaled(a) \in Nat /\ Scaled(a + 1) \in Nat
      BY SMT, <2>3, <2>4, ScaledGrows
    <3> QED
      BY SMT, <2>3, <3>1
  <2>8. a = 2 * h
    BY SMT, <2>3, <2>5, <2>6, <2>7
  <2>9. g = h
    BY SMT, <2>3, <2>8
  <2> QED
    BY <1>3, <2>9
<1> QED
  BY SMT, <1>5, <1>6, <1>7

\* A float and what is read of it when it is sent as a half.
LEMMA HalfSent ==
  ASSUME NEW v, IsFloat(v), NEW w, w = DecodeHalf(EncodeHalf(v))
  PROVE  LET h == EncodeHalf(v) % 32768
         IN  /\ IsFloat(w)
             /\ Exponent(v) \in 103..142 =>
                  RoundsTo(v, h) /\ (h = 31744 \/ RoundsTo(w, h))
             /\ IsNaN(w) \/ EncodeHalf(w) = EncodeHalf(v)
             /\ Sign(w) = Sign(v)
             /\ IsNaN(w) <=> IsNaN(v)
<1>1. PICK h : Encoded(v, h)
  BY EncodeIs
<1>2. /\ h \in Nat /\ h <= 31745 /\ EncodeHalf(v) = 32768 * Sign(v) + h
      /\ h = 31745 <=> IsNaN(v)
      /\ Exponent(v) >= 103 /\ Exponent(v) <= 142 => \E a : RoundedFrom(v, h, a)
  BY <1>1 DEF Encoded
<1>3. Sign(v) \in {0, 1}
  BY FloatParts
<1>4. EncodeHalf(v) % 32768 = h
  BY SMT, <1>2, <1>3
<1>5. Decoded(w, Sign(v), h)
  BY <1>2, <1>3, DecodeIs
<1>6. IsFloat(w) /\ Sign(w) = Sign(v) /\ (IsNaN(w) <=> IsNaN(v))
  BY <1>2, <1>5 DEF Decoded
<1>7. ASSUME Exponent(v) \in 103..142
      PROVE  RoundsTo(v, h) /\ (h = 31744 \/ RoundsTo(w, h))
  <2>1. Exponent(v) >= 103 /\ Exponent(v) <= 142
    BY SMT, <1>7
  <2>2. PICK a : RoundedFrom(v, h, a)
    BY <1>2, <2>1
  <2>3. h <= 31744
    BY <2>2, RoundedSize
  <2>4. RoundsTo(v, h)
    BY <2>2, RoundedNearest
  <2>5. h = 31744 \/ h < 31744
    BY SMT, <1>2, <2>3
  <2> QED
    BY <1>2, <1>5, <2>4, <2>5, HalfNearest
<1>8. IsNaN(w) \/ EncodeHalf(w) = EncodeHalf(v)
  <2>1. h = 31745 \/ h <= 31744
    BY SMT, <1>2
  <2>2. CASE h = 31745
    BY <1>2, <1>6, <2>2
  <2>3. CASE h <= 31744
    BY <1>2, <1>3, <1>5, <2>3, HalfKept
  <2> QED
    BY <2>1, <2>2, <2>3
<1> QED
  BY <1>4, <1>6, <1>7, <1>8

-----------------------------------------------------------------------------
(* The stream: its items, and where they are.                              *)

\* The bytes of an int or an int64_t: -1 - val is written for a negative one.
SignedBytes(v) ==
  IF IsNegative(v) THEN IntBytes(NEGINT, Widen(Complement(v))) ELSE IntBytes(UINT, Widen(v))

HalfBytes(v) == Marked(FLOAT16, <<EncodeHalf(v) \div 256, EncodeHalf(v) % 256>>)

\* The bytes of an item in the stream.
BytesOf(item) ==
  LET v == item.val
  IN  CASE item.kind \in {"int", "int64"} -> SignedBytes(v)
        [] item.kind = "uint64" -> IntBytes(UINT, v)
        [] item.kind = "bool" -> <<IF v THEN TRUEBYTE ELSE FALSEBYTE>>
        [] item.kind = "half" -> HalfBytes(v)
        [] item.kind = "float" -> Marked(FLOAT32, v)
        [] item.kind = "double" -> Marked(FLOAT64, v)
        [] item.kind = "bytes" -> StringItem(BYTES, v)
        [] item.kind = "text" -> StringItem(TEXT, v)
        [] item.kind = "array" -> IntBytes(ARRAY, v)
        [] item.kind = "map" -> IntBytes(MAP, v)
        [] item.kind = "anyArray" -> <<ARRAY + VarFollows>>
        [] item.kind = "anyMap" -> <<MAP + VarFollows>>
        [] item.kind = "break" -> <<BREAK>>

\* What the receiver stores: only a half loses bits.
ReadBack(item) == IF item.kind = "half" THEN DecodeHalf(EncodeHalf(item.val)) ELSE item.val

\* Where the items start: one after the other, from the first byte of the stream to
\* the last, and each is there in full.
Layout(start) ==
  /\ start \in [1..(Len(items) + 1) -> Nat]
  /\ start[1] = 0 /\ start[Len(items) + 1] = Len(stream.data)
  /\ \A k \in 1..Len(items) :
       /\ At(stream.data, start[k], BytesOf(items[k]))
       /\ start[k + 1] = start[k] + Len(BytesOf(items[k]))

\* The receiver stands at the start of the item after those it has read.
InStep(start) == offset = start[Len(values) + 1]

Stream ==
  /\ stream.data \in Seq(Byte) /\ stream.size \in Nat
  /\ Len(stream.data) <= stream.size
  /\ receiving => stream.size = Len(stream.data)
  /\ ~receiving => stream \in [data : Seq(Byte), size : Nat]

Written ==
  /\ load \in DOMAIN Loads /\ receiving \in BOOLEAN
  /\ items \in Seq(Loads[load].items)

ReadSoFar ==
  /\ values \in Seq({ReadBack(item) : item \in Loads[load].items})
  /\ Len(values) <= Len(items)
  /\ \A k \in 1..Len(values) : values[k] = ReadBack(items[k])
  /\ ~receiving => values = <<>> /\ offset = 0

StreamInv ==
  /\ Written /\ Stream /\ ReadSoFar
  /\ \E start : Layout(start) /\ InStep(start)

-----------------------------------------------------------------------------
(* One item: what is written for it, and what is read of that.             *)

Kinds == {"int", "int64", "uint64", "bool", "half", "float", "double", "bytes", "text",
          "array", "map", "anyArray", "anyMap", "break"}

LEMMA TypedValue ==
  ASSUME NEW item, WellTyped(item)
  PROVE  /\ item.kind \in Kinds
         /\ item.kind \in {"int", "half", "float"} => item.val \in [1..4 -> Byte]
         /\ item.kind \in {"int64", "uint64", "double", "array", "map"} => item.val \in Uint64
         /\ item.kind = "bool" => item.val \in BOOLEAN
         /\ item.kind \in {"bytes", "text"} => item.val \in Seq(Byte) /\ Len(item.val) < 65536
         /\ item.kind \in {"anyArray", "anyMap", "break"} => item.val = <<>>
<1>1. ASSUME item.kind \in {"int", "half", "float"} PROVE item.val \in [1..4 -> Byte]
  BY <1>1 DEF WellTyped
<1>2. ASSUME item.kind \in {"int64", "uint64", "double", "array", "map"} PROVE item.val \in Uint64
  BY <1>2 DEF WellTyped
<1>3. ASSUME item.kind = "bool" PROVE item.val \in BOOLEAN
  BY <1>3 DEF WellTyped
<1>4. ASSUME item.kind \in {"bytes", "text"} PROVE item.val \in Seq(Byte) /\ Len(item.val) < 65536
  BY <1>4 DEF WellTyped
<1>5. ASSUME item.kind \in {"anyArray", "anyMap", "break"} PROVE item.val = <<>>
  BY <1>5 DEF WellTyped
<1>6. item.kind \in Kinds
  BY DEF WellTyped, Kinds
<1> QED
  BY <1>1, <1>2, <1>3, <1>4, <1>5, <1>6

LEMMA BytesByKind ==
  ASSUME NEW item, NEW v, v = item.val
  PROVE  /\ item.kind \in {"int", "int64"} => BytesOf(item) = SignedBytes(v)
         /\ item.kind = "uint64" => BytesOf(item) = IntBytes(UINT, v)
         /\ item.kind = "bool" => BytesOf(item) = <<IF v THEN TRUEBYTE ELSE FALSEBYTE>>
         /\ item.kind = "half" => BytesOf(item) = HalfBytes(v)
         /\ item.kind = "float" => BytesOf(item) = Marked(FLOAT32, v)
         /\ item.kind = "double" => BytesOf(item) = Marked(FLOAT64, v)
         /\ item.kind = "bytes" => BytesOf(item) = StringItem(BYTES, v)
         /\ item.kind = "text" => BytesOf(item) = StringItem(TEXT, v)
         /\ item.kind = "array" => BytesOf(item) = IntBytes(ARRAY, v)
         /\ item.kind = "map" => BytesOf(item) = IntBytes(MAP, v)
         /\ item.kind = "anyArray" => BytesOf(item) = <<ARRAY + VarFollows>>
         /\ item.kind = "anyMap" => BytesOf(item) = <<MAP + VarFollows>>
         /\ item.kind = "break" => BytesOf(item) = <<BREAK>>
<1>1. ASSUME item.kind \in {"int", "int64"} PROVE BytesOf(item) = SignedBytes(v)
  BY <1>1 DEF BytesOf
<1>2. ASSUME item.kind = "uint64" PROVE BytesOf(item) = IntBytes(UINT, v)
  BY <1>2 DEF BytesOf
<1>3. ASSUME item.kind = "bool" PROVE BytesOf(item) = <<IF v THEN TRUEBYTE ELSE FALSEBYTE>>
  BY <1>3 DEF BytesOf
<1>4. ASSUME item.kind = "half" PROVE BytesOf(item) = HalfBytes(v)
  BY <1>4 DEF BytesOf
<1>5. ASSUME item.kind = "float" PROVE BytesOf(item) = Marked(FLOAT32, v)
  BY <1>5 DEF BytesOf
<1>6. ASSUME item.kind = "double" PROVE BytesOf(item) = Marked(FLOAT64, v)
  BY <1>6 DEF BytesOf
<1>7. ASSUME item.kind = "bytes" PROVE BytesOf(item) = StringItem(BYTES, v)
  BY <1>7 DEF BytesOf
<1>8. ASSUME item.kind = "text" PROVE BytesOf(item) = StringItem(TEXT, v)
  BY <1>8 DEF BytesOf
<1>9. ASSUME item.kind = "array" PROVE BytesOf(item) = IntBytes(ARRAY, v)
  BY <1>9 DEF BytesOf
<1>10. ASSUME item.kind = "map" PROVE BytesOf(item) = IntBytes(MAP, v)
  BY <1>10 DEF BytesOf
<1>11. ASSUME item.kind = "anyArray" PROVE BytesOf(item) = <<ARRAY + VarFollows>>
  BY <1>11 DEF BytesOf
<1>12. ASSUME item.kind = "anyMap" PROVE BytesOf(item) = <<MAP + VarFollows>>
  BY <1>12 DEF BytesOf
<1>13. ASSUME item.kind = "break" PROVE BytesOf(item) = <<BREAK>>
  BY <1>13 DEF BytesOf
<1> QED
  BY <1>1, <1>2, <1>3, <1>4, <1>5, <1>6, <1>7, <1>8, <1>9, <1>10, <1>11, <1>12, <1>13

LEMMA SerializeByKind ==
  ASSUME NEW item, NEW s, NEW v, v = item.val
  PROVE  /\ item.kind \in {"int", "int64"} => Serialize(s, item) = SerializeInt(s, v)
         /\ item.kind = "uint64" => Serialize(s, item) = SerializeUint64(s, v)
         /\ item.kind = "bool" => Serialize(s, item) = SerializeBool(s, v)
         /\ item.kind = "half" => Serialize(s, item) = SerializeFloatHalf(s, v)
         /\ item.kind = "float" => Serialize(s, item) = SerializeFloat(s, v)
         /\ item.kind = "double" => Serialize(s, item) = SerializeDouble(s, v)
         /\ item.kind = "bytes" => Serialize(s, item) = SerializeByteString(s, v)
         /\ item.kind = "text" => Serialize(s, item) = SerializeUnicodeString(s, v)
         /\ item.kind = "array" => Serialize(s, item) = SerializeArray(s, v)
         /\ item.kind = "map" => Serialize(s, item) = SerializeMap(s, v)
         /\ item.kind = "anyArray" => Serialize(s, item) = SerializeIndefinite(ARRAY, s)
         /\ item.kind = "anyMap" => Serialize(s, item) = SerializeIndefinite(MAP, s)
         /\ item.kind = "break" => Serialize(s, item) = WriteBreak(s)
<1>1. ASSUME item.kind \in {"int", "int64"} PROVE Serialize(s, item) = SerializeInt(s, v)
  BY <1>1 DEF Serialize
<1>2. ASSUME item.kind = "uint64" PROVE Serialize(s, item) = SerializeUint64(s, v)
  BY <1>2 DEF Serialize
<1>3. ASSUME item.kind = "bool" PROVE Serialize(s, item) = SerializeBool(s, v)
  BY <1>3 DEF Serialize
<1>4. ASSUME item.kind = "half" PROVE Serialize(s, item) = SerializeFloatHalf(s, v)
  BY <1>4 DEF Serialize
<1>5. ASSUME item.kind = "float" PROVE Serialize(s, item) = SerializeFloat(s, v)
  BY <1>5 DEF Serialize
<1>6. ASSUME item.kind = "double" PROVE Serialize(s, item) = SerializeDouble(s, v)
  BY <1>6 DEF Serialize
<1>7. ASSUME item.kind = "bytes" PROVE Serialize(s, item) = SerializeByteString(s, v)
  BY <1>7 DEF Serialize
<1>8. ASSUME item.kind = "text" PROVE Serialize(s, item) = SerializeUnicodeString(s, v)
  BY <1>8 DEF Serialize
<1>9. ASSUME item.kind = "array" PROVE Serialize(s, item) = SerializeArray(s, v)
  BY <1>9 DEF Serialize
<1>10. ASSUME item.kind = "map" PROVE Serialize(s, item) = SerializeMap(s, v)
  BY <1>10 DEF Serialize
<1>11. ASSUME item.kind = "anyArray" PROVE Serialize(s, item) = SerializeIndefinite(ARRAY, s)
  BY <1>11 DEF Serialize
<1>12. ASSUME item.kind = "anyMap" PROVE Serialize(s, item) = SerializeIndefinite(MAP, s)
  BY <1>12 DEF Serialize
<1>13. ASSUME item.kind = "break" PROVE Serialize(s, item) = WriteBreak(s)
  BY <1>13 DEF Serialize
<1> QED
  BY <1>1, <1>2, <1>3, <1>4, <1>5, <1>6, <1>7, <1>8, <1>9, <1>10, <1>11, <1>12, <1>13

LEMMA DeserializeByKind ==
  ASSUME NEW s, NEW kind, NEW k
  PROVE  /\ kind = "int" => Deserialize(s, kind, k) = DeserializeInt(s, k)
         /\ kind = "int64" => Deserialize(s, kind, k) = DeserializeInt64(s, k)
         /\ kind = "uint64" => Deserialize(s, kind, k) = DeserializeUint64(s, k)
         /\ kind = "bool" => Deserialize(s, kind, k) = DeserializeBool(s, k)
         /\ kind = "half" => Deserialize(s, kind, k) = DeserializeFloatHalf(s, k)
         /\ kind = "float" => Deserialize(s, kind, k) = DeserializeFloat(s, k)
         /\ kind = "double" => Deserialize(s, kind, k) = DeserializeDouble(s, k)
         /\ kind = "bytes" => Deserialize(s, kind, k) = DecodeBytes(BYTES, s, k, s.size)
         /\ kind = "text" => Deserialize(s, kind, k) = DecodeBytes(TEXT, s, k, s.size)
         /\ kind = "array" => Deserialize(s, kind, k) = DeserializeArray(s, k)
         /\ kind = "map" => Deserialize(s, kind, k) = DeserializeMap(s, k)
         /\ kind = "anyArray" => Deserialize(s, kind, k) = DeserializeIndefinite(ARRAY, s, k)
         /\ kind = "anyMap" => Deserialize(s, kind, k) = DeserializeIndefinite(MAP, s, k)
         /\ kind = "break" =>
              Deserialize(s, kind, k) = IF ByteAt(s, k) = BREAK THEN Read(1, <<>>) ELSE Failed
<1>1. ASSUME kind = "int" PROVE Deserialize(s, kind, k) = DeserializeInt(s, k)
  BY <1>1 DEF Deserialize, DeserializeByteString, DeserializeUnicodeString
<1>2. ASSUME kind = "int64" PROVE Deserialize(s, kind, k) = DeserializeInt64(s, k)
  BY <1>2 DEF Deserialize, DeserializeByteString, DeserializeUnicodeString
<1>3. ASSUME kind = "uint64" PROVE Deserialize(s, kind, k) = DeserializeUint64(s, k)
  BY <1>3 DEF Deserialize, DeserializeByteString, DeserializeUnicodeString
<1>4. ASSUME kind = "bool" PROVE Deserialize(s, kind, k) = DeserializeBool(s, k)
  BY <1>4 DEF Deserialize, DeserializeByteString, DeserializeUnicodeString
<1>5. ASSUME kind = "half" PROVE Deserialize(s, kind, k) = DeserializeFloatHalf(s, k)
  BY <1>5 DEF Deserialize, DeserializeByteString, DeserializeUnicodeString
<1>6. ASSUME kind = "float" PROVE Deserialize(s, kind, k) = DeserializeFloat(s, k)
  BY <1>6 DEF Deserialize, DeserializeByteString, DeserializeUnicodeString
<1>7. ASSUME kind = "double" PROVE Deserialize(s, kind, k) = DeserializeDouble(s, k)
  BY <1>7 DEF Deserialize, DeserializeByteString, DeserializeUnicodeString
<1>8. ASSUME kind = "bytes" PROVE Deserialize(s, kind, k) = DecodeBytes(BYTES, s, k, s.size)
  BY <1>8 DEF Deserialize, DeserializeByteString, DeserializeUnicodeString
<1>9. ASSUME kind = "text" PROVE Deserialize(s, kind, k) = DecodeBytes(TEXT, s, k, s.size)
  BY <1>9 DEF Deserialize, DeserializeByteString, DeserializeUnicodeString
<1>10. ASSUME kind = "array" PROVE Deserialize(s, kind, k) = DeserializeArray(s, k)
  BY <1>10 DEF Deserialize, DeserializeByteString, DeserializeUnicodeString
<1>11. ASSUME kind = "map" PROVE Deserialize(s, kind, k) = DeserializeMap(s, k)
  BY <1>11 DEF Deserialize, DeserializeByteString, DeserializeUnicodeString
<1>12. ASSUME kind = "anyArray" PROVE Deserialize(s, kind, k) = DeserializeIndefinite(ARRAY, s, k)
  BY <1>12 DEF Deserialize, DeserializeByteString, DeserializeUnicodeString
<1>13. ASSUME kind = "anyMap" PROVE Deserialize(s, kind, k) = DeserializeIndefinite(MAP, s, k)
  BY <1>13 DEF Deserialize, DeserializeByteString, DeserializeUnicodeString
<1>14. ASSUME kind = "break" PROVE Deserialize(s, kind, k) = IF ByteAt(s, k) = BREAK THEN Read(1, <<>>) ELSE Failed
  BY <1>14 DEF Deserialize, DeserializeByteString, DeserializeUnicodeString
<1> QED
  BY <1>1, <1>2, <1>3, <1>4, <1>5, <1>6, <1>7, <1>8, <1>9, <1>10, <1>11, <1>12, <1>13, <1>14

\* What is written for an item is a sequence of bytes, and not an empty one.
Sized(b) == b \in Seq(Byte) /\ b \in Seq(Nat) /\ Len(b) \in Nat /\ Len(b) >= 1

LEMMA SignedSize ==
  ASSUME NEW n \in {4, 8}, NEW v \in [1..n -> Byte]
  PROVE  Sized(SignedBytes(v))
<1>1. Widen(v) \in Uint64 /\ Widen(Complement(v)) \in Uint64
  BY SignedBack
<1>2. UINT \in Majors /\ NEGINT \in Majors
  BY MajorTypes
<1>3. Sized(IntBytes(UINT, Widen(v))) /\ Sized(IntBytes(NEGINT, Widen(Complement(v))))
  BY <1>1, <1>2, IntBytesSize DEF Sized
<1> QED
  BY <1>3 DEF SignedBytes

LEMMA OneByteSize == ASSUME NEW b \in Byte, NEW one, one = <<b>> PROVE Sized(one) /\ Len(one) = 1
<1>1. one \in Seq(Byte) /\ Len(one) = 1
  OBVIOUS
<1>2. one \in Seq(Nat)
  BY <1>1, BytesAreNumbers
<1>3. Len(one) \in Nat /\ Len(one) >= 1
  BY SMT, <1>1
<1> QED
  BY <1>1, <1>2, <1>3 DEF Sized

\* The two bytes of a half.
LEMMA HalfSplit ==
  ASSUME NEW v, IsFloat(v)
  PROVE  LET hi == EncodeHalf(v) \div 256
             lo == EncodeHalf(v) % 256
         IN  /\ hi \in Byte /\ lo \in Byte /\ 256 * hi + lo = EncodeHalf(v)
             /\ <<hi, lo>> \in Seq(Byte) /\ Len(<<hi, lo>>) = 2
<1>1. PICK h : Encoded(v, h)
  BY EncodeIs
<1>2. EncodeHalf(v) \in Nat /\ EncodeHalf(v) < 65536
  BY SMT, <1>1, FloatParts DEF Encoded
<1>3. PICK hi, lo : hi = EncodeHalf(v) \div 256 /\ lo = EncodeHalf(v) % 256
  OBVIOUS
<1>4. hi \in Nat /\ hi < 256 /\ lo \in Nat /\ lo < 256 /\ 256 * hi + lo = EncodeHalf(v)
  BY SMT, <1>2, <1>3
<1>5. hi \in Byte /\ lo \in Byte
  BY <1>4, ByteIs
<1>6. <<hi, lo>> \in Seq(Byte) /\ Len(<<hi, lo>>) = 2
  BY <1>5
<1> QED
  BY <1>3, <1>4, <1>5, <1>6

LEMMA ItemBytes ==
  ASSUME NEW item, WellTyped(item)
  PROVE  Sized(BytesOf(item))
<1> DEFINE v == item.val
<1>1. CASE item.kind \in {"int", "int64"}
  <2>1. \E n \in {4, 8} : v \in [1..n -> Byte]
    BY <1>1, TypedValue DEF Uint64
  <2> QED
    BY <1>1, <2>1, BytesByKind, SignedSize
<1>2. CASE item.kind \in {"uint64", "array", "map"}
  <2>1. v \in Uint64
    BY <1>2, TypedValue
  <2>2. UINT \in Majors /\ ARRAY \in Majors /\ MAP \in Majors
    BY MajorTypes
  <2>3. \A major \in Majors : Sized(IntBytes(major, v))
    BY <2>1, IntBytesSize DEF Sized
  <2> QED
    BY <1>2, <2>2, <2>3, BytesByKind
<1>3. CASE item.kind \in {"bool", "anyArray", "anyMap", "break"}
  <2>1. /\ TRUEBYTE \in Byte /\ FALSEBYTE \in Byte /\ BREAK \in Byte
        /\ ARRAY + VarFollows \in Byte /\ MAP + VarFollows \in Byte
    BY SMT, MajorTypes, ByteIs
  <2>2. \A b \in Byte : Sized(<<b>>)
    BY OneByteSize
  <2>3. item.kind = "bool" =>
          BytesOf(item) = <<TRUEBYTE>> \/ BytesOf(item) = <<FALSEBYTE>>
    BY BytesByKind
  <2> QED
    BY <1>3, <2>1, <2>2, <2>3, BytesByKind
<1>4. CASE item.kind \in {"half", "float", "double"}
  <2>1. ASSUME NEW b \in Byte, NEW w \in Seq(Byte) PROVE Sized(Marked(b, w))
    <3>1. PICK q : q = Marked(b, w)
      OBVIOUS
    <3> QED
      BY SMT, <3>1, MarkedSize DEF Sized
  <2>2. FLOAT16 \in Byte /\ FLOAT32 \in Byte /\ FLOAT64 \in Byte
    BY SMT, MajorTypes, ByteIs DEF FLOAT16
  <2>3. CASE item.kind = "half"
    <3>1. IsFloat(v)
      BY <2>3, TypedValue DEF IsFloat
    <3>2. Sized(HalfBytes(v))
      BY <2>1, <2>2, <3>1, HalfSplit DEF HalfBytes
    <3> QED
      BY <2>3, <3>2, BytesByKind
  <2>4. CASE item.kind = "float"
    <3>1. v \in Seq(Byte)
      <4>1. v \in [1..4 -> Byte]
        BY <2>4, TypedValue
      <4> QED
        BY <4>1, FunctionIsSequence
    <3> QED
      BY <2>1, <2>2, <2>4, <3>1, BytesByKind
  <2>5. CASE item.kind = "double"
    <3>1. v \in Seq(Byte)
      BY <2>5, TypedValue, UintIsSeq
    <3> QED
      BY <2>1, <2>2, <2>5, <3>1, BytesByKind
  <2> QED
    BY <1>4, <2>3, <2>4, <2>5
<1>5. CASE item.kind \in {"bytes", "text"}
  <2>1. v \in Seq(Byte) /\ Len(v) < 65536
    BY <1>5, TypedValue
  <2>2. \A major \in {BYTES, TEXT} : Sized(StringItem(major, v))
    BY <2>1, StringSize DEF Sized
  <2> QED
    BY <1>5, <2>2, BytesByKind
<1> QED
  BY <1>1, <1>2, <1>3, <1>4, <1>5, TypedValue DEF Kinds

LEMMA SerializeIs ==
  ASSUME NEW item, WellTyped(item), NEW s
  PROVE  Serialize(s, item) = Write(s, BytesOf(item))
<1> DEFINE v == item.val
<1>1. CASE item.kind \in {"int", "int64"}
  <2>1. SerializeInt(s, v) = Write(s, SignedBytes(v))
    BY DEF SerializeInt, EncodeInt, SignedBytes
  <2> QED
    BY <1>1, <2>1, BytesByKind, SerializeByKind
<1>2. CASE item.kind \in {"uint64", "array", "map"}
  BY <1>2, BytesByKind, SerializeByKind
     DEF SerializeUint64, SerializeArray, SerializeMap, EncodeInt
<1>3. CASE item.kind \in {"bool", "anyArray", "anyMap", "break"}
  <2>1. CASE item.kind = "bool"
    BY <2>1, BytesByKind, SerializeByKind DEF SerializeBool
  <2>2. CASE item.kind \in {"anyArray", "anyMap"}
    BY <2>2, BytesByKind, SerializeByKind DEF SerializeIndefinite
  <2>3. CASE item.kind = "break"
    BY <2>3, BytesByKind, SerializeByKind DEF WriteBreak
  <2> QED
    BY <1>3, <2>1, <2>2, <2>3
<1>4. CASE item.kind = "half"
  <2> DEFINE hi == EncodeHalf(v) \div 256
             lo == EncodeHalf(v) % 256
  <2>1. HalfBytes(v) = <<FLOAT16>> \o <<hi, lo>>
    BY DEF HalfBytes, Marked
  <2>2. SerializeFloatHalf(s, v) = Write(s, <<FLOAT16, hi, lo>>)
    BY DEF SerializeFloatHalf
  <2>3. ASSUME NEW b \in Byte, NEW x \in Byte, NEW y \in Byte
        PROVE  <<b>> \o <<x, y>> = <<b, x, y>>
    <3>1. PICK u : u = <<b>> \o <<x, y>>
      OBVIOUS
    <3>2. PICK w : w = <<b, x, y>>
      OBVIOUS
    <3>3. <<b>> \in Seq(Byte) /\ <<x, y>> \in Seq(Byte)
      OBVIOUS
    <3>4. u \in Seq(Byte) /\ Len(u) = 3 /\ u[1] = b /\ u[2] = x /\ u[3] = y
      BY SMT, <3>1, <3>3
    <3>5. w \in Seq(Byte) /\ Len(w) = 3 /\ w[1] = b /\ w[2] = x /\ w[3] = y
      BY SMT, <3>2
    <3>6. Len(u) = Len(w) /\ \A j \in 1..Len(w) : u[j] = w[j]
      BY SMT, <3>4, <3>5
    <3>7. u = w
      BY <3>4, <3>5, <3>6, SequencesEqual
    <3> QED
      BY <3>1, <3>2, <3>7
  <2>4. hi \in Byte /\ lo \in Byte
    BY <1>4, TypedValue, HalfSplit DEF IsFloat
  <2>5. FLOAT16 \in Byte
    BY SMT, MajorTypes, ByteIs DEF FLOAT16
  <2> HIDE DEF hi, lo
  <2>6. SerializeFloatHalf(s, v) = Write(s, HalfBytes(v))
    BY <2>1, <2>2, <2>3, <2>4, <2>5
  <2> QED
    BY <1>4, <2>6, BytesByKind, SerializeByKind
<1>5. CASE item.kind \in {"float", "double"}
  <2>1. SerializeFloat(s, v) = Write(s, Marked(FLOAT32, v))
    BY DEF SerializeFloat, Marked
  <2>2. SerializeDouble(s, v) = Write(s, Marked(FLOAT64, v))
    BY DEF SerializeDouble, Marked
  <2> QED
    BY <1>5, <2>1, <2>2, BytesByKind, SerializeByKind
<1>6. CASE item.kind \in {"bytes", "text"}
  <2>1. v \in Seq(Byte) /\ Len(v) < 65536
    BY <1>6, TypedValue
  <2>2. \A major \in {BYTES, TEXT} : EncodeBytes(major, s, v) = Write(s, StringItem(major, v))
    BY <2>1, EncodeBytesIs
  <2> QED
    BY <1>6, <2>2, BytesByKind, SerializeByKind DEF SerializeByteString, SerializeUnicodeString
<1> QED
  BY <1>1, <1>2, <1>3, <1>4, <1>5, <1>6, TypedValue DEF Kinds

-----------------------------------------------------------------------------
(* The first byte of an item tells its kind, as far as the readers look at it. *)

FirstByte(kind, b) ==
  /\ b \in Nat
  /\ kind \in Integer => b < 64
  /\ kind = "bytes" => b >= 64 /\ b < 96
  /\ kind = "text" => b >= 96 /\ b < 128
  /\ kind = "half" => b = 249
  /\ kind = "float" => b = 250
  /\ kind = "double" => b = 251
  /\ kind \in {"bool", "array", "map", "anyArray", "anyMap", "break"} =>
       b >= 128 /\ b # 249 /\ b # 250 /\ b # 251

\* An item is read where it was written: the value, and how far to go on.
ReadThere(s, at, item) ==
  LET read == Read(Len(BytesOf(item)), ReadBack(item))
  IN  /\ Deserialize(s, item.kind, at) = read
      /\ item.kind = "bytes" => DecodeBytesNoCopy(BYTES, s, at) = read
      /\ item.kind = "text" => DecodeBytesNoCopy(TEXT, s, at) = read
      /\ FirstByte(item.kind, ByteAt(s, at))

\* A number is there: its head, and what DecodeInt makes of it.
NumberThere(s, at, major, n, v) ==
  /\ TypeAt(s, at) = major
  /\ ByteAt(s, at) \in Nat
  /\ ByteAt(s, at) >= major /\ ByteAt(s, at) < major + 32
  /\ DecodeInt(s, at) = Read(n, v)
  /\ EnsureSizeRead(s, at + 1) /\ n # 0

LEMMA NumberAt ==
  ASSUME NEW s, IsReceived(s), NEW at, NEW major \in Majors, NEW v \in Uint64,
         At(s.data, at, IntBytes(major, v))
  PROVE  NumberThere(s, at, major, Len(IntBytes(major, v)), v)
<1> DEFINE info == UintAdditionalInfo(v)
           n == Len(IntBytes(major, v))
<1>1. TypeAt(s, at) = major /\ ByteAt(s, at) = major + info
  BY HeadAt
<1>2. info \in 0..27
  BY InfoIs
<1>3. major \in Nat
  BY MajorIsNat
<1>4. DecodeInt(s, at) = Read(n, v)
  BY DecodeIntAt
<1>5. n \in Nat /\ n >= 1
  BY IntBytesSize
<1>6. at \in Nat /\ at + n <= s.size /\ s.size \in Nat
  BY ReceivedSize DEF At, IsReceived
<1> HIDE DEF info, n
<1>7. EnsureSizeRead(s, at + 1) /\ n # 0
  BY SMT, <1>5, <1>6 DEF EnsureSizeRead
<1>8. /\ ByteAt(s, at) \in Nat
      /\ ByteAt(s, at) >= major /\ ByteAt(s, at) < major + 32
  BY SMT, <1>1, <1>2, <1>3
<1>9. NumberThere(s, at, major, n, v)
  BY <1>1, <1>4, <1>7, <1>8 DEF NumberThere
<1> QED
  BY <1>9 DEF n

\* An int or an int64_t is there.
SignedThere(s, at, size, v, n) ==
  \E major \in {UINT, NEGINT} : \E number :
    NumberThere(s, at, major, size, number) /\ Signed(major, number, n) = v

LEMMA SignedAt ==
  ASSUME NEW s, IsReceived(s), NEW at, NEW n \in {4, 8}, NEW v \in [1..n -> Byte],
         At(s.data, at, SignedBytes(v))
  PROVE  SignedThere(s, at, Len(SignedBytes(v)), v, n)
<1>1. /\ Widen(v) \in Uint64 /\ Widen(Complement(v)) \in Uint64
      /\ Signed(UINT, Widen(v), n) = v
      /\ Signed(NEGINT, Widen(Complement(v)), n) = v
  BY SignedBack
<1>2. UINT \in Majors /\ NEGINT \in Majors
  BY MajorTypes
<1>3. CASE IsNegative(v)
  <2>1. SignedBytes(v) = IntBytes(NEGINT, Widen(Complement(v)))
    BY <1>3 DEF SignedBytes
  <2>2. NumberThere(s, at, NEGINT, Len(SignedBytes(v)), Widen(Complement(v)))
    BY <1>1, <1>2, <2>1, NumberAt
  <2> QED
    BY <1>1, <2>2 DEF SignedThere
<1>4. CASE ~IsNegative(v)
  <2>1. SignedBytes(v) = IntBytes(UINT, Widen(v))
    BY <1>4 DEF SignedBytes
  <2>2. NumberThere(s, at, UINT, Len(SignedBytes(v)), Widen(v))
    BY <1>1, <1>2, <2>1, NumberAt
  <2> QED
    BY <1>1, <2>2 DEF SignedThere
<1> QED
  BY <1>3, <1>4

LEMMA IntegerRead ==
  ASSUME NEW s, IsReceived(s), NEW item, WellTyped(item), item.kind \in Integer,
         NEW at, At(s.data, at, BytesOf(item))
  PROVE  ReadThere(s, at, item)
<1> DEFINE v == item.val
           n == Len(BytesOf(item))
<1>1. UINT = 0 /\ NEGINT = 32 /\ UINT \in Majors /\ NEGINT \in Majors
  BY MajorTypes
<1>2. ReadBack(item) = v
  BY DEF ReadBack, Integer
<1>3. item.kind # "bytes" /\ item.kind # "text"
  BY DEF Integer
<1>4. ASSUME NEW major \in {UINT, NEGINT}, NEW number, NumberThere(s, at, major, n, number)
      PROVE  FirstByte(item.kind, ByteAt(s, at))
  <2>1. ByteAt(s, at) \in Nat /\ ByteAt(s, at) < 64
    BY SMT, <1>1, <1>4 DEF NumberThere
  <2> QED
    BY <2>1 DEF FirstByte, Integer
<1>5. CASE item.kind \in {"int", "int64"}
  <2>1. PICK w \in {4, 8} : /\ v \in [1..w -> Byte]
                            /\ item.kind = "int" => w = 4
                            /\ item.kind = "int64" => w = 8
    <3>1. item.kind = "int" => v \in [1..4 -> Byte]
      BY TypedValue
    <3>2. item.kind = "int64" => v \in [1..8 -> Byte]
      BY TypedValue DEF Uint64
    <3> QED
      BY <1>5, <3>1, <3>2
  <2>2. BytesOf(item) = SignedBytes(v)
    BY <1>5, BytesByKind
  <2>3. SignedThere(s, at, n, v, w)
    BY <2>1, <2>2, SignedAt
  <2>4. PICK major \in {UINT, NEGINT} : \E number :
          NumberThere(s, at, major, n, number) /\ Signed(major, number, w) = v
    BY <2>3 DEF SignedThere
  <2>5. PICK number : NumberThere(s, at, major, n, number) /\ Signed(major, number, w) = v
    BY <2>4
  <2> HIDE DEF v, n
  <2>6. DeserializeInt(s, at) = Read(n, Signed(major, number, 4))
    BY <2>5 DEF DeserializeInt, NumberThere, Read
  <2>7. DeserializeInt64(s, at) = Read(n, Signed(major, number, 8))
    BY <2>5 DEF DeserializeInt64, NumberThere, Read
  <2>8. Deserialize(s, item.kind, at) = Read(n, v)
    BY <1>5, <2>1, <2>5, <2>6, <2>7, DeserializeByKind
  <2>9. FirstByte(item.kind, ByteAt(s, at))
    BY <1>4, <2>5
  <2> QED
    BY <1>2, <1>3, <2>8, <2>9 DEF ReadThere, n
<1>6. CASE item.kind = "uint64"
  <2>1. v \in Uint64 /\ BytesOf(item) = IntBytes(UINT, v)
    BY <1>6, TypedValue, BytesByKind
  <2>2. NumberThere(s, at, UINT, n, v)
    BY <1>1, <2>1, NumberAt
  <2>3. DeserializeUint64(s, at) = Read(n, v)
    BY <2>2 DEF DeserializeUint64, NumberThere
  <2>4. FirstByte(item.kind, ByteAt(s, at))
    BY <1>4, <2>2
  <2> QED
    BY <1>2, <1>3, <1>6, <2>3, <2>4, DeserializeByKind DEF ReadThere
<1> QED
  BY <1>5, <1>6 DEF Integer

LEMMA CountRead ==
  ASSUME NEW s, IsReceived(s), NEW item, WellTyped(item), item.kind \in {"array", "map"},
         NEW at, At(s.data, at, BytesOf(item))
  PROVE  ReadThere(s, at, item)
<1> DEFINE v == item.val
           n == Len(BytesOf(item))
           major == IF item.kind = "array" THEN ARRAY ELSE MAP
<1>1. ARRAY = 128 /\ MAP = 160 /\ major \in Majors
  BY MajorTypes
<1>2. v \in Uint64 /\ BytesOf(item) = IntBytes(major, v)
  BY TypedValue, BytesByKind
<1>3. NumberThere(s, at, major, n, v)
  BY <1>1, <1>2, NumberAt
<1>4. Deserialize(s, item.kind, at) = Read(n, v)
  BY <1>3, DeserializeByKind DEF DeserializeArray, DeserializeMap, NumberThere
<1>5. ReadBack(item) = v /\ item.kind # "bytes" /\ item.kind # "text"
  BY DEF ReadBack
<1>6. FirstByte(item.kind, ByteAt(s, at))
  <2>1. ByteAt(s, at) \in Nat /\ ByteAt(s, at) >= 128 /\ ByteAt(s, at) < 192
    <3>1. major = 128 \/ major = 160
      BY <1>1
    <3> HIDE DEF major
    <3> QED
      BY SMT, <1>3, <3>1 DEF NumberThere
  <2>2. ByteAt(s, at) # 249 /\ ByteAt(s, at) # 250 /\ ByteAt(s, at) # 251
    BY SMT, <2>1
  <2>3. item.kind \notin Integer
    BY DEF Integer
  <2> QED
    BY <2>1, <2>2, <2>3 DEF FirstByte
<1> QED
  BY <1>4, <1>5, <1>6 DEF ReadThere

LEMMA OneByteAt ==
  ASSUME NEW s, IsReceived(s), NEW at, NEW b \in Nat, At(s.data, at, <<b>>)
  PROVE  ByteAt(s, at) = b
<1>1. at \in Nat /\ at + 1 <= Len(s.data) /\ s.data[at + 1] = b
  BY DEF At
<1>2. Len(s.data) \in Nat
  BY DEF IsReceived
<1> QED
  BY SMT, <1>1, <1>2 DEF ByteAt

LEMMA OneByteRead ==
  ASSUME NEW s, IsReceived(s), NEW item, WellTyped(item),
         item.kind \in {"bool", "anyArray", "anyMap", "break"},
         NEW at, At(s.data, at, BytesOf(item))
  PROVE  ReadThere(s, at, item)
<1> DEFINE v == item.val
<1>1. ReadBack(item) = v /\ item.kind # "bytes" /\ item.kind # "text"
  BY DEF ReadBack
<1>2. ASSUME NEW b \in Nat, b >= 128, b # 249, b # 250, b # 251, BytesOf(item) = <<b>>,
             ByteAt(s, at) = b => Deserialize(s, item.kind, at) = Read(1, v)
      PROVE  ReadThere(s, at, item)
  <2>1. ByteAt(s, at) = b
    BY <1>2, OneByteAt
  <2>2. Len(BytesOf(item)) = 1
    BY <1>2
  <2>3. item.kind \notin Integer
    BY DEF Integer
  <2>4. FirstByte(item.kind, ByteAt(s, at))
    BY <1>2, <2>1, <2>3 DEF FirstByte
  <2> QED
    BY <1>1, <1>2, <2>1, <2>2, <2>4 DEF ReadThere
<1>3. CASE item.kind = "bool"
  <2>1. PICK b : b = (IF v THEN TRUEBYTE ELSE FALSEBYTE)
    OBVIOUS
  <2>2. v \in BOOLEAN
    BY <1>3, TypedValue
  <2>3. (v /\ b = 245) \/ (~v /\ b = 244)
    BY <2>1, MajorTypes
  <2>4. BytesOf(item) = <<b>>
    BY <1>3, <2>1, BytesByKind
  <2>5. ASSUME ByteAt(s, at) = b PROVE DeserializeBool(s, at) = Read(1, v)
    <3>1. TypeAt(s, at) = SEVEN
      <4>1. b - (b % 32) = 224
        BY SMT, <2>3
      <4> QED
        BY <2>5, <4>1, MajorTypes DEF TypeAt
    <3>2. DeserializeBool(s, at) = Read(1, b = TRUEBYTE)
      BY <2>5, <3>1 DEF DeserializeBool
    <3>3. (b = TRUEBYTE) = v
      <4>1. TRUEBYTE = 245
        BY MajorTypes
      <4>2. CASE v /\ b = 245
        BY <2>2, <4>1, <4>2
      <4>3. CASE ~v /\ b = 244
        <5>1. b # TRUEBYTE
          BY SMT, <4>1, <4>3
        <5> QED
          BY <2>2, <4>3, <5>1
      <4> QED
        BY <2>3, <4>2, <4>3
    <3> QED
      BY <3>2, <3>3
  <2>6. b \in Nat /\ b >= 128 /\ b # 249 /\ b # 250 /\ b # 251
    BY SMT, <2>3
  <2>7. ByteAt(s, at) = b => Deserialize(s, item.kind, at) = Read(1, v)
    BY <1>3, <2>5, DeserializeByKind
  <2> QED
    BY <1>2, <2>4, <2>6, <2>7
<1>4. CASE item.kind = "anyArray"
  <2>1. BytesOf(item) = <<ARRAY + VarFollows>> /\ v = <<>>
    BY <1>4, BytesByKind, TypedValue
  <2>2. PICK b : b = ARRAY + VarFollows
    OBVIOUS
  <2>3. b \in Nat /\ b >= 128 /\ b # 249 /\ b # 250 /\ b # 251
    BY SMT, <2>2, MajorTypes
  <2>4. ByteAt(s, at) = b => Deserialize(s, item.kind, at) = Read(1, v)
    BY <1>4, <2>1, <2>2, DeserializeByKind DEF DeserializeIndefinite
  <2> QED
    BY <1>2, <2>1, <2>2, <2>3, <2>4
<1>5. CASE item.kind = "anyMap"
  <2>1. BytesOf(item) = <<MAP + VarFollows>> /\ v = <<>>
    BY <1>5, BytesByKind, TypedValue
  <2>2. PICK b : b = MAP + VarFollows
    OBVIOUS
  <2>3. b \in Nat /\ b >= 128 /\ b # 249 /\ b # 250 /\ b # 251
    BY SMT, <2>2, MajorTypes
  <2>4. ByteAt(s, at) = b => Deserialize(s, item.kind, at) = Read(1, v)
    BY <1>5, <2>1, <2>2, DeserializeByKind DEF DeserializeIndefinite
  <2> QED
    BY <1>2, <2>1, <2>2, <2>3, <2>4
<1>6. CASE item.kind = "break"
  <2>1. BytesOf(item) = <<BREAK>> /\ v = <<>>
    BY <1>6, BytesByKind, TypedValue
  <2>2. PICK b : b = BREAK
    OBVIOUS
  <2>3. b \in Nat /\ b >= 128 /\ b # 249 /\ b # 250 /\ b # 251
    BY SMT, <2>2, MajorTypes
  <2>4. ByteAt(s, at) = b => Deserialize(s, item.kind, at) = Read(1, v)
    BY <1>6, <2>1, <2>2, DeserializeByKind
  <2> QED
    BY <1>2, <2>1, <2>2, <2>3, <2>4
<1> QED
  BY <1>3, <1>4, <1>5, <1>6

LEMMA FloatRead ==
  ASSUME NEW s, IsReceived(s), NEW item, WellTyped(item),
         item.kind \in {"half", "float", "double"},
         NEW at, At(s.data, at, BytesOf(item))
  PROVE  ReadThere(s, at, item)
<1> DEFINE v == item.val
           bytes == BytesOf(item)
<1>1. item.kind \notin Integer /\ item.kind # "bytes" /\ item.kind # "text"
  BY DEF Integer
<1>2. /\ FLOAT16 = 249 /\ FLOAT32 = 250 /\ FLOAT64 = 251
      /\ FLOAT16 \in Byte /\ FLOAT32 \in Byte /\ FLOAT64 \in Byte
  BY SMT, MajorTypes, ByteIs DEF FLOAT16
<1>3. ASSUME NEW w, ReadBack(item) = w,
             Deserialize(s, item.kind, at) = Read(Len(bytes), w),
             \/ item.kind = "half" /\ ByteAt(s, at) = 249
             \/ item.kind = "float" /\ ByteAt(s, at) = 250
             \/ item.kind = "double" /\ ByteAt(s, at) = 251
      PROVE  ReadThere(s, at, item)
  <2>1. ByteAt(s, at) \in Nat
    BY SMT, <1>3
  <2>2. FirstByte(item.kind, ByteAt(s, at))
    BY <1>1, <1>3, <2>1 DEF FirstByte
  <2> QED
    BY <1>1, <1>3, <2>2 DEF ReadThere
<1>4. CASE item.kind = "half"
  <2> DEFINE hi == EncodeHalf(v) \div 256
             lo == EncodeHalf(v) % 256
  <2>1. /\ hi \in Byte /\ lo \in Byte /\ 256 * hi + lo = EncodeHalf(v)
        /\ <<hi, lo>> \in Seq(Byte) /\ Len(<<hi, lo>>) = 2
    BY <1>4, TypedValue, HalfSplit DEF IsFloat
  <2>2. bytes = Marked(FLOAT16, <<hi, lo>>)
    BY <1>4, BytesByKind DEF HalfBytes
  <2>3. PICK q : q = <<hi, lo>>
    OBVIOUS
  <2>4. q \in Seq(Byte) /\ Len(q) = 2 /\ q[1] = hi /\ q[2] = lo
    BY <2>1, <2>3
  <2> HIDE DEF hi, lo, bytes
  <2>5. FollowedBy(s, at, FLOAT16, q, bytes)
    <3>1. bytes = Marked(FLOAT16, q) /\ q \in Seq(Byte) /\ At(s.data, at, bytes)
      BY <2>2, <2>3, <2>4 DEF bytes
    <3> QED
      BY <1>2, <3>1, AfterByteAt
  <2>6. /\ Len(bytes) = 3 /\ ByteAt(s, at) = 249
        /\ ByteAt(s, at + 1) = hi /\ ByteAt(s, at + 2) = lo
    <3>1. 1 \in 1..Len(q) /\ 2 \in 1..Len(q)
      BY SMT, <2>4
    <3> QED
      BY SMT, <1>2, <2>4, <2>5, <3>1 DEF FollowedBy
  <2>7. DeserializeFloatHalf(s, at) = Read(Len(bytes), DecodeHalf(EncodeHalf(v)))
    BY <1>2, <2>1, <2>6 DEF DeserializeFloatHalf
  <2>8. ReadBack(item) = DecodeHalf(EncodeHalf(v))
    BY <1>4 DEF ReadBack
  <2> QED
    BY <1>3, <1>4, <2>6, <2>7, <2>8, DeserializeByKind
<1>5. CASE item.kind = "float"
  <2>1. v \in [1..4 -> Byte] /\ bytes = Marked(FLOAT32, v)
    BY <1>5, TypedValue, BytesByKind
  <2>2. v \in Seq(Byte) /\ Len(v) = 4
    <3>1. v \in [1..4 -> Byte]
      BY <2>1
    <3> HIDE DEF v
    <3> QED
      BY <3>1, FunctionIsSequence
  <2> HIDE DEF bytes
  <2>3. FollowedBy(s, at, FLOAT32, v, bytes)
    <3>1. At(s.data, at, bytes) /\ v \in Seq(Byte)
      BY <2>2 DEF bytes
    <3> QED
      BY <1>2, <2>1, <3>1, AfterByteAt
  <2>4. /\ Len(bytes) = 5 /\ ByteAt(s, at) = 250
        /\ \A k \in 1..4 : ByteAt(s, at + k) = v[k]
    BY SMT, <1>2, <2>2, <2>3 DEF FollowedBy
  <2>5. [k \in 1..4 |-> ByteAt(s, at + k)] = v
    BY <2>1, <2>4
  <2>6. DeserializeFloat(s, at) = Read(Len(bytes), v)
    BY <1>2, <2>4, <2>5 DEF DeserializeFloat
  <2>7. ReadBack(item) = v
    BY <1>5 DEF ReadBack
  <2> QED
    BY <1>3, <1>5, <2>4, <2>6, <2>7, DeserializeByKind
<1>6. CASE item.kind = "double"
  <2>1. v \in Uint64 /\ bytes = Marked(FLOAT64, v) /\ At(s.data, at, bytes)
    BY <1>6, TypedValue, BytesByKind
  <2> HIDE DEF bytes
  <2>2. ByteAt(s, at) = 251 /\ DeserializeDouble(s, at) = Read(Len(bytes), v)
    BY <2>1, DoubleAt
  <2>3. ReadBack(item) = v
    BY <1>6 DEF ReadBack
  <2> QED
    BY <1>3, <1>6, <2>2, <2>3, DeserializeByKind
<1> QED
  BY <1>4, <1>5, <1>6

LEMMA StringRead ==
  ASSUME NEW s, IsReceived(s), NEW item, WellTyped(item), item.kind \in {"bytes", "text"},
         NEW at, At(s.data, at, BytesOf(item))
  PROVE  ReadThere(s, at, item)
<1> DEFINE v == item.val
           bytes == BytesOf(item)
           major == IF item.kind = "bytes" THEN BYTES ELSE TEXT
<1>1. major \in {BYTES, TEXT}
  OBVIOUS
<1>2. /\ v \in Seq(Byte) /\ Len(v) < 65536
      /\ bytes = StringItem(major, v) /\ At(s.data, at, bytes)
  BY TypedValue, BytesByKind
<1>3. /\ item.kind = "bytes" => major = 64
      /\ item.kind = "text" => major = 96
  BY MajorTypes
<1>4. ReadBack(item) = v /\ item.kind \notin Integer
  BY DEF ReadBack, Integer
<1>5. /\ item.kind = "bytes" => major = BYTES
      /\ item.kind = "text" => major = TEXT
  OBVIOUS
<1> HIDE DEF bytes, major
<1>6. /\ ByteAt(s, at) >= major /\ ByteAt(s, at) <= major + 27
      /\ DecodeBytes(major, s, at, s.size) = Read(Len(bytes), v)
      /\ DecodeBytesNoCopy(major, s, at) = Read(Len(bytes), v)
  BY <1>1, <1>2, StringAt
<1>7. Deserialize(s, item.kind, at) = Read(Len(bytes), v)
  BY <1>5, <1>6, DeserializeByKind
<1>8. ByteAt(s, at) \in Nat
  <2>1. s.data \in Seq(Nat) /\ at \in Nat /\ at + Len(bytes) <= Len(s.data)
    BY <1>2 DEF At, IsReceived
  <2>2. Len(bytes) \in Nat /\ Len(bytes) >= 1
    BY <1>1, <1>2, StringSize
  <2>3. at < Len(s.data) /\ at + 1 \in 1..Len(s.data)
    BY SMT, <2>1, <2>2
  <2> QED
    BY <2>1, <2>3 DEF ByteAt
<1>9. FirstByte(item.kind, ByteAt(s, at))
  <2>1. /\ item.kind = "bytes" => ByteAt(s, at) >= 64 /\ ByteAt(s, at) < 96
        /\ item.kind = "text" => ByteAt(s, at) >= 96 /\ ByteAt(s, at) < 128
    BY SMT, <1>3, <1>6, <1>8
  <2> QED
    BY <1>4, <1>8, <2>1 DEF FirstByte
<1> QED
  BY <1>4, <1>5, <1>6, <1>7, <1>9 DEF ReadThere, bytes

LEMMA ItemRead ==
  ASSUME NEW s, IsReceived(s), NEW item, WellTyped(item),
         NEW at, At(s.data, at, BytesOf(item))
  PROVE  ReadThere(s, at, item)
BY TypedValue, IntegerRead, CountRead, OneByteRead, FloatRead, StringRead DEF Kinds, Integer

\* What the first byte of an item rules out.
LEMMA OtherKindFails ==
  ASSUME NEW s, NEW at, NEW found \in Kinds, FirstByte(found, ByteAt(s, at)),
         NEW kind \in Integer \cup {"half", "float", "double", "bytes", "text"},
         kind # found, ~({kind, found} \subseteq Integer)
  PROVE  Deserialize(s, kind, at).ret = 0
<1> DEFINE b == ByteAt(s, at)
<1>1. /\ UINT = 0 /\ NEGINT = 32 /\ BYTES = 64 /\ TEXT = 96
      /\ FLOAT16 = 249 /\ FLOAT32 = 250 /\ FLOAT64 = 251
  BY SMT, MajorTypes DEF FLOAT16
<1>2. b \in Nat
  BY DEF FirstByte
<1>3. TypeAt(s, at) = b - (b % 32)
  BY DEF TypeAt
<1>4. Failed.ret = 0
  BY DEF Failed
<1> HIDE DEF b
<1>5. CASE kind \in Integer
  <2>1. found \notin Integer
    BY <1>5
  <2>2. b >= 64
    <3>1. found \in {"bytes", "text"} => b >= 64
      BY SMT, <1>2 DEF FirstByte, b
    <3>2. found \in {"half", "float", "double"} => b >= 64
      BY SMT DEF FirstByte, b
    <3>3. found \in {"bool", "array", "map", "anyArray", "anyMap", "break"} => b >= 64
      BY SMT, <1>2 DEF FirstByte, b
    <3> QED
      BY <2>1, <3>1, <3>2, <3>3 DEF Kinds, Integer
  <2>3. TypeAt(s, at) \notin {UINT, NEGINT}
    BY SMT, <1>1, <1>2, <1>3, <2>2
  <2>4. /\ DeserializeInt(s, at) = Failed
        /\ DeserializeInt64(s, at) = Failed
        /\ DeserializeUint64(s, at) = Failed
    BY <2>3 DEF DeserializeInt, DeserializeInt64, DeserializeUint64
  <2> QED
    BY <1>4, <1>5, <2>4, DeserializeByKind DEF Integer
<1>6. CASE kind \in {"half", "float", "double"}
  <2>1. /\ kind = "half" => b # 249
        /\ kind = "float" => b # 250
        /\ kind = "double" => b # 251
    <3>1. found \in Integer \cup {"bytes", "text"} => b < 128
      BY SMT, <1>2 DEF FirstByte, b
    <3>2. /\ found = "half" => b = 249
          /\ found = "float" => b = 250
          /\ found = "double" => b = 251
      BY DEF FirstByte, b
    <3>3. found \in {"bool", "array", "map", "anyArray", "anyMap", "break"} =>
            b # 249 /\ b # 250 /\ b # 251
      BY DEF FirstByte, b
    <3>4. found \in Integer \cup {"bytes", "text"} => b # 249 /\ b # 250 /\ b # 251
      BY SMT, <1>2, <3>1
    <3> QED
      BY SMT, <1>6, <3>2, <3>3, <3>4 DEF Kinds, Integer
  <2>2. /\ kind = "half" => DeserializeFloatHalf(s, at) = Failed
        /\ kind = "float" => DeserializeFloat(s, at) = Failed
        /\ kind = "double" => DeserializeDouble(s, at) = Failed
    BY <1>1, <2>1 DEF DeserializeFloatHalf, DeserializeFloat, DeserializeDouble, b
  <2> QED
    BY <1>4, <1>6, <2>2, DeserializeByKind
<1>7. CASE kind \in {"bytes", "text"}
  <2> DEFINE major == IF kind = "bytes" THEN BYTES ELSE TEXT
  <2>1. /\ kind = "bytes" => b < 64 \/ b >= 96
        /\ kind = "text" => b < 96 \/ b >= 128
    <3>1. found \in Integer => b < 64
      BY DEF FirstByte, b
    <3>2. /\ found = "bytes" => b < 96
          /\ found = "text" => b >= 96
      BY DEF FirstByte, b
    <3>3. found \in {"half", "float", "double"} => b >= 128
      BY SMT DEF FirstByte, b
    <3>4. found \in {"bool", "array", "map", "anyArray", "anyMap", "break"} => b >= 128
      BY DEF FirstByte, b
    <3> QED
      BY SMT, <1>2, <1>7, <3>1, <3>2, <3>3, <3>4 DEF Kinds, Integer
  <2>2. TypeAt(s, at) # major
    <3>1. CASE kind = "bytes"
      <4>1. TypeAt(s, at) # 64
        BY SMT, <1>2, <1>3, <2>1, <3>1
      <4> QED
        BY <1>1, <3>1, <4>1
    <3>2. CASE kind = "text"
      <4>1. TypeAt(s, at) # 96
        BY SMT, <1>2, <1>3, <2>1, <3>2
      <4> QED
        BY <1>1, <3>2, <4>1
    <3> QED
      BY <1>7, <3>1, <3>2
  <2>3. DecodeBytes(major, s, at, s.size) = Failed
    BY <2>2 DEF DecodeBytes
  <2> QED
    BY <1>4, <1>7, <2>3, DeserializeByKind
<1> QED
  BY <1>5, <1>6, <1>7

-----------------------------------------------------------------------------
(* The stream: the inductive invariant.                                    *)

LEMMA LoadIs ==
  ASSUME load \in DOMAIN Loads
  PROVE  /\ \A item \in Loads[load].items : WellTyped(item)
         /\ Loads[load].sizes \subseteq Nat
BY StreamAssumption DEF StreamAssumption

LEMMA EmptyLaidOut ==
  ASSUME items = <<>>, values = <<>>, stream.data = <<>>, offset = 0
  PROVE  \E start : Layout(start) /\ InStep(start)
<1>1. PICK start : start = [k \in 1..1 |-> 0]
  OBVIOUS
<1>2. Len(items) = 0 /\ Len(values) = 0 /\ Len(stream.data) = 0
  OBVIOUS
<1>3. start \in [1..1 -> Nat] /\ start[1] = 0
  BY <1>1
<1>4. Layout(start)
  BY SMT, <1>2, <1>3 DEF Layout
<1>5. InStep(start)
  BY SMT, <1>2, <1>3 DEF InStep
<1> QED
  BY <1>4, <1>5

LEMMA EmptyStreamIs ==
  ASSUME NEW n \in Nat
  PROVE  /\ EmptyStream(n) \in [data : Seq(Byte), size : Nat]
         /\ EmptyStream(n).data = <<>> /\ EmptyStream(n).size = n
<1>1. 0 \in Byte /\ <<>> \in Seq(Byte)
  BY SMT, ByteIs
<1> QED
  BY <1>1 DEF EmptyStream

LEMMA StreamInvInit == Init => StreamInv
<1> SUFFICES ASSUME Init PROVE StreamInv
  OBVIOUS
<1>1. load \in DOMAIN Loads /\ items = <<>> /\ values = <<>> /\ receiving = FALSE /\ offset = 0
  BY DEF Init
<1>2. PICK n \in Loads[load].sizes : stream = EmptyStream(n)
  BY DEF Init
<1>3. n \in Nat
  BY <1>1, LoadIs
<1>4. /\ stream \in [data : Seq(Byte), size : Nat]
      /\ stream.data = <<>> /\ stream.size = n
  BY <1>2, <1>3, EmptyStreamIs
<1>5. Len(stream.data) = 0 /\ 0 <= n
  BY SMT, <1>3, <1>4
<1>6. Stream
  BY <1>1, <1>4, <1>5 DEF Stream
<1>7. Written
  <2>1. items \in Seq(Loads[load].items)
    BY <1>1
  <2>2. receiving \in BOOLEAN
    BY <1>1
  <2> QED
    BY <1>1, <2>1, <2>2 DEF Written
<1>8. ReadSoFar
  <2>1. values \in Seq({ReadBack(item) : item \in Loads[load].items})
    BY <1>1
  <2>2. Len(values) = 0 /\ Len(items) = 0
    BY <1>1
  <2> QED
    BY SMT, <1>1, <2>1, <2>2 DEF ReadSoFar
<1>9. \E start : Layout(start) /\ InStep(start)
  BY <1>1, <1>4, EmptyLaidOut
<1> QED
  BY <1>6, <1>7, <1>8, <1>9 DEF StreamInv

\* cbor_clear and cbor_destroy leave an empty stream.
LEMMA EmptiedKeeps ==
  ASSUME StreamInv, ~receiving, NEW n \in Nat, stream' = EmptyStream(n), items' = <<>>,
         UNCHANGED <<load, receiving, offset, values>>
  PROVE  StreamInv'
<1>1. values = <<>> /\ offset = 0
  BY DEF StreamInv, ReadSoFar
<1>2. load \in DOMAIN Loads /\ receiving \in BOOLEAN
  BY DEF StreamInv, Written
<1>3. /\ stream' \in [data : Seq(Byte), size : Nat]
      /\ stream'.data = <<>> /\ stream'.size = n
  BY EmptyStreamIs
<1>4. Len(stream'.data) = 0 /\ 0 <= n
  BY SMT, <1>3
<1>5. Stream'
  BY <1>3, <1>4 DEF Stream
<1>6. Written'
  BY <1>2 DEF Written
<1>7. ReadSoFar'
  <2>1. values' \in Seq({ReadBack(item) : item \in Loads[load'].items})
    BY <1>1
  <2>2. Len(values') = 0 /\ Len(items') = 0 /\ values' = <<>> /\ offset' = 0
    BY <1>1
  <2> QED
    BY SMT, <2>1, <2>2 DEF ReadSoFar
<1>8. (\E start : Layout(start) /\ InStep(start))'
  <2>1. items' = <<>> /\ values' = <<>> /\ stream'.data = <<>> /\ offset' = 0
    BY <1>1, <1>3
  <2>2. PICK start : start = [k \in 1..1 |-> 0]
    OBVIOUS
  <2>3. Len(items') = 0 /\ Len(values') = 0 /\ Len(stream'.data) = 0
    BY <2>1
  <2>4. start \in [1..1 -> Nat] /\ start[1] = 0
    BY <2>2
  <2>5. Layout(start)'
    BY SMT, <2>3, <2>4 DEF Layout
  <2>6. InStep(start)'
    BY SMT, <2>1, <2>3, <2>4 DEF InStep
  <2> QED
    BY <2>5, <2>6
<1> QED
  BY <1>5, <1>6, <1>7, <1>8 DEF StreamInv

\* A serializer that has room appends its item, the others leave the stream.
LEMMA WriteItemKeeps ==
  ASSUME StreamInv, WriteItem
  PROVE  StreamInv'
<1>1. PICK item \in Loads[load].items :
        /\ stream' = Serialize(stream, item).stream
        /\ items' = IF Serialize(stream, item).ret = 0 THEN items ELSE Append(items, item)
  BY DEF WriteItem
<1>2. ~receiving /\ UNCHANGED <<load, receiving, offset, values>>
  BY DEF WriteItem
<1>3. /\ load \in DOMAIN Loads /\ receiving \in BOOLEAN
      /\ items \in Seq(Loads[load].items)
  BY DEF StreamInv, Written
<1>4. /\ stream \in [data : Seq(Byte), size : Nat]
      /\ Len(stream.data) <= stream.size
  BY <1>2 DEF StreamInv, Stream
<1>5. values = <<>> /\ offset = 0
  BY <1>2 DEF StreamInv, ReadSoFar
<1> DEFINE b == BytesOf(item)
<1>6. WellTyped(item)
  BY <1>3, LoadIs
<1>7. Serialize(stream, item) = Write(stream, b)
  BY <1>6, SerializeIs
<1>8. b \in Seq(Byte) /\ b \in Seq(Nat) /\ Len(b) \in Nat /\ Len(b) >= 1
  BY <1>6, ItemBytes DEF Sized
<1> HIDE DEF b
<1>9. CASE ~EnsureSize(stream, Len(b))
  <2>1. Serialize(stream, item) = Refused(stream)
    BY <1>7, <1>9 DEF Write
  <2>2. stream' = stream /\ items' = items
    BY <1>1, <2>1 DEF Refused
  <2>3. Written' /\ Stream' /\ ReadSoFar' /\ \A start : Layout(start)' = Layout(start)
                                                  /\ InStep(start)' = InStep(start)
    BY <1>2, <2>2 DEF StreamInv, Written, Stream, ReadSoFar, Layout, InStep
  <2> QED
    BY <2>3 DEF StreamInv
<1>10. CASE EnsureSize(stream, Len(b))
  <2>1. /\ Serialize(stream, item).ret = Len(b)
        /\ Serialize(stream, item).stream = [stream EXCEPT !.data = stream.data \o b]
    BY <1>7, <1>10 DEF Write
  <2>2. Len(b) # 0
    BY SMT, <1>8
  <2>3. items' = Append(items, item) /\ stream' = [stream EXCEPT !.data = stream.data \o b]
    BY <1>1, <2>1, <2>2
  <2>4. stream.data \in Seq(Byte) /\ stream.data \in Seq(Nat)
    BY <1>4, BytesAreNumbers
  <2>5. stream.data \o b \in Seq(Byte)
    BY <1>8, <2>4
  <2>6. /\ stream'.data = stream.data \o b /\ stream'.size = stream.size
        /\ stream' \in [data : Seq(Byte), size : Nat]
    BY <1>4, <2>3, <2>5
  <2>7. /\ Len(stream'.data) = Len(stream.data) + Len(b)
        /\ At(stream'.data, Len(stream.data), b)
        /\ \A e, x : At(stream.data, e, x) => At(stream'.data, e, x)
    BY <1>8, <2>4, <2>6, AtAppended
  <2>8. Len(stream'.data) <= stream'.size
    <3>1. Len(stream.data) + Len(b) < stream.size /\ Len(stream.data) \in Nat /\ stream.size \in Nat
      BY <1>4, <1>10, <2>4 DEF EnsureSize
    <3> QED
      BY SMT, <1>8, <2>6, <2>7, <3>1
  <2>9. Stream'
    BY <1>2, <2>6, <2>8 DEF Stream
  <2>10. Written'
    BY <1>2, <1>3, <2>3 DEF Written
  <2>11. ReadSoFar'
    <3>1. values' = <<>> /\ Len(values') = 0 /\ offset' = 0 /\ Len(items') \in Nat
      BY <1>2, <1>3, <1>5, <2>3
    <3>2. values' \in Seq({ReadBack(i) : i \in Loads[load'].items})
      BY <3>1
    <3> QED
      BY SMT, <3>1, <3>2 DEF ReadSoFar
  <2>12. PICK start : Layout(start)
    BY DEF StreamInv
  <2> DEFINE n == Len(items)
             total == Len(stream.data)
  <2>13. PICK longer : longer = [k \in 1..(n + 2) |-> IF k <= n + 1 THEN start[k]
                                                      ELSE total + Len(b)]
    OBVIOUS
  <2>14. /\ n \in Nat /\ Len(items') = n + 1 /\ items'[n + 1] = item
         /\ \A k \in 1..n : items'[k] = items[k]
    BY <1>3, <2>3
  <2>15. /\ start \in [1..(n + 1) -> Nat] /\ start[1] = 0 /\ start[n + 1] = total
         /\ \A k \in 1..n : /\ At(stream.data, start[k], BytesOf(items[k]))
                            /\ start[k + 1] = start[k] + Len(BytesOf(items[k]))
    BY <2>12 DEF Layout
  <2>16. total \in Nat
    BY <2>4
  <2> HIDE DEF n, total
  <2>17. /\ longer \in [1..(n + 2) -> Nat]
         /\ longer[1] = 0 /\ longer[n + 2] = total + Len(b)
         /\ \A k \in 1..(n + 1) : longer[k] = start[k]
    <3>1. /\ \A k \in 1..(n + 1) : longer[k] = start[k]
          /\ longer[n + 2] = total + Len(b)
      BY SMT, <2>13, <2>14
    <3>2. longer \in [1..(n + 2) -> Nat]
      BY SMT, <1>8, <2>13, <2>14, <2>15, <2>16
    <3>3. longer[1] = 0
      BY SMT, <2>14, <2>15, <3>1
    <3> QED
      BY <3>1, <3>2, <3>3
  <2>18. ASSUME NEW k \in 1..(n + 1)
         PROVE  /\ At(stream'.data, longer[k], BytesOf(items'[k]))
                /\ longer[k + 1] = longer[k] + Len(BytesOf(items'[k]))
    <3>1. CASE k \in 1..n
      <4>1. items'[k] = items[k] /\ longer[k] = start[k]
        BY SMT, <2>14, <2>17, <3>1
      <4>2. longer[k + 1] = start[k + 1]
        BY SMT, <2>14, <2>17, <3>1
      <4> QED
        BY <2>7, <2>15, <3>1, <4>1, <4>2
    <3>2. CASE k = n + 1
      <4>1. items'[k] = item /\ longer[k] = total
        BY <2>14, <2>15, <2>17, <3>2
      <4>2. longer[k + 1] = total + Len(b)
        <5>1. k + 1 = n + 2
          BY SMT, <2>14, <3>2
        <5> QED
          BY <2>17, <5>1
      <4> QED
        BY <2>7, <4>1, <4>2 DEF b, total
    <3> QED
      BY SMT, <2>14, <3>1, <3>2
  <2>19. Layout(longer)'
    <3>1. Len(items') + 1 = n + 2
      BY SMT, <2>14
    <3>2. longer[Len(items') + 1] = Len(stream'.data)
      BY <2>7, <2>17, <3>1 DEF total
    <3>3. longer \in [1..(Len(items') + 1) -> Nat]
      BY <2>17, <3>1
    <3>4. longer[1] = 0 /\ Len(items') = n + 1
      BY <2>14, <2>17
    <3> QED
      BY <2>18, <3>2, <3>3, <3>4 DEF Layout
  <2>20. InStep(longer)'
    <3>1. offset' = 0 /\ Len(values') + 1 = 1
      BY <1>2, <1>5
    <3> QED
      BY <2>17, <3>1 DEF InStep
  <2> QED
    BY <2>9, <2>10, <2>11, <2>19, <2>20 DEF StreamInv
<1> QED
  BY <1>9, <1>10

LEMMA SendKeeps ==
  ASSUME StreamInv, NEW b \in AfterBytes, Send(b)
  PROVE  StreamInv'
<1>1. /\ ~receiving /\ receiving' = TRUE /\ stream' = ReceivedStream(stream.data, b)
      /\ UNCHANGED <<load, items, offset, values>>
  BY DEF Send
<1>2. load \in DOMAIN Loads /\ stream.data \in Seq(Byte)
  BY DEF StreamInv, Written, Stream
<1>4. Len(stream.data) \in Nat
  BY <1>2
<1>5. /\ stream'.data = stream.data /\ stream'.size = Len(stream.data)
      /\ stream'.data \in Seq(Byte) /\ stream'.size \in Nat /\ receiving'
  BY <1>1, <1>2, <1>4 DEF ReceivedStream
<1>6. Stream'
  <2>1. Len(stream'.data) <= stream'.size /\ stream'.size = Len(stream'.data)
    BY SMT, <1>4, <1>5
  <2> QED
    BY <1>5, <2>1 DEF Stream
<1>7. Written' /\ ReadSoFar'
  BY <1>1 DEF StreamInv, Written, ReadSoFar
<1>8. \A start : Layout(start)' = Layout(start) /\ InStep(start)' = InStep(start)
  BY <1>1, <1>5 DEF Layout, InStep
<1> QED
  BY <1>6, <1>7, <1>8 DEF StreamInv

\* The item the receiver reads next is where it stands.
LEMMA NextThere ==
  ASSUME StreamInv, receiving, Len(values) < Len(items),
         NEW item, item = items[Len(values) + 1]
  PROVE  /\ WellTyped(item) /\ item \in Loads[load].items
         /\ At(stream.data, offset, BytesOf(item))
         /\ ReadThere(stream, offset, item)
         /\ NextKind = item.kind
<1> DEFINE n == Len(values)
<1>1. /\ load \in DOMAIN Loads /\ items \in Seq(Loads[load].items)
  BY DEF StreamInv, Written
<1>2. n \in Nat
  BY DEF StreamInv, ReadSoFar
<1>3. Len(items) \in Nat
  BY <1>1
<1>4. n + 1 \in 1..Len(items)
  BY SMT, <1>2, <1>3
<1>5. item \in Loads[load].items
  BY <1>1, <1>4
<1>6. WellTyped(item)
  BY <1>1, <1>5, LoadIs
<1>7. PICK start : Layout(start) /\ InStep(start)
  BY DEF StreamInv
<1>8. At(stream.data, offset, BytesOf(item))
  BY <1>4, <1>7 DEF Layout, InStep
<1>9. IsReceived(stream)
  <2>1. stream.data \in Seq(Byte) /\ stream.size = Len(stream.data)
    BY DEF StreamInv, Stream
  <2> QED
    BY <2>1, BytesAreNumbers DEF IsReceived
<1>10. ReadThere(stream, offset, item)
  BY <1>6, <1>8, <1>9, ItemRead
<1>11. NextKind = item.kind
  BY DEF NextKind
<1> QED
  BY <1>5, <1>6, <1>8, <1>10, <1>11

\* A read of the next item takes the receiver to the one after it.
LEMMA ReceiveKeeps ==
  ASSUME StreamInv, receiving, Len(values) < Len(items),
         NEW item, item = items[Len(values) + 1],
         Receive(Read(Len(BytesOf(item)), ReadBack(item)))
  PROVE  StreamInv'
<1> DEFINE n == Len(values)
           stored == {ReadBack(i) : i \in Loads[load].items}
<1>1. /\ offset' = offset + Len(BytesOf(item))
      /\ values' = Append(values, ReadBack(item))
      /\ UNCHANGED <<load, stream, items, receiving>>
  BY DEF Receive, Read
<1>2. item \in Loads[load].items
  BY NextThere
<1>3. /\ values \in Seq(stored)
      /\ \A k \in 1..n : values[k] = ReadBack(items[k])
  BY DEF StreamInv, ReadSoFar
<1>4. ReadBack(item) \in stored
  BY <1>2
<1> HIDE DEF stored
<1>5. n \in Nat
  BY <1>3
<1>6. /\ values' \in Seq(stored) /\ Len(values') = n + 1
      /\ \A k \in 1..n : values'[k] = values[k]
      /\ values'[n + 1] = ReadBack(item)
  BY <1>1, <1>3, <1>4
<1>7. Len(items) \in Nat
  BY DEF StreamInv, Written
<1> HIDE DEF n
<1>8. n + 1 <= Len(items) /\ n + 1 \in 1..Len(items)
  BY SMT, <1>5, <1>7 DEF n
<1>9. \A k \in 1..(n + 1) : values'[k] = ReadBack(items[k])
  <2>1. item = items[n + 1]
    BY DEF n
  <2>2. \A k \in 1..(n + 1) : k \in 1..n \/ k = n + 1
    BY SMT, <1>5
  <2> QED
    BY <1>3, <1>6, <2>1, <2>2
<1>10. ReadSoFar'
  <2>1. values' \in Seq({ReadBack(i) : i \in Loads[load'].items})
    BY <1>1, <1>6 DEF stored
  <2>2. Len(values') <= Len(items') /\ \A k \in 1..Len(values') : values'[k] = ReadBack(items'[k])
    BY <1>1, <1>6, <1>8, <1>9
  <2>3. receiving'
    BY <1>1
  <2> QED
    BY <2>1, <2>2, <2>3 DEF ReadSoFar
<1>11. Written' /\ Stream'
  BY <1>1 DEF StreamInv, Written, Stream
<1>12. PICK start : Layout(start) /\ InStep(start)
  BY DEF StreamInv
<1>13. Layout(start)'
  BY <1>1, <1>12 DEF Layout
<1>14. InStep(start)'
  <2>1. offset = start[n + 1]
    BY <1>12 DEF InStep, n
  <2>2. start[(n + 1) + 1] = start[n + 1] + Len(BytesOf(item))
    BY <1>8, <1>12 DEF Layout, n
  <2> QED
    BY <1>1, <1>6, <2>1, <2>2 DEF InStep
<1> QED
  BY <1>10, <1>11, <1>13, <1>14 DEF StreamInv

LEMMA StreamInvStep == StreamInv /\ [StreamNext]_streamVars => StreamInv'
<1> SUFFICES ASSUME StreamInv, [StreamNext]_streamVars PROVE StreamInv'
  OBVIOUS
<1>1. CASE WriteItem
  BY <1>1, WriteItemKeeps
<1>2. CASE Clear \/ Destroy
  <2>1. stream.size \in Nat /\ 0 \in Nat
    BY DEF StreamInv, Stream
  <2> QED
    BY <1>2, <2>1, EmptiedKeeps DEF Clear, Destroy
<1>3. ASSUME NEW b \in AfterBytes, Send(b) PROVE StreamInv'
  BY <1>3, SendKeeps
<1>4. CASE ReadItem
  <2>1. receiving /\ Len(values) < Len(items)
    BY <1>4 DEF ReadItem, Receive
  <2>2. PICK item : item = items[Len(values) + 1]
    OBVIOUS
  <2>3. ReadThere(stream, offset, item) /\ NextKind = item.kind
    BY <2>1, <2>2, NextThere
  <2>4. Deserialize(stream, NextKind, offset) = Read(Len(BytesOf(item)), ReadBack(item))
    BY <2>3 DEF ReadThere
  <2>5. Receive(Read(Len(BytesOf(item)), ReadBack(item)))
    BY <1>4, <2>4 DEF ReadItem
  <2> QED
    BY <2>1, <2>2, <2>5, ReceiveKeeps
<1>5. ASSUME NEW major \in {BYTES, TEXT}, ReadInPlace(major) PROVE StreamInv'
  <2>1. receiving /\ Len(values) < Len(items)
    BY <1>5 DEF ReadInPlace
  <2>2. PICK item : item = items[Len(values) + 1]
    OBVIOUS
  <2>3. ReadThere(stream, offset, item) /\ NextKind = item.kind
    BY <2>1, <2>2, NextThere
  <2>4. item.kind = IF major = BYTES THEN "bytes" ELSE "text"
    BY <1>5, <2>3 DEF ReadInPlace
  <2>5. DecodeBytesNoCopy(major, stream, offset) = Read(Len(BytesOf(item)), ReadBack(item))
    BY <2>3, <2>4 DEF ReadThere
  <2>6. Receive(Read(Len(BytesOf(item)), ReadBack(item)))
    BY <1>5, <2>5 DEF ReadInPlace
  <2> QED
    BY <2>1, <2>2, <2>6, ReceiveKeeps
<1>6. CASE UNCHANGED streamVars
  <2>1. \A start : Layout(start)' = Layout(start) /\ InStep(start)' = InStep(start)
    BY <1>6 DEF streamVars, Layout, InStep
  <2>2. Written' /\ Stream' /\ ReadSoFar'
    BY <1>6 DEF streamVars, StreamInv, Written, Stream, ReadSoFar
  <2> QED
    BY <2>1, <2>2 DEF StreamInv
<1> QED
  BY <1>1, <1>2, <1>3, <1>4, <1>5, <1>6 DEF StreamNext, WriterNext, ReceiverNext

LEMMA StreamInvHolds == StreamSpec => []StreamInv
<1> QED
  BY StreamInvInit, StreamInvStep, PTL DEF StreamSpec

-----------------------------------------------------------------------------
(* The theorems.                                                           *)

\* No serializer writes past the buffer and no read leads past the bytes sent, for
\* any items, any buffer size and any use of cbor_clear and cbor_destroy.
THEOREM NoOverrunCorrect == StreamSpec => []NoOverrun
<1>1. StreamInv => NoOverrun
  <2> SUFFICES ASSUME StreamInv PROVE NoOverrun
    OBVIOUS
  <2>1. stream.data \in Seq(Byte) /\ Len(stream.data) <= stream.size
    BY DEF StreamInv, Stream
  <2>2. receiving => offset <= Len(stream.data)
    <3> SUFFICES ASSUME receiving PROVE offset <= Len(stream.data)
      OBVIOUS
    <3>1. PICK start : Layout(start) /\ InStep(start)
      BY DEF StreamInv
    <3>2. Len(values) \in Nat /\ Len(items) \in Nat /\ Len(values) <= Len(items)
      BY DEF StreamInv, Written, ReadSoFar
    <3>3. Len(stream.data) \in Nat
      BY <2>1
    <3>4. CASE Len(values) = Len(items)
      <4>1. offset = Len(stream.data)
        BY <3>1, <3>4 DEF Layout, InStep
      <4> QED
        BY SMT, <3>3, <4>1
    <3>5. CASE Len(values) < Len(items)
      <4>1. PICK item : item = items[Len(values) + 1]
        OBVIOUS
      <4>2. WellTyped(item) /\ At(stream.data, offset, BytesOf(item))
        BY <3>5, <4>1, NextThere
      <4>3. Len(BytesOf(item)) \in Nat
        BY <4>2, ItemBytes DEF Sized
      <4>4. offset \in Nat /\ offset + Len(BytesOf(item)) <= Len(stream.data)
        BY <4>2 DEF At
      <4> QED
        BY SMT, <3>3, <4>3, <4>4
    <3> QED
      BY SMT, <3>2, <3>4, <3>5
  <2> QED
    BY <2>1, <2>2 DEF NoOverrun
<1> QED
  BY <1>1, StreamInvHolds, PTL

\* The receiver reads the values that were written, whatever their number and kinds,
\* and its return values add up to the bytes sent.
THEOREM RoundTripCorrect == StreamSpec => []RoundTrip
<1>1. StreamInv => RoundTrip
  <2> SUFFICES ASSUME StreamInv PROVE RoundTrip
    OBVIOUS
  <2>1. \A k \in 1..Len(values) : values[k] = ReadBack(items[k])
    BY DEF StreamInv, ReadSoFar
  <2>2. DOMAIN values = 1..Len(values)
    BY DEF StreamInv, ReadSoFar
  <2>3. ASSUME receiving, Len(values) = Len(items) PROVE offset = Len(stream.data)
    <3>1. PICK start : Layout(start) /\ InStep(start)
      BY DEF StreamInv
    <3> QED
      BY <2>3, <3>1 DEF Layout, InStep
  <2> QED
    BY <2>1, <2>2, <2>3 DEF RoundTrip, ReadBack
<1> QED
  BY <1>1, StreamInvHolds, PTL

\* No deserializer of a number, a float or a string accepts an item of another kind.
THEOREM StrictReadersCorrect == StreamSpec => []StrictReaders
<1>1. StreamInv => StrictReaders
  <2> SUFFICES ASSUME StreamInv, receiving, Len(values) < Len(items),
                      NEW kind \in Integer \cup {"half", "float", "double", "bytes", "text"}
               PROVE  LET found == items[Len(values) + 1].kind
                      IN  \/ kind = found
                          \/ {kind, found} \subseteq Integer
                          \/ Deserialize(stream, kind, offset).ret = 0
    BY DEF StrictReaders
  <2>1. PICK item : item = items[Len(values) + 1]
    OBVIOUS
  <2>2. WellTyped(item) /\ ReadThere(stream, offset, item)
    BY <2>1, NextThere
  <2>3. item.kind \in Kinds /\ FirstByte(item.kind, ByteAt(stream, offset))
    BY <2>2, TypedValue DEF ReadThere
  <2>4. \/ kind = item.kind
        \/ {kind, item.kind} \subseteq Integer
        \/ Deserialize(stream, kind, offset).ret = 0
    BY <2>3, OtherKindFails
  <2> QED
    BY <2>1, <2>4
<1> QED
  BY <1>1, StreamInvHolds, PTL

\* A half that was read is the float sent, rounded once.
LEMMA HalfRead ==
  ASSUME StreamInv, NEW k \in HalvesRead
  PROVE  IsFloat(items[k].val) /\ values[k] = DecodeHalf(EncodeHalf(items[k].val))
<1>1. /\ load \in DOMAIN Loads /\ items \in Seq(Loads[load].items)
      /\ Len(values) \in Nat /\ Len(values) <= Len(items)
      /\ \A j \in 1..Len(values) : values[j] = ReadBack(items[j])
      /\ DOMAIN values = 1..Len(values)
  BY DEF StreamInv, Written, ReadSoFar
<1>2. k \in 1..Len(values) /\ items[k].kind = "half"
  BY <1>1 DEF HalvesRead
<1>3. Len(items) \in Nat
  BY <1>1
<1>4. k \in 1..Len(items)
  BY SMT, <1>1, <1>2, <1>3
<1>5. WellTyped(items[k])
  BY <1>1, <1>4, LoadIs
<1> QED
  BY <1>1, <1>2, <1>5, TypedValue DEF ReadBack, IsFloat

\* A float in the range of the halves is sent as the half nearest to it, for every
\* float: the carry of the rounding is right at every change of the exponent.
THEOREM NearestHalfCorrect == StreamSpec => []NearestHalf
<1>1. StreamInv => NearestHalf
  BY HalfRead, HalfSent DEF NearestHalf
<1> QED
  BY <1>1, StreamInvHolds, PTL

\* A float that was read from a half is sent again as that half, the sign is kept and
\* a NaN, and nothing else, is read as a NaN.
THEOREM HalfStableCorrect == StreamSpec => []HalfStable
<1>1. StreamInv => HalfStable
  BY HalfRead, HalfSent DEF HalfStable
<1> QED
  BY <1>1, StreamInvHolds, PTL
=============================================================================
