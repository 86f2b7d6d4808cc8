----------------------------- MODULE HalfFloat -----------------------------
(***************************************************************************)
(* The half-width floats of cbor.c.  A float is the sequence of its four   *)
(* bytes, as in Cbor; a half is the uint16_t, a number.  The bits of a NaN *)
(* other than its sign are not kept: every NaN read is the one with the    *)
(* highest mantissa bit only.                                              *)
(***************************************************************************)
EXTENDS Cbor

FLOAT16 == SEVEN + 25

FloatBytes(sign, e, m) ==
  <<128 * sign + (e \div 2), 128 * (e % 2) + (m \div 65536),
    (m \div 256) % 256, m % 256>>

Sign(v) == v[1] \div 128

Exponent(v) == 2 * (v[1] % 128) + (v[2] \div 128)

Mantissa(v) == 65536 * (v[2] % 128) + 256 * v[3] + v[4]

IsNaN(v) == Exponent(v) = 255 /\ Mantissa(v) # 0

\* ldexp, for n < 2^12: n * 2^x as a float
Ldexp(sign, n, x) ==
  IF n = 0 THEN FloatBytes(sign, 0, 0)
  ELSE LET top == CHOOSE k \in 0..11 : 2^k <= n /\ n < 2^(k + 1)
       IN  FloatBytes(sign, top + x + 127, (n - 2^top) * 2^(23 - top))

\* Mutant of DecodeHalf: a denormal is scaled as the smallest normal is.
DecodeHalfNoDenormal(half) ==
  LET sign == half \div 32768
      exp == (half \div 1024) % 32
      mant == half % 1024
  IN  IF exp # 31 THEN Ldexp(sign, mant + 1024, exp - 25)
      ELSE FloatBytes(sign, 255, IF mant = 0 THEN 0 ELSE 2^22)

\* decode_float_half, and the cast of its result to float
DecodeHalf(half) ==
  LET sign == half \div 32768
      exp == (half \div 1024) % 32
      mant == half % 1024
  IN  CASE exp = 0 -> Ldexp(sign, mant, -24)
        [] exp \in 1..30 -> Ldexp(sign, mant + 1024, exp - 25)
        [] exp = 31 -> FloatBytes(sign, 255, IF mant = 0 THEN 0 ELSE 2^22)

\* Mutant of RoundDenormal: the bit that decides is the last one kept.
RoundDenormalLate(m, e) ==
  (m \div 2^(114 - e)) + ((m \div 2^(114 - e)) % 2)

\* The denormal half of a mantissa with its leading bit and one extra bit.
RoundDenormal(m, e) ==
  (m \div 2^(114 - e)) + ((m \div 2^(113 - e)) % 2)

\* encode_float_half: m keeps one extra bit, for rounding
EncodeHalf(v) ==
  LET e == Exponent(v)
      m == Mantissa(v) \div 4096
  IN  32768 * Sign(v) +
     (CASE e < 103 -> 0
        [] e > 142 -> 31744 + (IF IsNaN(v) THEN 1 ELSE 0)
        [] e \in 103..112 -> RoundDenormal(m + 2048, e)
        [] e \in 113..142 -> 1024 * (e - 112) + (m \div 2) + (m % 2))

\* cbor_serialize_float_half
SerializeFloatHalf(s, v) ==
  Write(s, <<FLOAT16, EncodeHalf(v) \div 256, EncodeHalf(v) % 256>>)

\* Mutant of DeserializeFloatHalf: the initial byte is not counted.
DeserializeFloatHalfNoHead(s, offset) ==
  IF ByteAt(s, offset) = FLOAT16
    THEN Read(2, DecodeHalf(256 * ByteAt(s, offset + 1) + ByteAt(s, offset + 2)))
    ELSE Failed

\* cbor_deserialize_float_half checks no size, as DeserializeFloat.
DeserializeFloatHalf(s, offset) ==
  IF ByteAt(s, offset) = FLOAT16
    THEN Read(3, DecodeHalf(256 * ByteAt(s, offset + 1) + ByteAt(s, offset + 2)))
    ELSE Failed

\* Floats of one sign are ordered as their bits are.
Magnitude(v) == 16777216 * (v[1] % 128) + 65536 * v[2] + 256 * v[3] + v[4]

\* Half way between the magnitudes of the halves h and h + 1.
Midpoint(h) ==
  LET g == 2 * h + 1
  IN  Magnitude(IF g < 2048 THEN Ldexp(0, g, -25)
                ELSE Ldexp(0, (g % 2048) + 2048, (g \div 2048) - 26))

RoundsTo(v, h) ==
  /\ Magnitude(v) < Midpoint(h)
  /\ h > 0 => Magnitude(v) >= Midpoint(h - 1)
=============================================================================
