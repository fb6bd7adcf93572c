---------------------------- MODULE OracleNumber ----------------------------
(***************************************************************************)
(* The NUMBER format of internal/driver/ttc/converters/number.go and       *)
(* float.go, and DecodeNumberColumn of type_decoder.go.  A decimal is the  *)
(* record of a sign, a mantissa m without trailing zeros and an exponent   *)
(* e, and stands for m * 10^e; so does a float64, of which                 *)
(* strconv.FormatFloat yields the shortest decimal.  The bytes are those   *)
(* of the code; the widths of uint64 and of the longest wire value are     *)
(* parameters, for instances TLC can compute with.                         *)
(***************************************************************************)
EXTENDS OracleScalars, SequencesExt, FiniteSetsExt

CONSTANTS
  MaxUint,        \* math.MaxUint64
  NumberWireMax   \* _numberWireMaxLen

ASSUME OracleNumberAssumption ==
  MaxUint \in Nat /\ MaxUint % 2 = 1 /\ NumberWireMax \in Nat /\ NumberWireMax > 1

\* _numberZeroWireByte and _negTerminatorByte, and the scale that stands for
\* FLOAT, NumberScaleFloatSentinel.
ZeroByte == 128
Terminator == 102
FloatScale == -127

NumDigits(n) == IF n = 0 THEN 1 ELSE Min({k \in 1..9 : n < 10 ^ k})
Digits(n) == [i \in 1..NumDigits(n) |-> (n \div 10 ^ (NumDigits(n) - i)) % 10]

Zero == [neg |-> FALSE, m |-> 0, e |-> 0]

\* The decimal of a sign, a mantissa and an exponent.
Decimal(neg, m, e) ==
  IF m = 0 THEN Zero
  ELSE LET k == Max({j \in 0..8 : m % 10 ^ j = 0})
       IN [neg |-> neg, m |-> m \div 10 ^ k, e |-> e + k]

IntDecimal(n) == Decimal(n < 0, IF n < 0 THEN -n ELSE n, 0)

\* The exponent of the first digit.
Magnitude(v) == v.e + NumDigits(v.m) - 1

----------------------------------------------------------------------------
(* Encoding.                                                               *)

\* Two digits per byte, the last pair completed by a zero.
Pairs(digits) ==
  [i \in 1..((Len(digits) + 1) \div 2) |->
     10 * digits[2 * i - 1] + (IF 2 * i <= Len(digits) THEN digits[2 * i] ELSE 0)]

\* Mutant: a negative exponent is halved like a positive one.
leadByteNoFloor(exponent, negative) ==
  LET byte == (Quot(exponent, 2) + 1 + 64) % 256
  IN IF negative THEN 128 * (byte \div 128) + 127 - (byte % 128) ELSE 128 + (byte % 128)

\* byte(exponent + _exponentBias), with its sign bit.
leadByte(exponent, negative) ==
  LET byte == (Quot(IF exponent < 0 THEN exponent - 1 ELSE exponent, 2) + 1 + 64) % 256
  IN IF negative THEN 128 * (byte \div 128) + 127 - (byte % 128) ELSE 128 + (byte % 128)

\* Mutant: negative numbers are not terminated.
ToNumberUnterminated(digits, negative, exponent) ==
  LET pairs == Pairs(IF exponent % 2 = 0 THEN <<0>> \o digits ELSE digits)
  IN <<leadByte(exponent, negative)>>
     \o [i \in DOMAIN pairs |-> (IF negative THEN 100 - pairs[i] ELSE pairs[i]) + 1]

\* ToNumber and _toNumberStrict, on digits without trailing zeros; exponent is
\* that of the first digit.
ToNumber(digits, negative, exponent) ==
  LET pairs == Pairs(IF exponent % 2 = 0 THEN <<0>> \o digits ELSE digits)
  IN <<leadByte(exponent, negative)>>
     \o [i \in DOMAIN pairs |-> (IF negative THEN 100 - pairs[i] ELSE pairs[i]) + 1]
     \o (IF negative /\ Len(pairs) + 2 <= NumberWireMax THEN <<Terminator>> ELSE <<>>)

\* EncodeInt, EncodeUInt and encodeIntegerDigitsStrict, which strips the
\* trailing zeros and keeps the exponent of the first digit.
EncodeInt(n) ==
  LET v == IntDecimal(n)
  IN IF n = 0 THEN <<ZeroByte>> ELSE ToNumber(Digits(v.m), v.neg, Magnitude(v))

\* EncodeFloat, the encoder registered for float32 and float64.
EncodeFloat(v) ==
  IF v.m = 0 THEN <<ZeroByte>> ELSE ToNumber(Digits(v.m), v.neg, Magnitude(v))

\* EncodeDecimal, which has no caller: [1e-130, 1e126) is its domain.
EncodeDecimal(v) ==
  IF v.m # 0 /\ Magnitude(v) \notin -130..125 THEN Error ELSE Valid(EncodeFloat(v))

----------------------------------------------------------------------------
(* Decoding.                                                               *)

\* The common part of FromNumber and _fromNumberBig: a mantissa of at most
\* limit, its sign and its exponent.
unpack(bytes, limit) ==
  LET negative == bytes[1] < 128
      exponent == (IF negative THEN 127 - bytes[1] ELSE bytes[1] - 128) - 64
      terminated == negative /\ Last(bytes) = Terminator
      buf == SubSeq(bytes, 2, IF terminated THEN Len(bytes) - 1 ELSE Len(bytes))
      pair(b) == IF negative THEN 101 - b ELSE b - 1
      mantissa == FoldLeft(LAMBDA acc, b : acc * 100 + pair(b), 0, buf)
  IN IF \/ terminated /\ Len(bytes) = 1
        \/ \E i \in DOMAIN buf : pair(buf[i]) \notin 0..99
        \/ mantissa > limit
     THEN Error
     ELSE Valid([neg |-> negative, m |-> mantissa, e |-> 2 * exponent - 2 * Len(buf)])

validNumberWireLength(bytes) == Len(bytes) <= NumberWireMax

FromNumber(bytes) ==
  IF bytes = <<>> \/ ~validNumberWireLength(bytes) THEN Error
  ELSE IF bytes[1] = ZeroByte THEN Valid(Zero)
  ELSE unpack(bytes, MaxUint)

\* No mantissa of NumberWireMax bytes exceeds this limit.
fromNumberBig(bytes) ==
  IF bytes = <<>> \/ ~validNumberWireLength(bytes) THEN Error
  ELSE unpack(bytes, 100 ^ (NumberWireMax - 1))

MaxInt == MaxUint \div 2

\* len(_pow10): the table ends with the largest power of ten in a uint64.
Pow10Len == Min({k \in 1..9 : 10 ^ k > MaxUint})

\* DecodeInt: 10^exponent is looked up in _pow10 and the product is tested for
\* overflow.
intOf(r) ==
  IF ~r.ok THEN Error
  ELSE LET n == r.val.m * 10 ^ r.val.e
       IN IF r.val.e < 0 \/ r.val.e >= Pow10Len THEN Error
          ELSE IF n > MaxUint \/ n > (IF r.val.neg THEN MaxInt + 1 ELSE MaxInt) THEN Error
          ELSE Valid(IF r.val.neg THEN -n ELSE n)
DecodeInt(bytes) == intOf(FromNumber(bytes))

\* DecodeFloat, up to the rounding of strconv.ParseFloat.
decimalOf(r) == IF r.ok THEN Valid(Decimal(r.val.neg, r.val.m, r.val.e)) ELSE Error
DecodeFloat(bytes) == decimalOf(FromNumber(bytes))

\* DecodeExactDecimalAsString.
DecodeExactDecimal(bytes) ==
  IF bytes = <<ZeroByte>> THEN Valid(Zero)
  ELSE decimalOf(fromNumberBig(bytes))

validNumberMetadata(precision, scale) == precision \in 0..38 /\ scale \in -84..127

\* DecodeDecimal's rounding half away from zero to a multiple of 10^-scale: by
\* big.Rat.FloatString, or by the division that follows for a negative scale.
roundToScale(v, scale) ==
  LET k == -scale - v.e
      q == v.m \div 10 ^ k
      r == v.m % 10 ^ k
  IN IF k <= 0 THEN v
     ELSE IF k > 8 THEN Zero
     ELSE Decimal(v.neg, IF 2 * r >= 10 ^ k THEN q + 1 ELSE q, -scale)

roundedTo(r, scale) == IF r.ok THEN Valid(roundToScale(r.val, scale)) ELSE Error
DecodeDecimal(bytes, precision, scale) ==
  IF ~validNumberMetadata(precision, scale) THEN Error
  ELSE roundedTo(DecodeExactDecimal(bytes), scale)

\* DecodeNumberColumn: an int64 where one will do, else a decimal or a float.
DecodeNumberColumn(bytes, precision, scale) ==
  LET int == DecodeInt(bytes)
  IN IF scale \in {0, FloatScale} /\ int.ok THEN Valid(IntDecimal(int.val))
     ELSE IF scale = FloatScale THEN DecodeFloat(bytes)
     ELSE DecodeDecimal(bytes, precision, scale)

----------------------------------------------------------------------------
(* Reference definitions.                                                  *)

\* |v| < |w|, by the exponents of the first digits and then the digits.
AbsLess(v, w) ==
  LET a == NumDigits(v.m)
      b == NumDigits(w.m)
      n == Max({a, b})
  IN IF v.m = 0 \/ w.m = 0 THEN v.m = 0 /\ w.m # 0
     ELSE \/ Magnitude(v) < Magnitude(w)
          \/ /\ Magnitude(v) = Magnitude(w)
             /\ v.m * 10 ^ (n - a) < w.m * 10 ^ (n - b)

NumberLess(v, w) ==
  \/ v.neg /\ ~w.neg
  \/ v.neg /\ w.neg /\ AbsLess(w, v)
  \/ ~v.neg /\ ~w.neg /\ AbsLess(v, w)

\* r is the multiple of 10^-scale nearest to v, the larger one of two.
IsNearest(r, v, scale) ==
  LET k == -scale - v.e
      n == r.m * 10 ^ (r.e - v.e)
      dist == IF n > v.m THEN n - v.m ELSE v.m - n
  IN IF k <= 0 THEN r = v
     ELSE IF r.m = 0 THEN k > 8 \/ 2 * v.m < 10 ^ k
     ELSE /\ r.neg = v.neg /\ r.e >= -scale
          /\ 2 * dist <= 10 ^ k /\ (2 * dist = 10 ^ k => n > v.m)
=============================================================================
