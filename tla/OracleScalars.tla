--------------------------- MODULE OracleScalars ---------------------------
(***************************************************************************)
(* The wire formats of BINARY_FLOAT and BINARY_DOUBLE, the INTERVAL types  *)
(* and the date and time types in internal/driver/ttc/converters: float.go,*)
(* interval.go and datetimestamp.go.  A field of several bytes that is     *)
(* written big-endian is one number here.  Text is parsed and formatted    *)
(* outside of the model: an interval is a sign and its components.         *)
(***************************************************************************)
EXTENDS Integers, Sequences

CONSTANTS
  SignMask,   \* _signMask32, _signMask64 and _yearXorBias, the highest bit
  YearLimit,  \* 10^9: _maxYearPrecisionDigits
  NsLimit,    \* 10^9: one more than _maxFractionNs
  LocalGap    \* the <<month, day, hour>> time.Local skips when its clock is set forward

ASSUME OracleScalarsAssumption ==
  /\ SignMask \in Nat \ {0} /\ YearLimit \in 1..SignMask /\ NsLimit \in 1..SignMask

\* An error of a converter, and its result.
Error == [ok |-> FALSE]
Valid(v) == [ok |-> TRUE, val |-> v]

\* Go's division and remainder, which truncate towards zero.
Quot(a, b) == IF a < 0 THEN -((-a) \div b) ELSE a \div b
Rem(a, b) == a - b * Quot(a, b)

----------------------------------------------------------------------------
(* BINARY_FLOAT and BINARY_DOUBLE: the bits of the IEEE 754 format.        *)

BitPatterns == 0..(2 * SignMask - 1)
Signbit(bits) == bits >= SignMask

\* EncodeBinaryFloat and EncodeBinaryDouble: ^bits, or bits ^ _signMask.
EncodeBinary(bits) ==
  IF Signbit(bits) THEN 2 * SignMask - 1 - bits ELSE bits + SignMask

DecodeBinary(stored) ==
  IF stored >= SignMask THEN stored - SignMask ELSE 2 * SignMask - 1 - stored

\* The order of the values the bits stand for, with -0 before +0.
BinaryLess(a, b) ==
  \/ Signbit(a) /\ ~Signbit(b)
  \/ Signbit(a) /\ Signbit(b) /\ a > b
  \/ ~Signbit(a) /\ ~Signbit(b) /\ a < b

----------------------------------------------------------------------------
(* INTERVAL YEAR TO MONTH and INTERVAL DAY TO SECOND.                      *)

\* int32(x) ^ _yearXorBias, and back.
Biased(x) == x + SignMask
Unbiased(raw) == raw - SignMask

Signed(neg, x) == IF neg THEN -x ELSE x
Abs(x) == IF x < 0 THEN -x ELSE x

\* EncodeIntervalYearToMonth: the sign is applied to both components.
EncodeYearToMonth(v) ==
  IF v.years >= YearLimit \/ v.months \notin 0..11 THEN Error
  ELSE Valid(<<Biased(Signed(v.neg, v.years)), 60 + Signed(v.neg, v.months)>>)

\* DecodeIntervalYearToMonth.
DecodeYearToMonth(bytes) ==
  LET months == bytes[2] - 60
      total == 12 * Unbiased(bytes[1]) + months
  IN IF months \notin -11..11 THEN Error
     ELSE Valid([neg |-> total < 0, years |-> Abs(total) \div 12, months |-> Abs(total) % 12])

\* EncodeIntervalDayToSecond.
EncodeDayToSecond(v) ==
  IF \/ v.hours \notin 0..23 \/ v.minutes \notin 0..59 \/ v.seconds \notin 0..59
     \/ v.ns \notin 0..(NsLimit - 1)
     \/ Signed(v.neg, v.days) \notin -SignMask..(SignMask - 1)
  THEN Error
  ELSE Valid(<<Biased(Signed(v.neg, v.days)),
               60 + Signed(v.neg, v.hours), 60 + Signed(v.neg, v.minutes),
               60 + Signed(v.neg, v.seconds), Biased(Signed(v.neg, v.ns))>>)

\* dd = -dd on an int32, which leaves the smallest one negative.
AbsInt32(x) == IF x = -SignMask THEN x ELSE Abs(x)

\* DecodeIntervalDayToSecond: any negative component makes the value negative.
DecodeDayToSecond(bytes) ==
  LET days == Unbiased(bytes[1])
      hours == bytes[2] - 60
      minutes == bytes[3] - 60
      seconds == bytes[4] - 60
      ns == Unbiased(bytes[5])
  IN IF \/ hours \notin -23..23 \/ minutes \notin -59..59 \/ seconds \notin -59..59
        \/ Abs(ns) >= NsLimit
     THEN Error
     ELSE Valid([neg |-> days < 0 \/ hours < 0 \/ minutes < 0 \/ seconds < 0 \/ ns < 0,
                 days |-> AbsInt32(days), hours |-> Abs(hours), minutes |-> Abs(minutes),
                 seconds |-> Abs(seconds), ns |-> Abs(ns)])

----------------------------------------------------------------------------
(* DATE, TIMESTAMP and TIMESTAMP WITH TIME ZONE.  A time.Time is its wall  *)
(* clock and its zone offset in seconds.                                   *)

EncodeDate(t) ==
  IF t.year = 0 \/ t.year \notin -4712..9999 THEN Error
  ELSE Valid(<<Quot(t.year, 100) + 100, Rem(t.year, 100) + 100, t.month, t.day,
               t.hour + 1, t.minute + 1, t.second + 1>>)

\* time.Date in time.Local: Go answers a wall clock the zone skips with one of
\* the two moments that its neighbouring offsets make of it.
inLocal(c) ==
  IF <<c.month, c.day, c.hour>> \in LocalGap THEN [c EXCEPT !.hour = @ + 1] ELSE c

\* DecodeDate's wall clock, built in time.Local.
WallClock(b) ==
  inLocal([year |-> (b[1] - 100) * 100 + b[2] - 100, month |-> b[3], day |-> b[4],
           hour |-> b[5] - 1, minute |-> b[6] - 1, second |-> b[7] - 1])

DecodeDate(b) == IF Len(b) # 7 THEN Error ELSE Valid(WallClock(b))

\* The nanoseconds are one number where the code has four bytes.
EncodeTimestamp(t) ==
  LET date == EncodeDate(t) IN IF date.ok THEN Valid(Append(date.val, t.ns)) ELSE Error

\* The server leaves the nanoseconds out when they are zero.
DecodeTimestamp(b) ==
  CASE Len(b) = 7 -> Valid([clock |-> WallClock(b), ns |-> 0])
    [] Len(b) = 8 -> Valid([clock |-> WallClock(b), ns |-> b[8]])
    [] OTHER -> Error

\* EncodeTimestampWithTimeZone, the encoder registered for time.Time: hours and
\* minutes of the offset, biased, with _oracleTZExtendedBit in the hours.
EncodeTimestampWithTimeZone(t) ==
  LET base == EncodeTimestamp(t)
      h == Quot(t.offset, 3600)
      m == Quot(t.offset - h * 3600, 60)
  IN IF base.ok THEN Valid(base.val \o <<h + 20 + 64, m + 60>>) ELSE Error

\* DecodeTimestampWithTimeZone; 128 is _oracleTZRegionMask.
DecodeTimestampWithTimeZone(b) ==
  LET n == Len(b)
      hour == IF b[n - 1] >= 64 THEN b[n - 1] % 64 ELSE b[n - 1]
      offset == (hour - 20) * 3600 + (b[n] - 60) * 60
  IN IF n \notin {9, 10} \/ b[n - 1] >= 128 THEN Error
     ELSE Valid([clock |-> WallClock(b), ns |-> IF n = 10 THEN b[8] ELSE 0,
                 offset |-> offset])

----------------------------------------------------------------------------
(* TIMESTAMP WITH LOCAL TIME ZONE.  The day and the time of day are one    *)
(* number of seconds in the month.                                         *)

Int16(x) == ((x + 32768) % 65536) - 32768

\* _registerServerTimezoneOffset and parseTimeZone, on "+HH:MM" or "-HH:MM".
serverTimeZoneOffset(tz) == Int16(tz.sign * tz.hours * 3600 + tz.sign * tz.minutes * 60)

\* DecodeTimestampWithLocalTimeZone: the server's wall clock, taken as UTC, and
\* moved by the negated offset.
DecodeTimestampWithLocalTimeZone(b, offset) ==
  LET year == (b[1] - 100) * 100 + b[2] - 100
  IN IF year < 0 THEN Error
     ELSE Valid([year |-> year, month |-> b[3], instant |-> b[4] + Int16(-offset), ns |-> b[5]])
=============================================================================
