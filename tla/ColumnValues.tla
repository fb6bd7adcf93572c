---------------------------- MODULE ColumnValues ----------------------------
(***************************************************************************)
(* What becomes of a Go value that is bound to a statement, stored by the  *)
(* server and fetched again: the encoders that pkg_init.go registers for   *)
(* the Go types, the column decoders of type_decoder.go, and the server's  *)
(* time zone that a new connection asks for (connection.go).  A value is   *)
(* [kind, val].  The encoders of the interval and binary float types,      *)
(* which are not registered for any Go type, stand for the server's own.   *)
(***************************************************************************)
EXTENDS OracleNumber

CONSTANTS
  MaxStored,    \* bound on the number of stored values
  ServerZones   \* the server's DBTIMEZONE: [sign, hours, minutes]

VARIABLES
  zone,     \* TZ_OFFSET(DBTIMEZONE)
  offset,   \* shelf._serverTimeZoneOffset
  stored,   \* what the server has stored: the value, the column, the bytes
  row       \* the last value fetched, with what Rows.Next returned

columnVars == <<zone, offset, stored, row>>

NoRow == [result |-> Error]

\* newConnection registers the offset before the connection is used.
ColumnInit ==
  /\ zone \in ServerZones
  /\ offset = serverTimeZoneOffset(zone)
  /\ stored = <<>>
  /\ row = NoRow

\* The encoder of EncoderRegistry.
encode(x) ==
  CASE x.kind = "integer" -> Valid(EncodeInt(x.val))
    [] x.kind = "float64" -> Valid(EncodeFloat(x.val))
    [] x.kind = "binary" -> Valid(<<EncodeBinary(x.val)>>)
    [] x.kind = "yearToMonth" -> EncodeYearToMonth(x.val)
    [] x.kind = "dayToSecond" -> EncodeDayToSecond(x.val)
    [] x.kind = "time" -> EncodeTimestampWithTimeZone(x.val)

\* The columns that take a value.
Takes(column, x) ==
  CASE x.kind \in {"integer", "float64"} -> column.type = "NUMBER"
    [] x.kind = "time" -> column.type \in {"DATE", "TIMESTAMP", "TSTZ", "TSLTZ"}
    [] OTHER -> column.type = x.kind

Seconds(c) == ((c.day * 24 + c.hour) * 60 + c.minute) * 60 + c.second
ZoneSeconds(tz) == tz.sign * (tz.hours * 3600 + tz.minutes * 60)

\* The server's conversion of what was bound to the type of the column; it
\* leaves out zero nanoseconds.
serverStores(column, x, bytes) ==
  LET ns == IF x.val.ns = 0 THEN <<>> ELSE <<x.val.ns>>
      date == SubSeq(bytes, 1, 7)
  IN CASE column.type = "DATE" -> date
       [] column.type = "TIMESTAMP" -> date \o ns
       [] column.type = "TSTZ" -> date \o ns \o SubSeq(bytes, 9, 10)
       [] column.type = "TSLTZ" ->
            <<bytes[1], bytes[2], bytes[3],
              Seconds(x.val) - x.val.offset + ZoneSeconds(zone), x.val.ns>>
       [] OTHER -> bytes

\* The decoder of DecoderRegistry.
decodeColumn(column, bytes) ==
  CASE column.type = "NUMBER" -> DecodeNumberColumn(bytes, column.precision, column.scale)
    [] column.type = "binary" -> Valid(DecodeBinary(bytes[1]))
    [] column.type = "yearToMonth" -> DecodeYearToMonth(bytes)
    [] column.type = "dayToSecond" -> DecodeDayToSecond(bytes)
    [] column.type = "DATE" -> DecodeDate(bytes)
    [] column.type = "TIMESTAMP" -> DecodeTimestamp(bytes)
    [] column.type = "TSTZ" -> DecodeTimestampWithTimeZone(bytes)
    [] column.type = "TSLTZ" -> DecodeTimestampWithLocalTimeZone(bytes, offset)

Bind(x, column) ==
  /\ Len(stored) < MaxStored
  /\ \A i \in DOMAIN stored : stored[i].column = column
  /\ Takes(column, x)
  /\ LET r == encode(x)
     IN /\ r.ok
        /\ stored' = Append(stored, [value |-> x, column |-> column,
                                     bytes |-> serverStores(column, x, r.val)])
  /\ UNCHANGED <<zone, offset, row>>

Fetch(i) ==
  /\ i \in DOMAIN stored
  /\ row' = [from |-> stored[i], result |-> decodeColumn(stored[i].column, stored[i].bytes)]
  /\ UNCHANGED <<zone, offset, stored>>

----------------------------------------------------------------------------
(* Properties.                                                             *)

DecimalOf(x) == IF x.kind = "integer" THEN IntDecimal(x.val) ELSE x.val

\* A NUMBER's mantissa as its bytes hold it, two digits each.
Aligned(v) == IF v.e % 2 = 0 THEN v.m ELSE 10 * v.m

\* The magnitudes NUMBER can represent.
InRange(v) == v.m = 0 \/ Magnitude(v) \in -130..125

\* The float64s FromNumber is made for: a mantissa that fits a uint64, and a
\* first byte that is not the one of zero.
FloatReadable(v) ==
  Aligned(v) <= MaxUint /\ (v.m # 0 /\ ~v.neg => Magnitude(v) >= -128)

NumberReadBack(v, column, result) ==
  IF column.scale = FloatScale
  THEN FloatReadable(v) => result = Valid(v)
  ELSE result.ok /\ IsNearest(result.val, v, column.scale)

\* No interval is a negative zero.
Canonical(v) == [v EXCEPT !.neg = @ /\ \E f \in DOMAIN v \ {"neg"} : v[f] # 0]

Clock(t) == [f \in {"year", "month", "day", "hour", "minute", "second"} |-> t[f]]
SkippedHere(t) == <<t.month, t.day, t.hour>> \in LocalGap

TimeReadBack(t, column, result) ==
  CASE column.type = "DATE" -> result = Valid(Clock(t))
    [] column.type = "TIMESTAMP" -> result = Valid([clock |-> Clock(t), ns |-> t.ns])
    [] column.type = "TSTZ" ->
         result = Valid([clock |-> Clock(t), ns |-> t.ns, offset |-> 60 * Quot(t.offset, 60)])
    [] column.type = "TSLTZ" ->
         result = Valid([year |-> t.year, month |-> t.month,
                      instant |-> Seconds(t) - t.offset, ns |-> t.ns])

\* A value that was bound and stored is fetched as itself.  A NUMBER is rounded
\* to the scale its column is described with, half away from zero; a
\* FLOAT column returns every number whose digits fit a uint64.  A time keeps
\* its wall clock unless the client's zone skips it, and its instant while the
\* server's offset fits 16 bits and the year is not BC.  An interval keeps its
\* sign and components, except the smallest number of days.
StoredReadBack ==
  row # NoRow =>
    LET x == row.from.value
        column == row.from.column
    IN CASE x.kind \in {"integer", "float64"} ->
              InRange(DecimalOf(x)) => NumberReadBack(DecimalOf(x), column, row.result)
         [] x.kind = "time" ->
              \/ column.type # "TSLTZ" /\ SkippedHere(x.val)
              \/ column.type = "TSLTZ" /\ (x.val.year < 0 \/ ZoneSeconds(zone) \notin -32767..32767)
              \/ TimeReadBack(x.val, column, row.result)
         [] x.kind = "binary" -> row.result = Valid(x.val)
         [] x.kind = "yearToMonth" -> row.result = Valid(Canonical(x.val))
         [] x.kind = "dayToSecond" ->
              \/ x.val.neg /\ x.val.days = SignMask
              \/ row.result = Valid(Canonical(x.val))

\* The order of the bytes: that of the first byte that differs, else a prefix
\* comes first.
BytesLess(a, b) ==
  \E n \in 0..Len(a) :
    /\ n <= Len(b) /\ SubSeq(a, 1, n) = SubSeq(b, 1, n)
    /\ \/ n = Len(a) /\ n < Len(b)
       \/ n < Len(a) /\ n < Len(b) /\ a[n + 1] < b[n + 1]

\* A component-wise order of intervals, the sign applied to every component.
IntervalLess(v, w, fields) ==
  BytesLess([i \in DOMAIN fields |-> Signed(v.neg, v[fields[i]]) + SignMask],
            [i \in DOMAIN fields |-> Signed(w.neg, w[fields[i]]) + SignMask])

ValueLess(x, y) ==
  CASE x.kind \in {"integer", "float64"} -> NumberLess(DecimalOf(x), DecimalOf(y))
    [] x.kind = "binary" -> BinaryLess(x.val, y.val)
    [] x.kind = "yearToMonth" -> IntervalLess(x.val, y.val, <<"years", "months">>)
    [] x.kind = "dayToSecond" ->
         IntervalLess(x.val, y.val, <<"days", "hours", "minutes", "seconds", "ns">>)

\* The formats are made to be compared as bytes: of two numbers, binary floats
\* or intervals the smaller one has the smaller bytes, whatever their signs,
\* lengths and exponents, which the terminator of negative numbers, the
\* complemented digits and the biases are for.
OrderPreserved ==
  \A i, j \in DOMAIN stored :
    LET x == stored[i].value
        y == stored[j].value
    IN /\ x.kind # "time"
       /\ x.kind = "float64" => InRange(x.val)
       /\ y.kind = "float64" => InRange(y.val)
       => (ValueLess(x, y) <=> BytesLess(stored[i].bytes, stored[j].bytes))
=============================================================================
