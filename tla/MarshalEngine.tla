--------------------------- MODULE MarshalEngine ---------------------------
(***************************************************************************)
(* MarshalEngine of internal/driver/ttc/marshal_engine.go, and the         *)
(* composite fields of ttcTypes.go that are built from it.  One end of the *)
(* wire marshals fields, the other unmarshals them in the same order with  *)
(* an engine of the same type representation and byte order.  A byte is a  *)
(* number below Radix (256 in the code, smaller in a finite instance) and  *)
(* the widths, markers and limits are scaled with it.                      *)
(***************************************************************************)
EXTENDS Integers, Sequences, SequencesExt, FiniteSetsExt

CONSTANTS
  Radix,          \* 256
  Width,          \* nbBytes of defaultNumericTypeRep, by type
  Chunk,          \* _checkSize
  ScalarLimit,    \* _maximumScalarLongCLRLength
  PrefetchSize,   \* _defaultLobPrefetchSize
  DalcLimit,      \* maxKeywordValueArrayValueLength
  KeyLimit,       \* maxAuthKeyValueKeyLength
  ValueLimit,     \* maxAuthKeyValueValueLength
  SeqMax,         \* math.MaxInt8
  MaxPending,     \* bound on the fields on the wire
  Engines         \* the type representations and byte orders to consider

ASSUME MarshalEngineAssumption ==
  /\ Radix \in Nat /\ Radix > 8 /\ Radix % 2 = 0
  \* numberOfBytes and the sign share the first byte of a universal value
  /\ \A t \in DOMAIN Width : Width[t] \in 1..(Radix \div 2 - 1)
  /\ {Chunk, ScalarLimit, SeqMax} \subseteq Nat \ {0}
  /\ {PrefetchSize, DalcLimit, KeyLimit, ValueLimit} \subseteq Nat

\* _negativeValueIndicator, _maximumShortValueLength, _espapeValue,
\* _longLengthIndicator and _nullLengthIndicator.
Negative == Radix \div 2
ShortMax == Radix - 4
Escape == Radix - 3
Long == Radix - 2
Null == Radix - 1

VARIABLES
  rep,             \* typeRep of B1, B2, B4, B8 and PTR
  order,           \* _byteOrder
  sequenceNumber,  \* _sequenceNumber
  wire,            \* bytes written and not yet read
  pending,         \* the fields those bytes stand for
  last,            \* what the last read returned, NoRead after a write
  broken           \* a read failed; the stream is not read any further

engineVars == <<rep, order, sequenceNumber, wire, pending, last, broken>>

----------------------------------------------------------------------------
(* Integers.                                                               *)

Unsigned == {"UB1", "UB2", "UB4", "UB8"}
Modulus(t) == Radix ^ Width[t]
MaxValue(t) == IF t \in Unsigned THEN Modulus(t) - 1 ELSE Modulus(t) \div 2 - 1
MinValue(t) == IF t \in Unsigned THEN 0 ELSE -(Modulus(t) \div 2)

\* T(x), the conversion of an integer to the width and sign of type t.
Convert(t, x) == MinValue(t) + ((x - MinValue(t)) % Modulus(t))

\* The index NewMarshalEngine takes the representation of t from.
RepOf(t) ==
  rep[CASE t = "UB1" -> "B1" [] t \in {"UB2", "SB2"} -> "B2"
        [] t \in {"UB4", "SB4"} -> "B4" [] t = "UB8" -> "B8"]

\* The width lowest digits of n, most significant first.
BigEndian(n, width) == [i \in 1..width |-> (n \div Radix ^ (width - i)) % Radix]
FromBigEndian(bytes) == FoldLeft(LAMBDA acc, b : acc * Radix + b, 0, bytes)

writeNative(t, v) ==
  LET bytes == BigEndian(v % Modulus(t), Width[t])
  IN IF order = "LITTLE" THEN Reverse(bytes) ELSE bytes

\* Leading zero bytes are dropped; the first byte is what is left and the sign.
encodeAbsoluteUniversalValue(abs, isNegative) ==
  LET size == Min({n \in 1..Width["UB8"] : abs < Radix ^ n})
  IN <<size + (IF isNegative THEN Negative ELSE 0)>> \o BigEndian(abs, size)

writeUniversal(v) ==
  IF v = 0 THEN <<0>>
  ELSE encodeAbsoluteUniversalValue(IF v < 0 THEN -v ELSE v, v < 0)

\* MarshalUB1 writes the byte whatever the representation; so does UnmarshalUB1.
marshalNumeric(t, v) ==
  IF t = "UB1" THEN <<v>>
  ELSE IF RepOf(t) # "Universal" THEN writeNative(t, v) ELSE writeUniversal(v)

\* A read yields a value and the rest of the stream, or fails.
Got(v, rest) == [ok |-> TRUE, val |-> v, rest |-> rest]
NotRead == [ok |-> FALSE]
\* A value that is read behind others.
Appended(values, read) == IF read.ok THEN Got(Append(values, read.val), read.rest) ELSE NotRead
NoRead == [how |-> "none"]

\* ReadBytesWithContext; a stream that ends here is an error.
ReadBytes(w, n) ==
  IF Len(w) < n THEN NotRead ELSE Got(SubSeq(w, 1, n), SubSeq(w, n + 1, Len(w)))

nativeValue(t, read) ==
  IF read.ok
  THEN Got(Convert(t, FromBigEndian(IF order = "LITTLE" THEN Reverse(read.val) ELSE read.val)), read.rest)
  ELSE NotRead
readNative(t, w) == nativeValue(t, ReadBytes(w, Width[t]))

validUniversalByteCount(t, n) == n # 0 /\ n <= Width[t]

\* The test at the end of _decodeUniversal, on the value after it has been
\* converted, and possibly wrapped, to type t.
outOfRange(t, negative, final) ==
  (negative /\ final > 0) \/ final > MaxValue(t) \/ (~negative /\ final < 0)

signed(t, negative, magnitude) == IF negative THEN Convert(t, -magnitude) ELSE magnitude
inRange(t, negative, final, rest) ==
  IF outOfRange(t, negative, final) THEN NotRead ELSE Got(final, rest)

universalValue(t, negative, read) ==
  IF read.ok
  THEN inRange(t, negative, signed(t, negative, Convert(t, FromBigEndian(read.val))), read.rest)
  ELSE NotRead
decodeUniversal(t, w) ==
  IF w = <<>> THEN NotRead
  ELSE IF Head(w) = 0 THEN Got(0, Tail(w))
  ELSE LET n == Head(w) % Negative
           negative == Head(w) >= Negative
       IN IF ~validUniversalByteCount(t, n) \/ (negative /\ t \in Unsigned) THEN NotRead
          ELSE universalValue(t, negative, ReadBytes(Tail(w), n))

unmarshalNumeric(t, w) ==
  IF t = "UB1"
  THEN IF w = <<>> THEN NotRead ELSE Got(Head(w), Tail(w))
  ELSE IF RepOf(t) # "Universal" THEN readNative(t, w) ELSE decodeUniversal(t, w)

\* UnmarshalSB1 reads an SB2 and keeps its lowest byte.
lowestByte(n) == IF n % Radix >= Negative THEN (n % Radix) - Radix ELSE n % Radix
lowestByteOf(read) == IF read.ok THEN Got(lowestByte(read.val), read.rest) ELSE NotRead
unmarshalSB1(w) == lowestByteOf(unmarshalNumeric("SB2", w))

----------------------------------------------------------------------------
(* CLRs: a byte array after its length, or cut into chunks.                *)

\* The chunks of the long form, size bytes in all but the last.
Chunks(bytes, size) ==
  [i \in 1..((Len(bytes) + size - 1) \div size) |->
     SubSeq(bytes, (i - 1) * size + 1, Min({i * size, Len(bytes)}))]

\* The server cuts its own values and may choose another size.
longCLR(bytes, size) ==
  <<Long>>
  \o FlattenSeq([i \in DOMAIN Chunks(bytes, size) |->
       marshalNumeric("SB4", Len(Chunks(bytes, size)[i])) \o Chunks(bytes, size)[i]])
  \o marshalNumeric("SB4", 0)

marshalCLR(bytes) ==
  IF Len(bytes) > ShortMax THEN longCLR(bytes, Chunk) ELSE <<Len(bytes)>> \o bytes

\* The next chunk of the long form, which the empty one ends.
readChunkOf(length, lengths) ==
  IF ~length.ok THEN NotRead
  ELSE IF length.val \in lengths THEN ReadBytes(length.rest, length.val) ELSE NotRead
readChunk(w, lengths) == readChunkOf(unmarshalNumeric("SB4", w), lengths)

\* The long form of UnmarshalCLR: what exceeds maxSize is read and dropped.
RECURSIVE readTruncated(_, _, _)
readTruncated(chunk, bytes, maxSize) ==
  IF ~chunk.ok THEN NotRead
  ELSE IF chunk.val = <<>> THEN Got(bytes, chunk.rest)
  ELSE readTruncated(readChunk(chunk.rest, Nat),
                     bytes \o SubSeq(chunk.val, 1, Min({maxSize - Len(bytes), Len(chunk.val)})), maxSize)

\* UnmarshalCLR into a buffer of maxSize bytes; every caller passes its length.
\* The short form is refused by _unmarshalBuffer when it does not fit.
unmarshalCLR(w, maxSize) ==
  IF w = <<>> \/ Head(w) = Escape THEN NotRead
  ELSE IF Head(w) = Null THEN Got(<<>>, Tail(w))
  ELSE IF Head(w) <= ShortMax
       THEN IF Head(w) > maxSize THEN NotRead ELSE ReadBytes(Tail(w), Head(w))
  ELSE readTruncated(readChunk(Tail(w), Nat), <<>>, maxSize)

\* _maximumLongCLRChunkLength and maxAllowedCLRLength.
ChunkLimit == 2 * Chunk
maxAllowedCLRLength == 2 * Max({ScalarLimit, PrefetchSize})

RECURSIVE readColumn(_, _)
readColumn(chunk, bytes) ==
  IF ~chunk.ok THEN NotRead
  ELSE IF Len(bytes) + Len(chunk.val) > maxAllowedCLRLength THEN NotRead
  ELSE IF chunk.val = <<>> THEN Got(bytes, chunk.rest)
  ELSE readColumn(readChunk(chunk.rest, 0..ChunkLimit), bytes \o chunk.val)

unmarshalCLRColumnData(w) ==
  IF w = <<>> \/ Head(w) = Escape THEN NotRead
  ELSE IF Head(w) = Null THEN Got(<<>>, Tail(w))
  ELSE IF Head(w) <= ShortMax THEN ReadBytes(Tail(w), Head(w))
  ELSE readColumn(readChunk(Tail(w), 0..ChunkLimit), <<>>)

----------------------------------------------------------------------------
(* Composite fields of ttcTypes.go.                                        *)

\* Mutant: the CLR of an empty array is written all the same.
marshalDalcAlways(bytes) == marshalNumeric("UB4", Len(bytes)) \o marshalCLR(bytes)

\* dynamicAllocatedArray: a length, and a CLR unless it is zero.
marshalDalc(bytes) ==
  marshalNumeric("UB4", Len(bytes)) \o (IF bytes = <<>> THEN <<>> ELSE marshalCLR(bytes))

\* A CLR announced by a length that has been read and must not exceed limit.
announcedCLR(length, limit) ==
  IF ~length.ok THEN NotRead
  ELSE IF length.val \notin 0..limit THEN NotRead
  ELSE IF length.val = 0 THEN Got(<<>>, length.rest)
  ELSE unmarshalCLR(length.rest, length.val)
\* One that follows what read has read, and an integer that does.
AndCLR(read, t, limit) ==
  IF read.ok THEN Appended(read.val, announcedCLR(unmarshalNumeric(t, read.rest), limit)) ELSE NotRead
AndNumeric(read, t) ==
  IF read.ok THEN Appended(read.val, unmarshalNumeric(t, read.rest)) ELSE NotRead

unmarshalDalc(w) == announcedCLR(unmarshalNumeric("UB4", w), DalcLimit)

\* A pair of a keywordValueArray: text value, binary value and keyword.
marshalKeyword(pair) ==
  marshalDalc(pair.text) \o marshalDalc(pair.binary) \o marshalNumeric("UB2", pair.keyword)

keywordOf(read) ==
  IF read.ok
  THEN Got([text |-> read.val[1], binary |-> read.val[2], keyword |-> read.val[3]], read.rest)
  ELSE NotRead
unmarshalKeyword(w) ==
  keywordOf(AndNumeric(AndCLR(AndCLR(Got(<<>>, w), "UB4", DalcLimit), "UB4", DalcLimit), "UB2"))

\* A pair of a keyValueList; the lengths are written as UB4 and read as SB4.
marshalKeyValue(kv) ==
  marshalDalc(kv.key) \o marshalDalc(kv.value) \o marshalNumeric("SB4", kv.flag)

keyValueOf(read) ==
  IF read.ok THEN Got([key |-> read.val[1], value |-> read.val[2], flag |-> read.val[3]], read.rest)
  ELSE NotRead
unmarshalKeyValue(w) ==
  keyValueOf(AndNumeric(AndCLR(AndCLR(Got(<<>>, w), "SB4", KeyLimit), "SB4", ValueLimit), "SB4"))

----------------------------------------------------------------------------
(* The two ends of the wire.                                               *)

\* A field is a record of its kind and its value.  The server writes SB1, SB2
\* and ServerCLR, with the encoding of the driver's writers, and reads PTR.
marshalField(f) ==
  CASE f.kind \in DOMAIN Width -> marshalNumeric(f.kind, f.val)
    [] f.kind = "SB1" -> marshalNumeric("SB2", f.val)
    [] f.kind = "SeqNo" -> marshalNumeric("UB1", f.val)
    [] f.kind = "CLR" -> marshalCLR(f.val)
    [] f.kind = "ServerCLR" -> longCLR(f.val, f.size)
    [] f.kind = "Dalc" -> marshalDalc(f.val)
    [] f.kind = "Keyword" -> marshalKeyword(f.val)
    [] f.kind = "KeyValue" -> marshalKeyValue(f.val)
    [] f.kind = "PTR" -> IF rep["PTR"] = "Universal" THEN <<f.val>>
                         ELSE [i \in 1..4 |-> f.val * (Negative - 1)]

\* MarshalPTR and MarshalNullPTR are only read by the server.
pointerOf(read) ==
  IF read.ok THEN Got(IF Head(read.val) = 0 THEN 0 ELSE 1, read.rest) ELSE NotRead
serverPTR(w) == pointerOf(ReadBytes(w, IF rep["PTR"] = "Universal" THEN 1 ELSE 4))

unmarshalField(kind, w) ==
  CASE kind \in DOMAIN Width -> unmarshalNumeric(kind, w)
    [] kind = "SB1" -> unmarshalSB1(w)
    [] kind = "SeqNo" -> unmarshalNumeric("UB1", w)
    [] kind \in {"CLR", "ServerCLR"} -> unmarshalCLRColumnData(w)
    [] kind = "Dalc" -> unmarshalDalc(w)
    [] kind = "Keyword" -> unmarshalKeyword(w)
    [] kind = "KeyValue" -> unmarshalKeyValue(w)
    [] kind = "PTR" -> serverPTR(w)

\* NewMarshalEngine and NewNativeMarshalEngine, for both ends.
EngineInit ==
  /\ \E e \in Engines : rep = e.rep /\ order = e.order
  /\ sequenceNumber = 1
  /\ wire = <<>> /\ pending = <<>> /\ last = NoRead /\ broken = FALSE

Marshal(f) ==
  /\ ~broken /\ Len(pending) < MaxPending
  /\ wire' = wire \o marshalField(f)
  /\ pending' = Append(pending, f)
  /\ last' = NoRead
  /\ UNCHANGED <<rep, order, broken>>

MarshalField(f) == Marshal(f) /\ UNCHANGED sequenceNumber

\* The counter is an int8: the increment of SeqMax wraps to its minimum.
increment(n) == IF n = SeqMax THEN -SeqMax - 1 ELSE n + 1

marshalSeqNo ==
  LET n == IF sequenceNumber <= 0 THEN 1 ELSE sequenceNumber
  IN /\ Marshal([kind |-> "SeqNo", val |-> n])
     /\ sequenceNumber' = increment(n)

\* The outcome of a read of field f.  A failed read abandons the stream.
Outcome(f, how, r) ==
  /\ last' = [how |-> how, field |-> f,
              result |-> IF r.ok THEN [ok |-> TRUE, val |-> r.val] ELSE NotRead]
  /\ IF r.ok THEN /\ wire' = r.rest /\ pending' = Tail(pending) /\ broken' = FALSE
             ELSE broken' = TRUE /\ UNCHANGED <<wire, pending>>
  /\ UNCHANGED <<rep, order, sequenceNumber>>

UnmarshalField ==
  /\ ~broken /\ pending # <<>>
  /\ Outcome(Head(pending), "field", unmarshalField(Head(pending).kind, wire))

\* UnmarshalCLR into a buffer of maxSize bytes, as TTIOER and TTILOBD do.
UnmarshalIntoBuffer(maxSize) ==
  /\ ~broken /\ pending # <<>> /\ Head(pending).kind \in {"CLR", "ServerCLR"}
  /\ Outcome([Head(pending) EXCEPT !.kind = "CLR"] @@ [max |-> maxSize],
             "buffer", unmarshalCLR(wire, maxSize))

\* An integer of type t is read from bytes no engine of ours has written.
UnmarshalRaw(t, bytes) ==
  /\ ~broken /\ pending = <<>> /\ RepOf(t) = "Universal"
  /\ \E r \in {unmarshalNumeric(t, bytes)} :
       /\ last' = [how |-> "raw", field |-> [kind |-> t, val |-> bytes],
                   result |-> IF r.ok THEN [ok |-> TRUE, val |-> r.val] ELSE NotRead]
       /\ broken' = ~r.ok
  /\ UNCHANGED <<rep, order, sequenceNumber, wire, pending>>

----------------------------------------------------------------------------
(* Properties.                                                             *)

\* What unmarshalField must return: the readers refuse long CLRs and announced
\* lengths beyond their limits and nothing else.
WithinLimits(f) ==
  CASE f.kind = "CLR" -> Len(f.val) <= ShortMax \/ Len(f.val) <= maxAllowedCLRLength
    [] f.kind = "ServerCLR" ->
         Len(f.val) <= maxAllowedCLRLength /\ Min({f.size, Len(f.val)}) <= ChunkLimit
    [] f.kind = "Dalc" -> Len(f.val) <= DalcLimit
    [] f.kind = "Keyword" -> Len(f.val.text) <= DalcLimit /\ Len(f.val.binary) <= DalcLimit
    [] f.kind = "KeyValue" -> Len(f.val.key) <= KeyLimit /\ Len(f.val.value) <= ValueLimit
    [] OTHER -> TRUE

\* The number a universal encoding stands for, by its description in the
\* comment of _decodeUniversal and without any arithmetic on a fixed width.
UniversalValue(bytes) ==
  LET n == Head(bytes) % Negative
      magnitude == FromBigEndian(SubSeq(bytes, 2, n + 1))
  IN IF Head(bytes) >= Negative THEN -magnitude ELSE magnitude

\* The bytes are a number of the type t: none, or one to nbBytes value bytes
\* whose number fits.
IsUniversal(t, bytes) ==
  LET n == Head(bytes) % Negative
  IN  \/ Head(bytes) = 0
      \/ /\ n \in 1..Width[t] /\ Len(bytes) > n
         /\ (Head(bytes) >= Negative => t \notin Unsigned)
         /\ UniversalValue(bytes) \in MinValue(t)..MaxValue(t)

\* A field is read back as it was written, whatever was written before and
\* after it, in every representation and byte order; one that exceeds the
\* limits of UnmarshalCLRColumnData, dynamicAllocatedArray or keyValueList is
\* an error (marshal_engine.go, ttcTypes.go).  UnmarshalCLR into a buffer yields
\* the value, cut to the buffer in the long form; the short form is refused when
\* it does not fit (_unmarshalBuffer).  Of any other bytes _decodeUniversal
\* accepts exactly those of a number that fits its type, and returns that number:
\* the conversions that wrap are always noticed (marshal_engine.go:1178).  When
\* every field has been read the wire is empty: no reader stops short of the end
\* of a field or goes beyond it, also when it drops the end of a CLR.
FieldsReadBack ==
  /\ pending = <<>> /\ ~broken => wire = <<>>
  /\ last.how = "field" =>
       IF WithinLimits(last.field)
       THEN last.result.ok /\ last.result.val = last.field.val
       ELSE ~last.result.ok
  /\ last.how = "buffer" =>
       LET size == Len(last.field.val)
           short == "size" \notin DOMAIN last.field /\ size <= ShortMax
       IN IF short /\ size > last.field.max
          THEN ~last.result.ok
          ELSE /\ last.result.ok
               /\ last.result.val = SubSeq(last.field.val, 1, Min({size, last.field.max}))
  /\ last.how = "raw" =>
       LET legal == IsUniversal(last.field.kind, last.field.val)
       IN  /\ last.result.ok = legal
           /\ legal => last.result.val = UniversalValue(last.field.val)
=============================================================================
