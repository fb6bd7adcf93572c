----------------------------- MODULE LobAccess -----------------------------
(***************************************************************************)
(* Access to a character LOB through its locator: the executors of         *)
(* internal/driver/ttc (lob_executor.go, clob_executor.go) and their       *)
(* messages (ttilob.go, ttilob_defs.go, ttilob_rpa.go, ttilobd.go).  An    *)
(* operation is answered from the locator, or registers its callbacks with *)
(* the streamer, pushes and flushes a request and pulls the replies of the *)
(* server.  Every step of the exchange can fail.  The server is external:  *)
(* it answers the fields whose pointers the request carries, and may       *)
(* refuse any request.  A locator is the record of the flags the driver    *)
(* reads from its bytes, with the number of these bytes.                   *)
(***************************************************************************)
EXTENDS LobText, FiniteSetsExt

CONSTANTS
  Contents,      \* what the LOB holds when the session starts, in code units
  Locators,      \* the locators a session can hold when it starts
  NCharSets,     \* the national character sets of databases
  Texts,         \* the texts an application writes
  Counts,        \* the numbers of characters it asks for
  TempLengths,   \* the lengths of the locators the server creates
  MaxUnits,      \* bound: the longest LOB, in code units
  MaxCalls       \* bound: the operations of a behaviour

VARIABLES
  loc,        \* *locator, the flags in its bytes
  ncharCS,    \* lobAmtPolicy.ncharCS
  lob,        \* server: the code units and open mode of the LOB that loc names
  pc,         \* where the call is: "idle", "push", "flush", "pull"
  def,        \* the lobDefinition of the call, and its buffers
  callbacks,  \* the unmarshal callbacks registered with the streamer
  lastBytesTransferred,
  replies,    \* the server's messages not pulled yet
  result,     \* what the last call returned
  usable,     \* the connection has not failed
  calls       \* the operations begun

lobVars == <<loc, ncharCS, lob, pc, def, callbacks, lastBytesTransferred, replies, result, usable, calls>>

driverCS == "AL32UTF8"
kolllTempWithSignature == 108
koll1FlagOffset == 4
koll3FlagOffset == 6
koll4FlagOffset == 7
kolbVersionOffset == 2
kolbLocatorLengthHeaderBytes == 2

----------------------------------------------------------------------------
(* The flags of a locator; a locator too short for a flag does not have it.*)

isTemporaryLocator(l) == l.length > koll4FlagOffset /\ l.temporary
isValueBasedLocator(l) == l.length > koll1FlagOffset /\ l.valueBased
isReadOnlyLocator(l) == l.length > koll3FlagOffset /\ l.readOnly
isAbstractLocator(l) == l.length > koll1FlagOffset /\ l.abstract
isOpenLocator(l) == l.length > koll4FlagOffset /\ l.open
isQuasiLocator(l) == l.length > kolbVersionOffset + 1 /\ l.quasi
isLobCharsetVariableWidth(l) == l.length > koll3FlagOffset /\ l.varying
isLobCharsetLittleEndian(l) == l.length > koll4FlagOffset /\ l.littleEndian

\* The locators whose open state is kept in their own bytes.
isLocal(l) == isTemporaryLocator(l) \/ isAbstractLocator(l)

\* setOpenState and setAccessMode.
Opened(l, mode) ==
  IF l.length <= koll4FlagOffset THEN l
  ELSE [l EXCEPT !.open = TRUE, !.readWrite = @ \/ mode = "ReadWrite"]

\* Mutant: the access mode stays behind.
MutClearOpenOnly(l) ==
  IF l.length <= koll4FlagOffset THEN l ELSE [l EXCEPT !.open = FALSE]

clearAccessState(l) ==
  IF l.length <= koll4FlagOffset THEN l ELSE [l EXCEPT !.open = FALSE, !.readWrite = FALSE]

\* The open state that the bytes of a locator stand for.
LocalMode(l) ==
  CASE isOpenLocator(l) -> IF l.readWrite THEN "ReadWrite" ELSE "ReadOnly"
    [] OTHER -> IF l.readWrite THEN "leftReadWrite" ELSE "closed"

LocatorFlags ==
  [length : Nat, temporary : BOOLEAN, valueBased : BOOLEAN, readOnly : BOOLEAN,
   abstract : BOOLEAN, quasi : BOOLEAN, varying : BOOLEAN, littleEndian : BOOLEAN,
   open : BOOLEAN, readWrite : BOOLEAN, nclob : BOOLEAN]

\* A locator that an execution or a fetch brought has not been opened yet.
ASSUME LocatorsAssumption ==
  /\ Locators \subseteq LocatorFlags /\ TempLengths \subseteq Nat
  /\ \A l \in Locators : isLocal(l) => LocalMode(l) = "closed"

----------------------------------------------------------------------------
(* Conversions between characters and payloads.                            *)

Min2(a, b) == IF a < b THEN a ELSE b
Take(s, n) == SubSeq(s, 1, Min2(n, Len(s)))

\* The forms of the elements of s, one after the other.
ConcatMap(Of(_), s) == MapThenFoldSet(LAMBDA x, y : x \o y, <<>>, LAMBDA i : Of(s[i]), Min, DOMAIN s)

Utf16Encode(runes) == ConcatMap(UnitsOf, runes)

Utf16Decode(units) ==
  LET from[i \in 1..(Len(units) + 2)] ==
        IF i > Len(units) THEN <<>>
        ELSE IF i < Len(units) /\ IsPair(units[i], units[i + 1])
             THEN <<RuneOfPair(units[i], units[i + 1])>> \o from[i + 2]
             ELSE <<RuneOfUnit(units[i])>> \o from[i + 1]
  IN from[1]

\* The UTF-8 form of a rune, and of a text.
Utf8Of(r) ==
  CASE Utf8Length(r) = 1 -> <<r>>
    [] Utf8Length(r) = 2 -> <<192 + (r \div 64), 128 + (r % 64)>>
    [] Utf8Length(r) = 3 -> <<224 + (r \div 4096), 128 + ((r \div 64) % 64), 128 + (r % 64)>>
    [] OTHER -> <<240 + (r \div 262144), 128 + ((r \div 4096) % 64),
                  128 + ((r \div 64) % 64), 128 + (r % 64)>>
Utf8Encode(runes) == ConcatMap(Utf8Of, runes)

\* []rune(string(bytes)): a byte that starts no rune is one replacement.
Utf8Decode(bytes) ==
  LET n == Len(bytes)
      Size(b) == IF b < 128 THEN 1 ELSE IF b \in 194..223 THEN 2
                 ELSE IF b \in 224..239 THEN 3 ELSE IF b \in 240..244 THEN 4 ELSE 0
      Rune(i, k) ==
        CASE k = 1 -> bytes[i]
          [] k = 2 -> (bytes[i] - 192) * 64 + (bytes[i + 1] - 128)
          [] k = 3 -> (bytes[i] - 224) * 4096 + (bytes[i + 1] - 128) * 64 + (bytes[i + 2] - 128)
          [] OTHER -> (bytes[i] - 240) * 262144 + (bytes[i + 1] - 128) * 4096
                        + (bytes[i + 2] - 128) * 64 + (bytes[i + 3] - 128)
      Valid(i, k) ==
        /\ k > 0 /\ i + k - 1 <= n
        /\ \A j \in (i + 1)..(i + k - 1) : bytes[j] \in 128..191
        /\ Rune(i, k) \in 0..MaxRune /\ ~IsSurrogate(Rune(i, k)) /\ Utf8Length(Rune(i, k)) = k
      from[i \in 1..(n + 1)] ==
        IF i = n + 1 THEN <<>>
        ELSE LET k == Size(bytes[i])
             IN IF Valid(i, k) THEN <<Rune(i, k)>> \o from[i + k]
                ELSE <<Replacement>> \o from[i + 1]
  IN from[1]

writeUTF16ToBuffer(units, size, littleEndian) ==
  IF Len(units) * bytesPerUTF16CodeUnit > size THEN [ok |-> FALSE]
  ELSE [ok |-> TRUE,
        bytes |-> ConcatMap(LAMBDA u : BytesOfUnit(u, littleEndian), units)]

readUTF16CodeUnits(bytes, littleEndian) ==
  IF Len(bytes) % bytesPerUTF16CodeUnit # 0 THEN [ok |-> FALSE]
  ELSE [ok |-> TRUE,
        units |-> [i \in 1..(Len(bytes) \div 2) |->
                     UnitOfBytes(bytes[2 * i - 1], bytes[2 * i], littleEndian)]]

lobCharSet(nclob) == IF nclob THEN ncharCS ELSE driverCS

\* encodeFixedWidthCharSet reports the amount in the unit of the character set.
encodeFixedWidthCharSet(runes, size, nclob, littleEndian) ==
  LET unit == resolveLobAmtUnit(lobCharSet(nclob))
      units == Utf16Encode(runes)
      written == writeUTF16ToBuffer(units, size, littleEndian)
  IN IF unit = "none" \/ ~written.ok THEN [ok |-> FALSE]
     ELSE [ok |-> TRUE, bytes |-> written.bytes,
           codeUnits |-> IF unit = "codePoint" THEN Len(runes) ELSE Len(units),
           codePoints |-> Len(runes)]

encodeVariableWidthCharSet(runes, size, littleEndian) ==
  LET units == Utf16Encode(runes)
      written == writeUTF16ToBuffer(units, size, littleEndian)
  IN IF ~written.ok THEN [ok |-> FALSE]
     ELSE [ok |-> TRUE, bytes |-> written.bytes, codeUnits |-> Len(units), codePoints |-> Len(runes)]

encodeLobCharPayload(source, numChars, size, l) ==
  LET runes == Take(source, numChars)
  IN IF runes = <<>> THEN [ok |-> TRUE, bytes |-> <<>>, codeUnits |-> 0, codePoints |-> 0]
     ELSE IF isLobCharsetVariableWidth(l)
          THEN encodeVariableWidthCharSet(runes, size, isLobCharsetLittleEndian(l))
          ELSE encodeFixedWidthCharSet(runes, size, l.nclob, isLobCharsetLittleEndian(l))

decodeVariableWidthCharSet(bytes, capacity, littleEndian) ==
  LET read == readUTF16CodeUnits(bytes, littleEndian)
      runes == Utf16Decode(read.units)
  IN IF ~read.ok \/ Len(runes) > capacity THEN [ok |-> FALSE] ELSE [ok |-> TRUE, runes |-> runes]

decodeFixedWidthCharSet(bytes, capacity, nclob, littleEndian) ==
  IF nclob THEN decodeVariableWidthCharSet(bytes, capacity, littleEndian)
  ELSE LET runes == Utf8Decode(bytes)
       IN IF Len(runes) > capacity THEN [ok |-> FALSE] ELSE [ok |-> TRUE, runes |-> runes]

decodeLobCharPayload(bytes, capacity, l) ==
  IF isLobCharsetVariableWidth(l)
  THEN decodeVariableWidthCharSet(bytes, capacity, isLobCharsetLittleEndian(l))
  ELSE decodeFixedWidthCharSet(bytes, capacity, l.nclob, isLobCharsetLittleEndian(l))

\* lobAmtPolicy.Translate: the amount of a write, or the error of its character set.
Translate(nclob, codeUnits, codePoints) ==
  CASE resolveLobAmtUnit(lobCharSet(nclob)) = "codePoint" -> [ok |-> TRUE, amt |-> codePoints]
    [] resolveLobAmtUnit(lobCharSet(nclob)) = "codeUnit"  -> [ok |-> TRUE, amt |-> codeUnits]
    [] OTHER -> [ok |-> FALSE]

----------------------------------------------------------------------------
(* Definitions, the request TTILob.MarshalTo writes and the reply the      *)
(* server gives to it.                                                     *)

\* A lobDefinition; text, numChars and before describe the call for the properties.
Definition(op, offset, amt, sendLobAmt, nullO2U) ==
  [operation |-> op, offset |-> offset, lobAmt |-> amt, sendLobAmt |-> sendLobAmt,
   nullO2U |-> nullO2U, lobNull |-> FALSE, charsetID |-> "none", sourceLength |-> loc.length,
   payload |-> <<>>, room |-> 0, capacity |-> 0, buffer |-> <<>>,
   text |-> <<>>, numChars |-> 0, before |-> lob.units]

NoCall == Definition("none", 0, 0, FALSE, FALSE)

\* NewLobDefinitionForTemporaryCreate.
TemporaryCreate(nclob) ==
  [Definition("tmpCreate", IF nclob THEN 2 ELSE 1, 0, TRUE, TRUE) EXCEPT
     !.charsetID = lobCharSet(nclob), !.sourceLength = kolllTempWithSignature]

\* The pointers of the request which are not null.  Locators always have bytes.
Pointers(d) ==
  {"source"} \cup (IF d.charsetID # "none" THEN {"charset"} ELSE {})
             \cup (IF d.nullO2U THEN {"null"} ELSE {})
             \cup (IF d.sendLobAmt THEN {"amount"} ELSE {})

MarshalTo(d) ==
  [operation |-> d.operation, pointers |-> Pointers(d), sourceLength |-> d.sourceLength,
   offset |-> d.offset, amount |-> d.lobAmt, charset |-> d.charsetID, payload |-> d.payload]

Field(name, size, val) == [name |-> name, size |-> size, val |-> val]

\* The server writes back what the request points at.
ReplyFields(req, locator, amount, null) ==
  LET size == IF locator.length > req.sourceLength THEN locator.length ELSE req.sourceLength
      If(p, f) == IF p \in req.pointers THEN <<f>> ELSE <<>>
  IN <<Field("locator", size, locator)>>
       \o If("charset", Field("charset", 2, req.charset))
       \o If("amount", Field("amount", 8, amount))
       \o If("null", Field("null", 4, null))

\* Mutant: the bytes after a temporary locator shorter than its buffer stay in the stream.
MutNoDiscard(d, fields) ==
  <<[name |-> "locator", size |-> fields[1].val.length]>>
    \o (IF d.charsetID # "none" THEN <<[name |-> "charset", size |-> 2]>> ELSE <<>>)
    \o (IF d.sendLobAmt THEN <<[name |-> "amount", size |-> 8]>> ELSE <<>>)
    \o (IF d.nullO2U THEN <<[name |-> "null", size |-> 4]>> ELSE <<>>)

\* ttiLobRpa.UnmarshalFrom: the fields it reads, in order.
ExpectedFields(d, fields) ==
  LET expectedLen == fields[1].val.length
      extraUnused == IF d.sourceLength > expectedLen THEN d.sourceLength - expectedLen ELSE 0
      size == IF d.operation = "tmpCreate" THEN expectedLen + extraUnused ELSE d.sourceLength
  IN <<[name |-> "locator", size |-> size]>>
       \o (IF d.charsetID # "none" THEN <<[name |-> "charset", size |-> 2]>> ELSE <<>>)
       \o (IF d.sendLobAmt THEN <<[name |-> "amount", size |-> 8]>> ELSE <<>>)
       \o (IF d.nullO2U THEN <<[name |-> "null", size |-> 4]>> ELSE <<>>)

InStep(d, fields) ==
  [i \in 1..Len(fields) |-> [name |-> fields[i].name, size |-> fields[i].size]]
    = ExpectedFields(d, fields)

ValueOf(fields, name, default) ==
  LET at == {i \in DOMAIN fields : fields[i].name = name}
  IN IF at = {} THEN default ELSE fields[Min(at)].val

\* What the reply leaves in the definition.
Answered(d, fields) ==
  [d EXCEPT !.charsetID = ValueOf(fields, "charset", @),
            !.lobAmt = ValueOf(fields, "amount", @),
            !.lobNull = ValueOf(fields, "null", @)]

----------------------------------------------------------------------------
(* The server.                                                             *)

Overwrite(units, offset, new) ==
  SubSeq(units, 1, offset - 1) \o new \o SubSeq(units, offset + Len(new), Len(units))

\* A fixed-width CLOB travels in the client's character set, others in UTF-16.
ServerText(bytes) ==
  IF isLobCharsetVariableWidth(loc) \/ loc.nclob
  THEN readUTF16CodeUnits(bytes, isLobCharsetLittleEndian(loc)).units
  ELSE Utf16Encode(Utf8Decode(bytes))
ServerBytes(units) ==
  IF isLobCharsetVariableWidth(loc) \/ loc.nclob
  THEN ConcatMap(LAMBDA u : BytesOfUnit(u, isLobCharsetLittleEndian(loc)), units)
  ELSE Utf8Encode(Utf16Decode(units))

\* The server stores as much of the payload as the amount says, in its unit.
Stored(req) ==
  LET units == ServerText(req.payload)
  IN CASE resolveLobAmtUnit(lobCharSet(loc.nclob)) = "codeUnit" -> Take(units, req.amount)
       [] OTHER -> Utf16Encode(Take(Utf16Decode(units), req.amount))

\* The locator of a temporary LOB of the session, as the server creates it.
TemporaryLocator(nclob, length) ==
  [length |-> length, temporary |-> TRUE, valueBased |-> FALSE, readOnly |-> FALSE,
   abstract |-> FALSE, quasi |-> FALSE, varying |-> ~nclob, littleEndian |-> FALSE,
   open |-> FALSE, readWrite |-> FALSE, nclob |-> nclob]

RPA(req, amount, null) ==
  [type |-> "RPA", fields |-> ReplyFields(req, loc, amount, null)]
End(error) == [type |-> "OER", error |-> error]

\* The size the server gives for a page of a LOB.
PageSize == 8132

\* The outcomes of a request: the LOB afterwards and the replies.
ServerOutcomes(req) ==
  LET Done(l, msgs) == {[lob |-> l, replies |-> msgs \o <<e>>] : e \in {End(FALSE), [type |-> "STA"]}}
      Refused == [lob |-> lob, replies |-> <<End(TRUE)>>]
      part == SubSeq(lob.units, req.offset, Min2(req.offset + req.amount - 1, Len(lob.units)))
      data == IF part = <<>> THEN <<>> ELSE <<[type |-> "LOBD", bytes |-> ServerBytes(part)]>>
      stored == Stored(req)
  IN {Refused} \cup
     CASE req.operation = "read" ->
            Done(lob, data \o <<RPA(req, Len(part), FALSE)>>)
       [] req.operation = "write" ->
            Done([lob EXCEPT !.units = Overwrite(@, req.offset, stored)], <<RPA(req, req.amount, FALSE)>>)
       [] req.operation = "trim" /\ req.amount <= Len(lob.units) ->
            Done([lob EXCEPT !.units = Take(@, req.amount)], <<RPA(req, req.amount, FALSE)>>)
       [] req.operation = "getLength" -> Done(lob, <<RPA(req, Len(lob.units), FALSE)>>)
       [] req.operation = "pageSize" -> Done(lob, <<RPA(req, PageSize, FALSE)>>)
       [] req.operation = "open" /\ lob.mode = "closed" ->
            Done([lob EXCEPT !.mode = IF req.amount = 2 THEN "ReadWrite" ELSE "ReadOnly"],
                 <<RPA(req, req.amount, FALSE)>>)
       [] req.operation = "close" /\ lob.mode # "closed" ->
            Done([lob EXCEPT !.mode = "closed"], <<RPA(req, 0, FALSE)>>)
       [] req.operation = "isOpen" -> Done(lob, <<RPA(req, 0, lob.mode # "closed")>>)
       [] req.operation = "tmpCreate" ->
            UNION {Done(lob, <<[type |-> "RPA",
                                fields |-> ReplyFields(req, TemporaryLocator(req.offset = 2, n), 0, FALSE)]>>)
                     : n \in TempLengths}
       [] OTHER -> {}

----------------------------------------------------------------------------
(* The operations.  An operation that fails or answers without a request   *)
(* returns at once.                                                        *)

Ok(op, val) == [op |-> op, ok |-> TRUE, val |-> val]
Failed(op) == [op |-> op, ok |-> FALSE, val |-> 0]

Answer(op, r) ==
  /\ result' = r
  /\ def' = [NoCall EXCEPT !.operation = op]
  /\ UNCHANGED <<ncharCS, lob, pc, callbacks, lastBytesTransferred, replies, usable>>

\* The callbacks of a call are registered before its request is pushed.
Begin(d, cbs) ==
  /\ def' = d
  /\ callbacks' = cbs
  /\ pc' = "push"
  /\ UNCHANGED <<loc, ncharCS, lob, replies, result, usable>>

execute(d) == Begin(d, {"RPA"}) /\ UNCHANGED lastBytesTransferred
executeWrite(d) == Begin(d, {"RPA"}) /\ UNCHANGED lastBytesTransferred
executeRead(d) == Begin(d, {"LOBD", "RPA"})

Idle == pc = "idle" /\ usable /\ calls < MaxCalls /\ calls' = calls + 1

\* lobExecutor.open.
lobOpen(mode) ==
  IF isQuasiLocator(loc) THEN Answer("open", Ok("open", FALSE)) /\ UNCHANGED loc
  ELSE IF isLocal(loc)
  THEN IF isOpenLocator(loc) THEN Answer("open", Failed("open")) /\ UNCHANGED loc
       ELSE loc' = Opened(loc, mode) /\ Answer("open", Ok("open", TRUE))
  ELSE execute(Definition("open", 0, IF mode = "ReadWrite" THEN 2 ELSE 1, TRUE, FALSE))

open(mode) ==
  /\ Idle
  /\ IF mode = "BfileReadOnly" THEN Answer("open", Failed("open")) /\ UNCHANGED loc
     ELSE lobOpen(mode)

close ==
  /\ Idle
  /\ IF isQuasiLocator(loc) THEN Answer("close", Ok("close", TRUE)) /\ UNCHANGED loc
     ELSE IF isLocal(loc)
     THEN IF ~isOpenLocator(loc) THEN Answer("close", Failed("close")) /\ UNCHANGED loc
          ELSE loc' = clearAccessState(loc) /\ Answer("close", Ok("close", TRUE))
     ELSE execute(Definition("close", 0, 0, FALSE, FALSE))

isOpen ==
  /\ Idle
  /\ IF isQuasiLocator(loc) THEN Answer("isOpen", Ok("isOpen", FALSE)) /\ UNCHANGED loc
     ELSE IF isLocal(loc) THEN Answer("isOpen", Ok("isOpen", isOpenLocator(loc))) /\ UNCHANGED loc
     ELSE execute(Definition("isOpen", 0, 0, FALSE, TRUE))

getLength ==
  Idle /\ execute(Definition("getLength", 0, 0, TRUE, FALSE))
getChunkSize ==
  Idle /\ execute(Definition("pageSize", 0, 0, TRUE, FALSE))

validateLobOperation == ~isValueBasedLocator(loc) /\ ~isReadOnlyLocator(loc)

trim(newLength) ==
  /\ Idle
  /\ IF ~validateLobOperation THEN Answer("trim", Failed("trim")) /\ UNCHANGED loc
     ELSE execute(Definition("trim", 0, newLength, TRUE, FALSE))

createTemporaryLob(nclob) ==
  Idle /\ execute(TemporaryCreate(nclob))

write(text, numChars, offset) ==
  LET size == getByteBufferSizeForConversion(isLobCharsetVariableWidth(loc), numChars)
      encoded == encodeLobCharPayload(text, numChars, size, loc)
      amount == Translate(loc.nclob, encoded.codeUnits, encoded.codePoints)
  IN /\ Idle
     /\ IF ~validateLobOperation \/ ~encoded.ok THEN Answer("write", Failed("write")) /\ UNCHANGED loc
        ELSE IF ~amount.ok THEN Answer("write", Failed("write")) /\ UNCHANGED loc
        ELSE executeWrite([Definition("write", offset, amount.amt, TRUE, FALSE) EXCEPT
                             !.payload = encoded.bytes, !.text = text, !.numChars = numChars])

\* Mutant: a read keeps the count of the one before, as far as its buffer goes.
MutKeepCount(d) == executeRead(d) /\ lastBytesTransferred' = Min({lastBytesTransferred, d.room})

\* lobExecutor.read.
lobRead(d) == executeRead(d) /\ lastBytesTransferred' = 0

read(numChars, offset, capacity) ==
  /\ Idle
  /\ lobRead([Definition("read", offset, numChars, TRUE, FALSE) EXCEPT
                !.room = getByteBufferSizeForConversion(isLobCharsetVariableWidth(loc), numChars),
                !.capacity = capacity, !.numChars = numChars])

----------------------------------------------------------------------------
(* The exchange with the server.                                           *)

Push ==
  /\ pc = "push" /\ pc' = "flush"
  /\ UNCHANGED <<loc, ncharCS, lob, def, callbacks, lastBytesTransferred, replies, result, usable, calls>>

Flush ==
  /\ pc = "flush" /\ pc' = "pull"
  /\ \E o \in ServerOutcomes(MarshalTo(def)) : lob' = o.lob /\ replies' = o.replies
  /\ UNCHANGED <<loc, ncharCS, def, callbacks, lastBytesTransferred, result, usable, calls>>

\* The deferred calls unregister what was registered.
Return(r) ==
  /\ pc' = "idle" /\ callbacks' = {}
  /\ result' = r

\* Push, Flush or Pull reports an error of the connection.
Fail ==
  /\ pc # "idle"
  /\ Return(Failed(def.operation))
  /\ usable' = FALSE
  /\ UNCHANGED <<loc, ncharCS, lob, def, lastBytesTransferred, replies, calls>>

\* tTIlobd.UnmarshalFrom: the bytes that fit the buffer.
ReadInto(room, bytes) == Take(bytes, room)

\* TTILOBD: its callbacks give it the buffer of the call, and take the count.
PullLOBD ==
  /\ pc = "pull" /\ replies # <<>> /\ Head(replies).type = "LOBD" /\ "LOBD" \in callbacks
  /\ def' = [def EXCEPT !.buffer = ReadInto(def.room, Head(replies).bytes)]
  /\ lastBytesTransferred' = Len(ReadInto(def.room, Head(replies).bytes))
  /\ replies' = Tail(replies)
  /\ UNCHANGED <<loc, ncharCS, lob, pc, callbacks, result, usable, calls>>

\* TTIRPA: its callback gives it the definition of the call.
PullRPA ==
  /\ pc = "pull" /\ replies # <<>> /\ Head(replies).type = "RPA" /\ "RPA" \in callbacks
  /\ LET fields == Head(replies).fields
     IN IF InStep(def, fields)
        THEN /\ def' = Answered(def, fields)
             /\ replies' = Tail(replies)
             /\ IF def.operation = "tmpCreate"
                THEN loc' = fields[1].val /\ lob' = [units |-> <<>>, mode |-> "closed"]
                ELSE loc' = fields[1].val /\ UNCHANGED lob
             /\ UNCHANGED <<pc, callbacks, result, usable>>
        ELSE /\ Return(Failed(def.operation))
             /\ UNCHANGED <<loc, lob, def, replies, usable>>
  /\ UNCHANGED <<ncharCS, lastBytesTransferred, calls>>

\* What a completed operation returns.
Completed ==
  LET op == def.operation
      received == SubSeq(def.buffer \o [i \in 1..def.room |-> 0], 1, lastBytesTransferred)
      decoded == decodeLobCharPayload(received, def.capacity, loc)
  IN CASE op = "read" -> IF decoded.ok THEN Ok(op, decoded.runes) ELSE Failed(op)
       [] op = "open" -> Ok(op, def.lobAmt # 0)
       [] op = "isOpen" -> Ok(op, def.lobNull)
       [] op \in {"close", "tmpCreate"} -> Ok(op, TRUE)
       [] OTHER -> Ok(op, def.lobAmt)

\* TTIOER or TTISTA ends the call.
PullEnd ==
  /\ pc = "pull" /\ replies # <<>> /\ Head(replies).type \in {"OER", "STA"}
  /\ Return(IF Head(replies).type = "OER" /\ Head(replies).error
            THEN Failed(def.operation) ELSE Completed)
  /\ replies' = Tail(replies)
  /\ UNCHANGED <<loc, ncharCS, lob, def, lastBytesTransferred, usable, calls>>

LobInit ==
  /\ loc \in Locators /\ ncharCS \in NCharSets
  /\ lob \in [units : Contents, mode : {"closed"}]
  /\ pc = "idle" /\ callbacks = {} /\ lastBytesTransferred = 0 /\ replies = <<>>
  /\ result = Ok("none", 0) /\ usable = TRUE /\ calls = 0
  /\ def = NoCall

Operation ==
  \/ \E m \in {"ReadOnly", "ReadWrite", "BfileReadOnly"} : open(m)
  \/ close
  \/ isOpen
  \/ getLength
  \/ getChunkSize
  \/ \E n \in Counts : trim(n)
  \/ \E nclob \in BOOLEAN : createTemporaryLob(nclob)
  \/ \E t \in Texts, n \in Counts, at \in 1..(Len(lob.units) + 1) :
       at + 2 * Len(t) <= MaxUnits + 1 /\ write(t, n, at)
  \/ \E n \in Counts, at \in 1..(Len(lob.units) + 1) : read(n, at, n)

\* Every operation has been made, or the connection has failed.
Finished == pc = "idle" /\ (calls = MaxCalls \/ ~usable) /\ UNCHANGED lobVars

Exchange == Push \/ Flush \/ PullLOBD \/ PullRPA \/ PullEnd

LobNext == Operation \/ Exchange \/ Fail \/ Finished

LobSpec == LobInit /\ [][LobNext]_lobVars

----------------------------------------------------------------------------
(* Properties.                                                             *)

\* clobExecutor sends text in UTF-16 for variable-width locators and NCLOBs.
InUTF16 == isLobCharsetVariableWidth(loc) \/ loc.nclob

\* A read starts and ends between two characters.
WholeCharacters(from, upto) ==
  LET cuts(i) == i \in 2..Len(lob.units) /\ IsPair(lob.units[i - 1], lob.units[i])
  IN ~cuts(from) /\ ~cuts(upto + 1)

(* A write that reports success has stored exactly the characters asked    *)
(* for, in either byte order, and a read that reports success returns      *)
(* exactly the characters stored there, none lost to the size of the       *)
(* buffer or added by the count of an earlier read: clobExecutor.write     *)
(* encodes, counts in the unit of the character set and sends;             *)
(* clobExecutor.read receives into a buffer of a computed size, counts     *)
(* bytes and decodes.                                                      *)
TextIntact ==
  pc = "idle" /\ result.ok =>
    /\ result.op = "write" /\ InUTF16 =>
         lob.units = Overwrite(def.before, def.offset, Utf16Encode(Take(def.text, def.numChars)))
    /\ result.op = "read" =>
         LET upto == Min2(def.offset + def.numChars - 1, Len(lob.units))
         IN WholeCharacters(def.offset, upto) =>
              result.val = Utf16Decode(SubSeq(lob.units, def.offset, upto))

(* A call that returns on a usable connection leaves nothing behind: no    *)
(* callback in the streamer and no message or field of its reply, which    *)
(* the next call would take for its own.  The reply is read by the         *)
(* definition the request was written from (ttiLobRpa.UnmarshalFrom).      *)
CallLeavesNothing ==
  pc = "idle" => callbacks = {} /\ (usable => replies = <<>>)

Told ==
  IF pc = "idle" /\ result.op = "isOpen" /\ result.ok
  THEN IF result.val THEN "yes" ELSE "no"
  ELSE "none"

Handle == INSTANCE LobHandle WITH
  mode <- IF isLocal(loc) THEN LocalMode(loc) ELSE lob.mode, told <- Told

(* lobExecutor.open, close and isOpen keep one open state, in the flags of *)
(* a temporary or abstract locator and on the server for the others: a LOB *)
(* opens only when closed, in the mode asked for, closes only when open,   *)
(* and isOpen tells which.                                                 *)
ImplementsHandle == Handle!Spec
============================================================================
