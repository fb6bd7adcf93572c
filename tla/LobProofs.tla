------------------------------ MODULE LobProofs ------------------------------
(***************************************************************************)
(* Access to LOBs, for all locators, texts and servers: a call reads its   *)
(* reply to the end, the open state of a LOB is one whether it is kept in  *)
(* the locator or on the server, and the conversions of its text hold for  *)
(* the whole of Unicode.                                                   *)
(***************************************************************************)
EXTENDS LobAccess, TLAPS

Operations ==
  {"none", "open", "close", "isOpen", "getLength", "pageSize", "trim", "tmpCreate", "write", "read"}

DefinitionFields ==
  {"operation", "offset", "lobAmt", "sendLobAmt", "nullO2U", "lobNull", "charsetID", "sourceLength",
   "payload", "room", "capacity", "buffer", "text", "numChars", "before"}

\* Where the open state of the LOB is kept, and what it is.
OpenMode == IF isLocal(loc) THEN LocalMode(loc) ELSE lob.mode

\* The locator, and the LOB it names on the server.  A quasi locator is never
\* opened, and one that keeps its own state forgets the mode when it is closed.
Located ==
  /\ loc \in LocatorFlags
  /\ DOMAIN lob = {"units", "mode"} /\ lob.mode \in {"closed", "ReadOnly", "ReadWrite"}
  /\ isLocal(loc) => LocalMode(loc) # "leftReadWrite"
  /\ isQuasiLocator(loc) => OpenMode = "closed"

\* The definition of the call.
Defined ==
  /\ DOMAIN def = DefinitionFields /\ def.operation \in Operations
  /\ def.sourceLength \in Nat

\* The reply holds nothing but the locator and whether the LOB is open.
AsksNull(d) == d.nullO2U /\ ~d.sendLobAmt /\ d.charsetID = "none"

\* What a request is sent for: it has the length of the locator it names, and
\* asks the server for the open state only where the server keeps it.
Asking(d) ==
  /\ d.operation # "none" /\ (d.operation = "isOpen" => AsksNull(d))
  /\ d.operation # "tmpCreate" => d.sourceLength = loc.length
  /\ d.operation \in {"open", "close", "isOpen"} => ~isLocal(loc) /\ ~isQuasiLocator(loc)
  /\ d.operation = "open" => d.lobAmt \in {1, 2}

\* The RPA that the definition of the call reads.
Matching(fields) ==
  /\ InStep(def, fields)
  /\ def.operation = "tmpCreate" =>
       \E nclob \in BOOLEAN, n \in TempLengths : fields[1].val = TemporaryLocator(nclob, n)
  /\ def.operation # "tmpCreate" => fields[1].val = loc
  /\ def.operation = "isOpen" => ValueOf(fields, "null", def.lobNull) = (lob.mode # "closed")

IsLOBD(m) == m.type = "LOBD"
IsRPA(m) == m.type = "RPA" /\ Matching(m.fields)
IsEnd(m) == m.type = "STA" \/ (m.type = "OER" /\ m.error \in BOOLEAN)
EndsWell(m) == m.type = "STA" \/ ~m.error

\* What is left of the reply to the request: all of it, or what follows the data,
\* or its end, which is an error if the RPA has not been read.
Unread ==
  \/ /\ Len(replies) = 3 /\ replies = <<replies[1], replies[2], replies[3]>>
     /\ IsLOBD(replies[1]) /\ IsRPA(replies[2]) /\ IsEnd(replies[3])
  \/ /\ Len(replies) = 2 /\ replies = <<replies[1], replies[2]>>
     /\ IsRPA(replies[1]) /\ IsEnd(replies[2])
  \/ /\ Len(replies) = 1 /\ replies = <<replies[1]>> /\ IsEnd(replies[1])
     /\ EndsWell(replies[1]) /\ def.operation = "isOpen" => def.lobNull = (lob.mode # "closed")

InCall ==
  /\ pc \in {"idle", "push", "flush", "pull"}
  /\ pc = "idle" => callbacks = {} /\ (usable => replies = <<>>)
  /\ pc \in {"push", "flush"} => Asking(def)
  /\ pc = "pull" => /\ def.operation \in {"open", "close", "isOpen"} => ~isLocal(loc) /\ ~isQuasiLocator(loc)
                    /\ Unread

LobInv == Located /\ Defined /\ InCall

-----------------------------------------------------------------------------
(* The reply to a request is read by the definition it was written from.   *)

\* The names and the sizes of fields.
Shape(s) == [i \in 1..Len(s) |-> [name |-> s[i].name, size |-> s[i].size]]
ShapeOf(f) == [name |-> f.name, size |-> f.size]

LEMMA Elements ==
  ASSUME NEW S, NEW s \in Seq(S)
  PROVE  Len(s) \in Nat /\ \A i \in 1..Len(s) : s[i] \in S
OBVIOUS

LEMMA Concatenated ==
  ASSUME NEW S, NEW s \in Seq(S), NEW t \in Seq(S)
  PROVE  /\ s \o t \in Seq(S) /\ Len(s \o t) = Len(s) + Len(t)
         /\ \A i \in 1..(Len(s) + Len(t)) : (s \o t)[i] = IF i <= Len(s) THEN s[i] ELSE t[i - Len(s)]
BY Elements

LEMMA SameSequence ==
  ASSUME NEW S, NEW s \in Seq(S), NEW t \in Seq(S), Len(s) = Len(t), \A i \in 1..Len(s) : s[i] = t[i]
  PROVE  s = t
BY Elements

LEMMA ShapeConcat ==
  ASSUME NEW S, NEW s \in Seq(S), NEW t \in Seq(S)
  PROVE  Shape(s \o t) = Shape(s) \o Shape(t)
<1> DEFINE T == {ShapeOf(f) : f \in S}
<1>1. /\ s \o t \in Seq(S) /\ Len(s \o t) = Len(s) + Len(t)
      /\ \A i \in 1..(Len(s) + Len(t)) : (s \o t)[i] = IF i <= Len(s) THEN s[i] ELSE t[i - Len(s)]
  BY Concatenated, Zenon
<1>2. ASSUME NEW u \in Seq(S)
      PROVE  /\ Len(u) \in Nat /\ Shape(u) \in Seq(T) /\ Len(Shape(u)) = Len(u)
             /\ \A i \in 1..Len(u) : Shape(u)[i] = ShapeOf(u[i])
  <2>1. Len(u) \in Nat /\ \A i \in 1..Len(u) : u[i] \in S
    BY Elements, Zenon
  <2>2. \A i \in 1..Len(u) : ShapeOf(u[i]) \in T
    BY <2>1, Zenon
  <2>3. Shape(u) = [i \in 1..Len(u) |-> ShapeOf(u[i])]
    BY Zenon DEF Shape, ShapeOf
  <2> HIDE DEF T
  <2>4. Shape(u) \in Seq(T)
    BY <2>1, <2>2, <2>3
  <2> QED  BY <2>1, <2>3, <2>4
<1> HIDE DEF T
<1> DEFINE a == Shape(s)
           b == Shape(t)
           c == Shape(s \o t)
<1>3. /\ Len(s) \in Nat /\ a \in Seq(T) /\ Len(a) = Len(s)
      /\ \A i \in 1..Len(s) : a[i] = ShapeOf(s[i])
  BY <1>2, Zenon
<1>4. /\ Len(t) \in Nat /\ b \in Seq(T) /\ Len(b) = Len(t)
      /\ \A i \in 1..Len(t) : b[i] = ShapeOf(t[i])
  BY <1>2, Zenon
<1>5. /\ c \in Seq(T) /\ Len(c) = Len(s) + Len(t)
      /\ \A i \in 1..(Len(s) + Len(t)) : c[i] = ShapeOf((s \o t)[i])
  BY <1>1, <1>2, Zenon
<1> HIDE DEF a, b, c
<1>6. /\ a \o b \in Seq(T)
      /\ Len(a \o b) = Len(a) + Len(b)
      /\ \A i \in 1..(Len(a) + Len(b)) : (a \o b)[i] = IF i <= Len(a) THEN a[i] ELSE b[i - Len(a)]
  <2>1. a \in Seq(T) /\ b \in Seq(T)
    BY <1>3, <1>4, Zenon
  <2> QED  BY ONLY <2>1, Concatenated, Zenon
<1>7. ASSUME NEW i \in 1..(Len(s) + Len(t))
      PROVE  c[i] = (a \o b)[i]
  <2>1. CASE i <= Len(s)
    BY <1>1, <1>3, <1>4, <1>5, <1>6, <2>1
  <2>2. CASE ~(i <= Len(s))
    <3>1. i - Len(s) \in 1..Len(t)
      BY <1>3, <1>4, <2>2
    <3> QED  BY <1>1, <1>3, <1>4, <1>5, <1>6, <2>2, <3>1, ZenonT(30)
  <2> QED  BY <2>1, <2>2, Zenon
<1>8. c = a \o b
  BY <1>3, <1>4, <1>5, <1>6, <1>7, SameSequence, SMTT(30)
<1> QED  BY <1>8, Zenon DEF a, b, c

LEMMA ShapeOptional ==
  ASSUME NEW f, NEW c \in BOOLEAN
  PROVE  Shape(IF c THEN <<f>> ELSE <<>>) = IF c THEN <<ShapeOf(f)>> ELSE <<>>
<1>1. Shape(<<f>>) = <<ShapeOf(f)>>
  BY DEF Shape, ShapeOf
<1>2. Shape(<<>>) = <<>>
  BY DEF Shape
<1> QED  BY <1>1, <1>2, Zenon


(* The fields whose pointers the request carries are those that            *)
(* ttiLobRpa.UnmarshalFrom reads, in its order; the bytes of a locator     *)
(* that the server made shorter than its buffer are discarded.             *)
LEMMA ReplyInStep ==
  ASSUME NEW d, NEW l, NEW amount, NEW null, d.sourceLength \in Nat, l.length \in Nat,
         d.operation # "tmpCreate" => d.sourceLength = l.length
  PROVE  /\ InStep(d, ReplyFields(MarshalTo(d), l, amount, null))
         /\ ReplyFields(MarshalTo(d), l, amount, null)[1].val = l
<1> DEFINE size == IF l.length > d.sourceLength THEN l.length ELSE d.sourceLength
           f1 == Field("locator", size, l)
           f2 == Field("charset", 2, d.charsetID)
           f3 == Field("amount", 8, amount)
           f4 == Field("null", 4, null)
           c2 == d.charsetID # "none"
           c3 == d.sendLobAmt = TRUE
           c4 == d.nullO2U = TRUE
           p2 == IF c2 THEN <<f2>> ELSE <<>>
           p3 == IF c3 THEN <<f3>> ELSE <<>>
           p4 == IF c4 THEN <<f4>> ELSE <<>>
           S == {f1, f2, f3, f4}
           fields == ReplyFields(MarshalTo(d), l, amount, null)
<1>1. /\ MarshalTo(d).pointers = Pointers(d) /\ MarshalTo(d).sourceLength = d.sourceLength
      /\ MarshalTo(d).charset = d.charsetID
  BY Zenon DEF MarshalTo
<1>2. /\ "charset" \in Pointers(d) <=> c2
      /\ "amount" \in Pointers(d) <=> c3
      /\ "null" \in Pointers(d) <=> c4
  BY Zenon DEF Pointers
<1>3. fields = ((<<f1>> \o p2) \o p3) \o p4
  BY <1>1, <1>2, Zenon DEF ReplyFields
<1>4. /\ f1.name = "locator" /\ f1.size = size /\ f1.val = l
      /\ ShapeOf(f2) = [name |-> "charset", size |-> 2]
      /\ ShapeOf(f3) = [name |-> "amount", size |-> 8]
      /\ ShapeOf(f4) = [name |-> "null", size |-> 4]
      /\ ShapeOf(f1) = [name |-> "locator", size |-> size]
  BY Zenon DEF Field, ShapeOf
<1> HIDE DEF f1, f2, f3, f4, c2, c3, c4, size
<1>5. <<f1>> \in Seq(S) /\ p2 \in Seq(S) /\ p3 \in Seq(S) /\ p4 \in Seq(S)
  <2>1. f1 \in S /\ f2 \in S /\ f3 \in S /\ f4 \in S
    BY Zenon
  <2> HIDE DEF S
  <2> QED  BY <2>1
<1> HIDE DEF S
<1>6. /\ Shape(p2) = (IF c2 THEN <<ShapeOf(f2)>> ELSE <<>>)
      /\ Shape(p3) = (IF c3 THEN <<ShapeOf(f3)>> ELSE <<>>)
      /\ Shape(p4) = (IF c4 THEN <<ShapeOf(f4)>> ELSE <<>>)
      /\ Shape(<<f1>>) = <<ShapeOf(f1)>>
  <2>1. c2 \in BOOLEAN /\ c3 \in BOOLEAN /\ c4 \in BOOLEAN
    BY Zenon DEF c2, c3, c4
  <2>2. Shape(IF TRUE THEN <<f1>> ELSE <<>>) = IF TRUE THEN <<ShapeOf(f1)>> ELSE <<>>
    BY ShapeOptional, Zenon
  <2> QED  BY <2>1, <2>2, ShapeOptional, Zenon
<1> HIDE DEF p2, p3, p4
<1>7. /\ <<f1>> \o p2 \in Seq(S)
      /\ (<<f1>> \o p2) \o p3 \in Seq(S)
  BY <1>5
<1>8. Shape(fields) = ((Shape(<<f1>>) \o Shape(p2)) \o Shape(p3)) \o Shape(p4)
  <2>1. Shape(<<f1>> \o p2) = Shape(<<f1>>) \o Shape(p2)
    BY <1>5, ShapeConcat, Zenon
  <2>2. Shape((<<f1>> \o p2) \o p3) = Shape(<<f1>> \o p2) \o Shape(p3)
    BY <1>5, <1>7, ShapeConcat, Zenon
  <2>3. Shape(((<<f1>> \o p2) \o p3) \o p4) = Shape((<<f1>> \o p2) \o p3) \o Shape(p4)
    BY <1>5, <1>7, ShapeConcat, Zenon
  <2> QED  BY <1>3, <2>1, <2>2, <2>3, Zenon
<1>9. fields[1] = f1
  <2>1. ASSUME NEW u \in Seq(S), NEW v \in Seq(S), Len(u) >= 1
        PROVE  u \o v \in Seq(S) /\ Len(u \o v) >= 1 /\ (u \o v)[1] = u[1]
    <3>1. Len(u) \in Nat /\ Len(v) \in Nat
      BY Elements, Zenon
    <3>2. 1 \in 1..(Len(u) + Len(v))
      BY <2>1, <3>1
    <3>3. /\ u \o v \in Seq(S)
          /\ Len(u \o v) = Len(u) + Len(v)
          /\ \A i \in 1..(Len(u) + Len(v)) : (u \o v)[i] = IF i <= Len(u) THEN u[i] ELSE v[i - Len(u)]
      BY Concatenated, Zenon
    <3> QED  BY <2>1, <3>1, <3>2, <3>3
  <2>2. Len(<<f1>>) >= 1 /\ <<f1>>[1] = f1
    OBVIOUS
  <2> QED  BY <1>3, <1>5, <1>7, <2>1, <2>2
<1>10. fields[1].val = l
  BY <1>4, <1>9, Zenon
<1>11. size = IF d.operation = "tmpCreate"
              THEN l.length + (IF d.sourceLength > l.length THEN d.sourceLength - l.length ELSE 0)
              ELSE d.sourceLength
  BY DEF size
<1>12. ExpectedFields(d, fields) =
         ((<<[name |-> "locator", size |-> size]>>
             \o (IF c2 THEN <<[name |-> "charset", size |-> 2]>> ELSE <<>>))
             \o (IF c3 THEN <<[name |-> "amount", size |-> 8]>> ELSE <<>>))
             \o (IF c4 THEN <<[name |-> "null", size |-> 4]>> ELSE <<>>)
  <2> HIDE DEF fields
  <2> QED  BY <1>10, <1>11, Zenon DEF ExpectedFields, c2, c3, c4
<1>13. Shape(fields) = ExpectedFields(d, fields)
  BY <1>4, <1>6, <1>8, <1>12, Zenon
<1> QED  BY <1>10, <1>13, Zenon DEF InStep, Shape


-----------------------------------------------------------------------------
(* The open state in the bytes of a locator. *)

LEMMA LocalModes ==
  ASSUME NEW l \in LocatorFlags
  PROVE  /\ isOpenLocator(l) => LocalMode(l) \in {"ReadOnly", "ReadWrite"}
         /\ ~isOpenLocator(l) /\ LocalMode(l) # "leftReadWrite" => LocalMode(l) = "closed"
<1>1. isOpenLocator(l) \in BOOLEAN /\ l.readWrite \in BOOLEAN
  BY Zenon DEF isOpenLocator, LocatorFlags
<1> QED  BY <1>1, Zenon DEF LocalMode

(* setOpenState and setAccessMode open a closed locator in the mode asked  *)
(* for, if it is long enough to have the flags.                            *)
LEMMA OpenedLocator ==
  ASSUME NEW l \in LocatorFlags, NEW mode \in {"ReadOnly", "ReadWrite"}, LocalMode(l) = "closed"
  PROVE  /\ Opened(l, mode) \in LocatorFlags
         /\ isLocal(Opened(l, mode)) = isLocal(l)
         /\ isQuasiLocator(Opened(l, mode)) = isQuasiLocator(l)
         /\ LocalMode(Opened(l, mode)) \in {"closed", mode}
<1> DEFINE o == [l EXCEPT !.open = TRUE, !.readWrite = @ \/ mode = "ReadWrite"]
<1>1. l.length \in Nat /\ l.readWrite \in BOOLEAN /\ l.open \in BOOLEAN
  BY Zenon DEF LocatorFlags
<1>2. CASE l.length <= koll4FlagOffset
  BY <1>2, Zenon DEF Opened
<1>3. CASE ~(l.length <= koll4FlagOffset)
  <2>1. Opened(l, mode) = o
    BY <1>3, Zenon DEF Opened
  <2>2. /\ o \in LocatorFlags
        /\ o.length = l.length /\ o.temporary = l.temporary /\ o.abstract = l.abstract /\ o.quasi = l.quasi
        /\ o.open = TRUE /\ o.readWrite = (l.readWrite \/ mode = "ReadWrite")
    BY Zenon DEF LocatorFlags
  <2> HIDE DEF o
  <2>3. isLocal(o) = isLocal(l) /\ isQuasiLocator(o) = isQuasiLocator(l)
    BY <2>2, Zenon DEF isLocal, isTemporaryLocator, isAbstractLocator, isQuasiLocator
  <2>4. isOpenLocator(o)
    BY <1>1, <1>3, <2>2 DEF isOpenLocator, koll4FlagOffset
  <2>5. l.readWrite = FALSE
    BY <1>1, Zenon DEF LocalMode
  <2>6. LocalMode(o) = IF mode = "ReadWrite" THEN "ReadWrite" ELSE "ReadOnly"
    BY <2>2, <2>4, <2>5, Zenon DEF LocalMode
  <2> QED  BY <2>1, <2>2, <2>3, <2>6, Zenon
<1> QED  BY <1>2, <1>3, Zenon

(* clearAccessState leaves neither flag behind.                            *)
LEMMA ClearedLocator ==
  ASSUME NEW l \in LocatorFlags, isOpenLocator(l)
  PROVE  /\ clearAccessState(l) \in LocatorFlags
         /\ isLocal(clearAccessState(l)) = isLocal(l)
         /\ isQuasiLocator(clearAccessState(l)) = isQuasiLocator(l)
         /\ LocalMode(clearAccessState(l)) = "closed"
<1> DEFINE o == [l EXCEPT !.open = FALSE, !.readWrite = FALSE]
<1>1. l.length \in Nat /\ ~(l.length <= koll4FlagOffset)
  BY DEF isOpenLocator, koll4FlagOffset, LocatorFlags
<1>2. clearAccessState(l) = o
  BY <1>1, Zenon DEF clearAccessState
<1>3. /\ o \in LocatorFlags
      /\ o.length = l.length /\ o.temporary = l.temporary /\ o.abstract = l.abstract /\ o.quasi = l.quasi
      /\ o.open = FALSE /\ o.readWrite = FALSE
  BY Zenon DEF LocatorFlags
<1> HIDE DEF o
<1>4. isLocal(o) = isLocal(l) /\ isQuasiLocator(o) = isQuasiLocator(l)
  BY <1>3, Zenon DEF isLocal, isTemporaryLocator, isAbstractLocator, isQuasiLocator
<1>5. LocalMode(o) = "closed"
  BY <1>3, Zenon DEF LocalMode, isOpenLocator
<1> QED  BY <1>2, <1>3, <1>4, <1>5, Zenon

(* The locator of a new temporary LOB is closed, and not a quasi locator.  *)
LEMMA NewLocator ==
  ASSUME NEW nclob \in BOOLEAN, NEW n \in Nat
  PROVE  /\ TemporaryLocator(nclob, n) \in LocatorFlags
         /\ LocalMode(TemporaryLocator(nclob, n)) = "closed"
         /\ ~isQuasiLocator(TemporaryLocator(nclob, n))
         /\ TemporaryLocator(nclob, n).length = n
<1> DEFINE o == TemporaryLocator(nclob, n)
<1>1. /\ o \in LocatorFlags /\ o.length = n
      /\ o.open = FALSE /\ o.readWrite = FALSE /\ o.quasi = FALSE
  BY Zenon DEF TemporaryLocator, LocatorFlags
<1> HIDE DEF o
<1>2. LocalMode(o) = "closed" /\ ~isQuasiLocator(o)
  BY <1>1, Zenon DEF LocalMode, isOpenLocator, isQuasiLocator
<1> QED  BY <1>1, <1>2, Zenon DEF o

-----------------------------------------------------------------------------
(* The beginning of a call. *)

\* What a step does to the open state and to the answer of isOpen.
Refined ==
  \/ OpenMode' = OpenMode /\ Told' \in {Told, "none", IF OpenMode = "closed" THEN "no" ELSE "yes"}
  \/ OpenMode # "closed" /\ OpenMode' = "closed" /\ Told' = "none"
  \/ OpenMode = "closed" /\ OpenMode' \in {"ReadOnly", "ReadWrite"} /\ Told' = "none"

(* An operation that returns at once.                                      *)
LEMMA AnswerKeeps ==
  ASSUME LobInv, pc = "idle", NEW op \in Operations, NEW r, Answer(op, r), Located'
  PROVE  LobInv'
<1>1. Defined'
  <2>1. /\ DOMAIN NoCall = DefinitionFields /\ NoCall.sourceLength \in Nat
    <3>1. loc.length \in Nat
      BY Zenon DEF LobInv, Located, LocatorFlags
    <3> QED  BY <3>1, Zenon DEF NoCall, Definition, DefinitionFields
  <2>2. def' = [NoCall EXCEPT !.operation = op]
    BY Zenon DEF Answer
  <2> QED  BY <2>1, <2>2, Zenon DEF Defined, DefinitionFields
<1>2. InCall'
  BY Zenon DEF InCall, LobInv, Answer
<1> QED  BY <1>1, <1>2, Zenon DEF LobInv

(* An operation that sends a request.                                      *)
LEMMA BeginKeeps ==
  ASSUME LobInv, pc = "idle", NEW d, NEW cbs, Begin(d, cbs), d.operation \in Operations,
         DOMAIN d = DefinitionFields, d.sourceLength \in Nat, Asking(d)
  PROVE  LobInv' /\ Refined
<1>1. /\ def' = d /\ pc' = "push" /\ UNCHANGED <<loc, lob>>
  BY Zenon DEF Begin
<1>2. Located' /\ OpenMode' = OpenMode
  BY <1>1, Zenon DEF LobInv, Located, OpenMode
<1>3. Defined'
  BY <1>1, Zenon DEF Defined
<1>4. Asking(def)'
  BY <1>1, Zenon DEF Asking
<1>5. InCall'
  BY <1>1, <1>4, Zenon DEF InCall
<1>6. Told' = "none"
  BY <1>1, Zenon DEF Told
<1> QED  BY <1>2, <1>3, <1>5, <1>6, Zenon DEF LobInv, Refined


(* A definition with other arguments of the call asks the same.            *)
LEMMA AskingTyped ==
  ASSUME LobInv, NEW op \in Operations \ {"none", "tmpCreate"}, NEW offset, NEW amt, NEW send, NEW null,
         op = "isOpen" => null = TRUE /\ send = FALSE,
         op \in {"open", "close", "isOpen"} => ~isLocal(loc) /\ ~isQuasiLocator(loc),
         op = "open" => amt \in {1, 2}
  PROVE  LET d == Definition(op, offset, amt, send, null)
         IN  /\ d.operation \in Operations /\ DOMAIN d = DefinitionFields
             /\ d.sourceLength \in Nat /\ Asking(d)
<1> DEFINE d == Definition(op, offset, amt, send, null)
<1>1. /\ DOMAIN d = DefinitionFields /\ d.operation = op /\ d.sourceLength = loc.length
      /\ d.sourceLength \in Nat /\ d.lobAmt = amt /\ d.sendLobAmt = send /\ d.nullO2U = null
      /\ d.charsetID = "none"
  <2>1. loc.length \in Nat
    BY Zenon DEF LobInv, Located, LocatorFlags
  <2> QED  BY <2>1, Zenon DEF Definition, DefinitionFields
<1> HIDE DEF d
<1>2. Asking(d)
  BY <1>1, Zenon DEF Asking, AsksNull
<1> QED  BY <1>1, <1>2, Zenon DEF d

(* Answers that say nothing of the open state, and leave it alone.         *)
LEMMA SilentAnswer ==
  ASSUME LobInv, pc = "idle", NEW op \in Operations, NEW r, Answer(op, r), UNCHANGED loc,
         r.op # "isOpen" \/ r.ok = FALSE
  PROVE  LobInv' /\ Refined
<1>1. UNCHANGED lob /\ result' = r
  BY Zenon DEF Answer
<1>2. Located' /\ OpenMode' = OpenMode
  BY <1>1, Zenon DEF LobInv, Located, OpenMode
<1>3. Told' = "none"
  BY <1>1, Zenon DEF Told
<1> QED  BY <1>2, <1>3, AnswerKeeps, Zenon DEF Refined

LEMMA OpenKeeps ==
  ASSUME LobInv, NEW mode \in {"ReadOnly", "ReadWrite", "BfileReadOnly"}, open(mode)
  PROVE  LobInv' /\ Refined
<1>1. pc = "idle" /\ loc \in LocatorFlags
  BY Zenon DEF open, Idle, LobInv, Located
<1>2. "open" \in Operations
  BY Zenon DEF Operations
<1>3. CASE Answer("open", Failed("open")) /\ UNCHANGED loc
  BY <1>1, <1>2, <1>3, SilentAnswer, Zenon DEF Failed
<1>4. CASE Answer("open", Ok("open", FALSE)) /\ UNCHANGED loc
  BY <1>1, <1>2, <1>4, SilentAnswer, Zenon DEF Ok
<1>5. CASE /\ mode # "BfileReadOnly" /\ ~isQuasiLocator(loc) /\ isLocal(loc) /\ ~isOpenLocator(loc)
           /\ loc' = Opened(loc, mode) /\ Answer("open", Ok("open", TRUE))
  <2>1. LocalMode(loc) = "closed" /\ OpenMode = "closed"
    BY <1>1, <1>5, LocalModes, Zenon DEF LobInv, Located, OpenMode
  <2>2. /\ loc' \in LocatorFlags /\ isLocal(loc') /\ ~isQuasiLocator(loc')
        /\ LocalMode(loc') \in {"closed", mode}
    BY <1>1, <1>5, <2>1, OpenedLocator
  <2>3. UNCHANGED lob /\ result' = Ok("open", TRUE)
    BY <1>5, Zenon DEF Answer
  <2>4. OpenMode' \in {"closed", mode} /\ Located'
    BY <2>2, <2>3, Zenon DEF OpenMode, Located, LobInv
  <2>5. Told' = "none"
    BY <2>3, Zenon DEF Told, Ok
  <2>6. LobInv'
    BY <1>1, <1>2, <1>5, <2>4, AnswerKeeps, Zenon
  <2> QED  BY <1>5, <2>1, <2>4, <2>5, <2>6, Zenon DEF Refined
<1>6. CASE /\ ~isQuasiLocator(loc) /\ ~isLocal(loc)
           /\ execute(Definition("open", 0, IF mode = "ReadWrite" THEN 2 ELSE 1, TRUE, FALSE))
  <2> DEFINE d == Definition("open", 0, IF mode = "ReadWrite" THEN 2 ELSE 1, TRUE, FALSE)
  <2>1. d.operation \in Operations /\ DOMAIN d = DefinitionFields /\ d.sourceLength \in Nat /\ Asking(d)
    BY <1>2, <1>6, AskingTyped, Zenon
  <2>2. Begin(d, {"RPA"})
    BY <1>6, Zenon DEF execute
  <2> QED  BY <1>1, <2>1, <2>2, BeginKeeps, Zenon
<1> QED  BY <1>3, <1>4, <1>5, <1>6, Zenon DEF open, lobOpen

LEMMA CloseKeeps ==
  ASSUME LobInv, close
  PROVE  LobInv' /\ Refined
<1>1. pc = "idle" /\ loc \in LocatorFlags
  BY Zenon DEF close, Idle, LobInv, Located
<1>2. "close" \in Operations
  BY Zenon DEF Operations
<1>3. CASE Answer("close", Failed("close")) /\ UNCHANGED loc
  BY <1>1, <1>2, <1>3, SilentAnswer, Zenon DEF Failed
<1>4. CASE Answer("close", Ok("close", TRUE)) /\ UNCHANGED loc
  BY <1>1, <1>2, <1>4, SilentAnswer, Zenon DEF Ok
<1>5. CASE /\ ~isQuasiLocator(loc) /\ isLocal(loc) /\ isOpenLocator(loc)
           /\ loc' = clearAccessState(loc) /\ Answer("close", Ok("close", TRUE))
  <2>1. OpenMode # "closed"
    BY <1>1, <1>5, LocalModes, Zenon DEF OpenMode
  <2>2. /\ loc' \in LocatorFlags /\ isLocal(loc') /\ ~isQuasiLocator(loc')
        /\ LocalMode(loc') = "closed"
    BY <1>1, <1>5, ClearedLocator, Zenon
  <2>3. UNCHANGED lob /\ result' = Ok("close", TRUE)
    BY <1>5, Zenon DEF Answer
  <2>4. OpenMode' = "closed" /\ Located'
    BY <2>2, <2>3, Zenon DEF OpenMode, Located, LobInv
  <2>5. Told' = "none"
    BY <2>3, Zenon DEF Told, Ok
  <2>6. LobInv'
    BY <1>1, <1>2, <1>5, <2>4, AnswerKeeps, Zenon
  <2> QED  BY <2>1, <2>4, <2>5, <2>6, Zenon DEF Refined
<1>6. CASE /\ ~isQuasiLocator(loc) /\ ~isLocal(loc)
           /\ execute(Definition("close", 0, 0, FALSE, FALSE))
  <2> DEFINE d == Definition("close", 0, 0, FALSE, FALSE)
  <2>1. d.operation \in Operations /\ DOMAIN d = DefinitionFields /\ d.sourceLength \in Nat /\ Asking(d)
    BY <1>2, <1>6, AskingTyped, Zenon
  <2>2. Begin(d, {"RPA"})
    BY <1>6, Zenon DEF execute
  <2> QED  BY <1>1, <2>1, <2>2, BeginKeeps, Zenon
<1> QED  BY <1>3, <1>4, <1>5, <1>6, Zenon DEF close

LEMMA IsOpenKeeps ==
  ASSUME LobInv, isOpen
  PROVE  LobInv' /\ Refined
<1>1. pc = "idle" /\ loc \in LocatorFlags
  BY Zenon DEF isOpen, Idle, LobInv, Located
<1>2. "isOpen" \in Operations
  BY Zenon DEF Operations
<1>3. ASSUME NEW b \in BOOLEAN, Answer("isOpen", Ok("isOpen", b)), UNCHANGED loc,
             b <=> OpenMode # "closed"
      PROVE  LobInv' /\ Refined
  <2>1. UNCHANGED <<lob, pc>> /\ result' = Ok("isOpen", b)
    BY <1>3, Zenon DEF Answer
  <2>2. Located' /\ OpenMode' = OpenMode
    BY <1>3, <2>1, Zenon DEF LobInv, Located, OpenMode
  <2>3. Told' = IF b THEN "yes" ELSE "no"
    BY <1>1, <2>1, Zenon DEF Told, Ok
  <2>4. LobInv'
    BY <1>1, <1>2, <1>3, <2>2, AnswerKeeps, Zenon
  <2> QED  BY <1>3, <2>2, <2>3, <2>4, Zenon DEF Refined
<1>4. CASE isQuasiLocator(loc) /\ Answer("isOpen", Ok("isOpen", FALSE)) /\ UNCHANGED loc
  BY <1>3, <1>4, Zenon DEF LobInv, Located
<1>5. CASE isLocal(loc) /\ Answer("isOpen", Ok("isOpen", isOpenLocator(loc))) /\ UNCHANGED loc
  <2>1. isOpenLocator(loc) \in BOOLEAN
    BY <1>1, Zenon DEF isOpenLocator, LocatorFlags
  <2>2. isOpenLocator(loc) <=> OpenMode # "closed"
    BY <1>1, <1>5, LocalModes, Zenon DEF OpenMode, LobInv, Located
  <2> QED  BY <1>3, <1>5, <2>1, <2>2, Zenon
<1>6. CASE /\ ~isQuasiLocator(loc) /\ ~isLocal(loc)
           /\ execute(Definition("isOpen", 0, 0, FALSE, TRUE))
  <2> DEFINE d == Definition("isOpen", 0, 0, FALSE, TRUE)
  <2>1. d.operation \in Operations /\ DOMAIN d = DefinitionFields /\ d.sourceLength \in Nat /\ Asking(d)
    BY <1>2, <1>6, AskingTyped, Zenon
  <2>2. Begin(d, {"RPA"})
    BY <1>6, Zenon DEF execute
  <2> QED  BY <1>1, <2>1, <2>2, BeginKeeps, Zenon
<1> QED  BY <1>4, <1>5, <1>6, Zenon DEF isOpen


-----------------------------------------------------------------------------
(* Short sequences. *)

LEMMA TwoElements ==
  ASSUME NEW S, NEW r \in Seq(S), Len(r) = 2
  PROVE  r = <<r[1], r[2]>>
OBVIOUS

LEMMA ThreeElements ==
  ASSUME NEW S, NEW r \in Seq(S), Len(r) = 3
  PROVE  r = <<r[1], r[2], r[3]>>
OBVIOUS

LEMMA Joined ==
  ASSUME NEW a, NEW b, NEW c
  PROVE  <<>> \o <<a>> = <<a>> /\ <<a>> \o <<>> = <<a>> /\ <<a>> \o <<b>> = <<a, b>>
         /\ <<a, b>> \o <<c>> = <<a, b, c>>
<1> DEFINE S == {a, b, c}
<1>1. /\ <<>> \in Seq(S) /\ <<a>> \in Seq(S) /\ <<b>> \in Seq(S) /\ <<c>> \in Seq(S) /\ <<a, b>> \in Seq(S)
      /\ Len(<<>>) = 0 /\ Len(<<a>>) = 1 /\ Len(<<b>>) = 1 /\ Len(<<c>>) = 1 /\ Len(<<a, b>>) = 2
      /\ <<a>>[1] = a /\ <<b>>[1] = b /\ <<c>>[1] = c /\ <<a, b>>[1] = a /\ <<a, b>>[2] = b
  OBVIOUS
<1> HIDE DEF S
<1>2. <<>> \o <<a>> = <<a>> /\ <<a>> \o <<>> = <<a>>
  BY <1>1
<1>3. <<a>> \o <<b>> = <<a, b>>
  <2> DEFINE r == <<a>> \o <<b>>
  <2>1. r \in Seq(S) /\ Len(r) = 2 /\ r[1] = a /\ r[2] = b
    BY <1>1
  <2> HIDE DEF r
  <2>2. r = <<a, b>>
    BY <2>1, TwoElements, Zenon
  <2> QED  BY <2>2, Zenon DEF r
<1>4. <<a, b>> \o <<c>> = <<a, b, c>>
  <2> DEFINE r == <<a, b>> \o <<c>>
  <2>1. r \in Seq(S) /\ Len(r) = 3 /\ r[1] = a /\ r[2] = b /\ r[3] = c
    BY <1>1
  <2> HIDE DEF r
  <2>2. r = <<a, b, c>>
    BY <2>1, ThreeElements, Zenon
  <2> QED  BY <2>2, Zenon DEF r
<1> QED  BY <1>2, <1>3, <1>4, Zenon

(* isOpen is answered with the locator and the flag.                       *)
LEMMA NullAnswered ==
  ASSUME NEW d, AsksNull(d), NEW l, NEW amount, NEW null, NEW default
  PROVE  ValueOf(ReplyFields(MarshalTo(d), l, amount, null), "null", default) = null
<1> DEFINE req == MarshalTo(d)
           fields == ReplyFields(req, l, amount, null)
           size == IF l.length > d.sourceLength THEN l.length ELSE d.sourceLength
           f == Field("locator", size, l)
           g == Field("null", 4, null)
<1>1. /\ "null" \in req.pointers /\ "charset" \notin req.pointers /\ "amount" \notin req.pointers
      /\ req.sourceLength = d.sourceLength
  BY Zenon DEF MarshalTo, Pointers, AsksNull
<1> HIDE DEF req
<1>2. fields = ((<<f>> \o <<>>) \o <<>>) \o <<g>>
  BY <1>1, Zenon DEF ReplyFields
<1>3. fields = <<f, g>>
  BY <1>2, Joined, ZenonT(30)
<1>4. f.name = "locator" /\ g.name = "null" /\ g.val = null
  BY Zenon DEF Field
<1> HIDE DEF fields, f, g
<1>5. {i \in DOMAIN fields : fields[i].name = "null"} = {2}
  BY <1>3, <1>4
<1>6. Min({2}) = 2
  BY DEF Min
<1>7. ValueOf(fields, "null", default) = fields[2].val
  BY <1>5, <1>6, Zenon DEF ValueOf
<1> QED  BY <1>3, <1>4, <1>7 DEF fields, req

(* The operations that do not ask for the open state.                      *)
LEMMA PlainKeeps ==
  ASSUME LobInv, pc = "idle", NEW d, NEW cbs, Begin(d, cbs), DOMAIN d = DefinitionFields,
         d.operation \in {"getLength", "pageSize", "trim", "write", "read"},
         d.sourceLength = loc.length
  PROVE  LobInv' /\ Refined
<1>1. loc.length \in Nat
  BY Zenon DEF LobInv, Located, LocatorFlags
<1>2. d.operation \in Operations
  BY Zenon DEF Operations
<1>3. Asking(d)
  BY Zenon DEF Asking
<1> QED  BY <1>1, <1>2, <1>3, BeginKeeps, Zenon

LEMMA TrimKeeps ==
  ASSUME LobInv, NEW n, trim(n)
  PROVE  LobInv' /\ Refined
<1>1. pc = "idle"
  BY Zenon DEF trim, Idle
<1>2. CASE Answer("trim", Failed("trim")) /\ UNCHANGED loc
  <2>1. "trim" \in Operations
    BY Zenon DEF Operations
  <2> QED  BY <1>1, <1>2, <2>1, SilentAnswer, Zenon DEF Failed
<1>3. CASE execute(Definition("trim", 0, n, TRUE, FALSE))
  <2> DEFINE d == Definition("trim", 0, n, TRUE, FALSE)
  <2>1. Begin(d, {"RPA"}) /\ DOMAIN d = DefinitionFields /\ d.operation = "trim" /\ d.sourceLength = loc.length
    BY <1>3, Zenon DEF execute, Definition, DefinitionFields
  <2> HIDE DEF d
  <2> QED  BY <1>1, <2>1, PlainKeeps, Zenon
<1> QED  BY <1>2, <1>3, Zenon DEF trim

LEMMA LengthKeeps ==
  ASSUME LobInv, getLength \/ getChunkSize
  PROVE  LobInv' /\ Refined
<1>1. pc = "idle"
  BY Zenon DEF getLength, getChunkSize, Idle
<1>2. CASE getLength
  <2> DEFINE d == Definition("getLength", 0, 0, TRUE, FALSE)
  <2>1. Begin(d, {"RPA"}) /\ DOMAIN d = DefinitionFields /\ d.operation = "getLength" /\ d.sourceLength = loc.length
    BY <1>2, Zenon DEF getLength, execute, Definition, DefinitionFields
  <2> HIDE DEF d
  <2> QED  BY <1>1, <2>1, PlainKeeps, Zenon
<1>3. CASE getChunkSize
  <2> DEFINE d == Definition("pageSize", 0, 0, TRUE, FALSE)
  <2>1. Begin(d, {"RPA"}) /\ DOMAIN d = DefinitionFields /\ d.operation = "pageSize" /\ d.sourceLength = loc.length
    BY <1>3, Zenon DEF getChunkSize, execute, Definition, DefinitionFields
  <2> HIDE DEF d
  <2> QED  BY <1>1, <2>1, PlainKeeps, Zenon
<1> QED  BY <1>2, <1>3, Zenon

LEMMA WriteKeeps ==
  ASSUME LobInv, NEW text, NEW numChars, NEW offset, write(text, numChars, offset)
  PROVE  LobInv' /\ Refined
<1>1. pc = "idle"
  BY Zenon DEF write, Idle
<1>2. CASE Answer("write", Failed("write")) /\ UNCHANGED loc
  <2>1. "write" \in Operations
    BY Zenon DEF Operations
  <2> QED  BY <1>1, <1>2, <2>1, SilentAnswer, Zenon DEF Failed
<1>3. CASE ~(Answer("write", Failed("write")) /\ UNCHANGED loc)
  <2>1. PICK amt, bytes :
          executeWrite([Definition("write", offset, amt, TRUE, FALSE) EXCEPT
                          !.payload = bytes, !.text = text, !.numChars = numChars])
    BY <1>3, Zenon DEF write
  <2> DEFINE e == Definition("write", offset, amt, TRUE, FALSE)
             d == [e EXCEPT !.payload = bytes, !.text = text, !.numChars = numChars]
  <2>2. Begin(d, {"RPA"})
    BY <2>1, Zenon DEF executeWrite
  <2>3. DOMAIN e = DefinitionFields /\ e.operation = "write" /\ e.sourceLength = loc.length
    BY Zenon DEF Definition, DefinitionFields
  <2> HIDE DEF e
  <2>4. DOMAIN d = DefinitionFields /\ d.operation = "write" /\ d.sourceLength = loc.length
    BY <2>3, Zenon DEF DefinitionFields
  <2> HIDE DEF d
  <2> QED  BY <1>1, <2>2, <2>4, PlainKeeps, Zenon
<1> QED  BY <1>2, <1>3, Zenon

LEMMA ReadKeeps ==
  ASSUME LobInv, NEW numChars, NEW offset, NEW capacity, read(numChars, offset, capacity)
  PROVE  LobInv' /\ Refined
<1> DEFINE e == Definition("read", offset, numChars, TRUE, FALSE)
           room == getByteBufferSizeForConversion(isLobCharsetVariableWidth(loc), numChars)
           d == [e EXCEPT !.room = room, !.capacity = capacity, !.numChars = numChars]
<1>1. pc = "idle" /\ Begin(d, {"LOBD", "RPA"})
  BY Zenon DEF read, Idle, lobRead, executeRead
<1>2. DOMAIN e = DefinitionFields /\ e.operation = "read" /\ e.sourceLength = loc.length
  BY Zenon DEF Definition, DefinitionFields
<1> HIDE DEF e, room
<1>3. DOMAIN d = DefinitionFields /\ d.operation = "read" /\ d.sourceLength = loc.length
  BY <1>2, Zenon DEF DefinitionFields
<1> HIDE DEF d
<1> QED  BY <1>1, <1>3, PlainKeeps, Zenon

LEMMA CreateKeeps ==
  ASSUME LobInv, NEW nclob \in BOOLEAN, createTemporaryLob(nclob)
  PROVE  LobInv' /\ Refined
<1> DEFINE e == Definition("tmpCreate", IF nclob THEN 2 ELSE 1, 0, TRUE, TRUE)
           d == [e EXCEPT !.charsetID = lobCharSet(nclob), !.sourceLength = kolllTempWithSignature]
<1>1. pc = "idle" /\ Begin(d, {"RPA"})
  BY Zenon DEF createTemporaryLob, Idle, execute, TemporaryCreate
<1>2. DOMAIN e = DefinitionFields /\ e.operation = "tmpCreate"
  BY Zenon DEF Definition, DefinitionFields
<1> HIDE DEF e
<1>3. /\ DOMAIN d = DefinitionFields /\ d.operation = "tmpCreate" /\ d.sourceLength = kolllTempWithSignature
  BY <1>2, Zenon DEF DefinitionFields
<1> HIDE DEF d
<1>4. d.operation \in Operations /\ d.sourceLength \in Nat /\ Asking(d)
  BY <1>3 DEF Operations, Asking, kolllTempWithSignature
<1> QED  BY <1>1, <1>3, <1>4, BeginKeeps, Zenon


-----------------------------------------------------------------------------
(* The exchange with the server. *)

RPAOf(l, amount, null) == [type |-> "RPA", fields |-> ReplyFields(MarshalTo(def), l, amount, null)]
Ends == {End(FALSE), [type |-> "STA"]}

\* The locator and the open state that an RPA of the call brings.
Brings(l, null) ==
  /\ def.operation = "tmpCreate" => \E nclob \in BOOLEAN, n \in TempLengths : l = TemporaryLocator(nclob, n)
  /\ def.operation # "tmpCreate" => l = loc
  /\ def.operation = "isOpen" => null = (lob.mode # "closed")

\* What the request does to the open state on the server.
Moved(after) ==
  /\ DOMAIN after = {"units", "mode"}
  /\ \/ def.operation \notin {"open", "close"} /\ after.mode = lob.mode
     \/ def.operation = "open" /\ lob.mode = "closed" /\ after.mode \in {"ReadOnly", "ReadWrite"}
     \/ def.operation = "close" /\ lob.mode # "closed" /\ after.mode = "closed"

(* What the server may answer to a request, and what becomes of the LOB:   *)
(* it is refused, or it is done.                                           *)
LEMMA Outcomes ==
  ASSUME LobInv, def.operation # "none", NEW o \in ServerOutcomes(MarshalTo(def))
  PROVE  \/ o.lob = lob /\ o.replies = <<End(TRUE)>>
         \/ \E e, l, amount, null :
              /\ e \in Ends
              /\ \/ o.replies = <<RPAOf(l, amount, null), e>>
                 \/ \E m : IsLOBD(m) /\ o.replies = <<m, RPAOf(l, amount, null), e>>
              /\ Brings(l, null) /\ Moved(o.lob)
<1> DEFINE req == MarshalTo(def)
           op == def.operation
           refused == [lob |-> lob, replies |-> <<End(TRUE)>>]
           Done(l, msgs) == {[lob |-> l, replies |-> msgs \o <<e>>] : e \in Ends}
           Goal == \E e, l, amount, null :
                     /\ e \in Ends
                     /\ \/ o.replies = <<RPAOf(l, amount, null), e>>
                        \/ \E m : IsLOBD(m) /\ o.replies = <<m, RPAOf(l, amount, null), e>>
                     /\ Brings(l, null) /\ Moved(o.lob)
<1>a. refused.lob = lob /\ refused.replies = <<End(TRUE)>>
  BY Zenon
<1>b. (o = refused \/ Goal) => ((o.lob = lob /\ o.replies = <<End(TRUE)>>) \/ Goal)
  BY <1>a, Zenon
<1>0. SUFFICES ASSUME o # refused PROVE Goal
  BY <1>b, Zenon
<1>1. req.operation = op /\ op \in Operations \ {"none"} /\ DOMAIN lob = {"units", "mode"}
  BY Zenon DEF MarshalTo, LobInv, Defined, Located
<1>2. ASSUME NEW l, NEW amount, NEW null, NEW after, o \in Done(after, <<RPAOf(l, amount, null)>>),
             Brings(l, null), Moved(after)
      PROVE  Goal
  <2>1. PICK e \in Ends : o = [lob |-> after, replies |-> <<RPAOf(l, amount, null)>> \o <<e>>]
    BY <1>2, Zenon
  <2>2. o.replies = <<RPAOf(l, amount, null), e>> /\ o.lob = after
    BY <2>1, Joined, Zenon
  <2> QED  BY <1>2, <2>2, Zenon
<1>3. ASSUME NEW m, IsLOBD(m), NEW l, NEW amount, NEW null, NEW after,
             o \in Done(after, <<m>> \o <<RPAOf(l, amount, null)>>), Brings(l, null), Moved(after)
      PROVE  Goal
  <2>1. PICK e \in Ends : o = [lob |-> after, replies |-> (<<m>> \o <<RPAOf(l, amount, null)>>) \o <<e>>]
    BY <1>3, Zenon
  <2>2. o.replies = <<m, RPAOf(l, amount, null), e>> /\ o.lob = after
    BY <2>1, Joined, ZenonT(30)
  <2> QED  BY <1>3, <2>2, Zenon
<1>4. ASSUME op \notin {"open", "close"}
      PROVE  Moved(lob) /\ \A u : Moved([lob EXCEPT !.units = u])
  BY <1>1, <1>4, Zenon DEF Moved
<1>5. RPA(req, 0, FALSE) = RPAOf(loc, 0, FALSE) /\ \A a, n : RPA(req, a, n) = RPAOf(loc, a, n)
  BY Zenon DEF RPA, RPAOf
<1>6. ASSUME op \notin {"tmpCreate", "isOpen"} PROVE \A n : Brings(loc, n)
  BY <1>6, Zenon DEF Brings
<1> HIDE DEF Goal, Done, refused
<1>7. CASE op = "read"
  <2> DEFINE part == SubSeq(lob.units, req.offset, Min2(req.offset + req.amount - 1, Len(lob.units)))
             m == [type |-> "LOBD", bytes |-> ServerBytes(part)]
             data == IF part = <<>> THEN <<>> ELSE <<m>>
  <2>1. o \in Done(lob, data \o <<RPA(req, Len(part), FALSE)>>)
    BY <1>0, <1>1, <1>7, ZenonT(60) DEF ServerOutcomes, Done, Ends, refused
  <2>2. IsLOBD(m)
    BY Zenon DEF IsLOBD
  <2>3. Brings(loc, FALSE) /\ Moved(lob)
    BY <1>4, <1>6, <1>7, Zenon
  <2> HIDE DEF part, m
  <2>4. CASE part = <<>>
    <3>1. data \o <<RPA(req, Len(part), FALSE)>> = <<RPAOf(loc, Len(part), FALSE)>>
      BY <1>5, <2>4, Joined, Zenon
    <3> QED  BY <1>2, <2>1, <2>3, <3>1, Zenon
  <2>5. CASE part # <<>>
    <3>1. data \o <<RPA(req, Len(part), FALSE)>> = <<m>> \o <<RPAOf(loc, Len(part), FALSE)>>
      BY <1>5, <2>5, Zenon
    <3> QED  BY <1>3, <2>1, <2>2, <2>3, <3>1, Zenon
  <2> QED  BY <2>4, <2>5, Zenon
<1>8. CASE op \in {"write", "trim", "getLength", "pageSize"}
  <2> DEFINE u == Overwrite(lob.units, req.offset, Stored(req))
             v == Take(lob.units, req.amount)
  <2>1. /\ Brings(loc, FALSE) /\ Moved(lob)
        /\ Moved([lob EXCEPT !.units = u]) /\ Moved([lob EXCEPT !.units = v])
    BY <1>4, <1>6, <1>8, Zenon
  <2>2. CASE op = "write"
    <3>1. o \in Done([lob EXCEPT !.units = u], <<RPA(req, req.amount, FALSE)>>)
      BY <1>0, <1>1, <2>2, ZenonT(60) DEF ServerOutcomes, Done, Ends, refused
    <3> HIDE DEF u
    <3> QED  BY <1>2, <1>5, <2>1, <3>1, Zenon
  <2>3. CASE op = "trim"
    <3>1. o \in Done([lob EXCEPT !.units = v], <<RPA(req, req.amount, FALSE)>>)
      BY <1>0, <1>1, <2>3, ZenonT(60) DEF ServerOutcomes, Done, Ends, refused
    <3> HIDE DEF v
    <3> QED  BY <1>2, <1>5, <2>1, <3>1, Zenon
  <2>4. CASE op = "getLength"
    <3>1. o \in Done(lob, <<RPA(req, Len(lob.units), FALSE)>>)
      BY <1>0, <1>1, <2>4, ZenonT(60) DEF ServerOutcomes, Done, Ends, refused
    <3> QED  BY <1>2, <1>5, <2>1, <3>1, Zenon
  <2>5. CASE op = "pageSize"
    <3>1. o \in Done(lob, <<RPA(req, PageSize, FALSE)>>)
      BY <1>0, <1>1, <2>5, ZenonT(60) DEF ServerOutcomes, Done, Ends, refused
    <3> QED  BY <1>2, <1>5, <2>1, <3>1, Zenon
  <2> QED  BY <1>8, <2>2, <2>3, <2>4, <2>5, Zenon
<1>9. CASE op = "open"
  <2> DEFINE after == [lob EXCEPT !.mode = IF req.amount = 2 THEN "ReadWrite" ELSE "ReadOnly"]
  <2>1. lob.mode = "closed" /\ o \in Done(after, <<RPA(req, req.amount, FALSE)>>)
    BY <1>0, <1>1, <1>9, ZenonT(60) DEF ServerOutcomes, Done, Ends, refused
  <2>2. lob.mode = "closed" => Moved(after)
    BY <1>1, <1>9, Zenon DEF Moved
  <2>3. Brings(loc, FALSE)
    BY <1>6, <1>9, Zenon
  <2> HIDE DEF after
  <2> QED  BY <1>2, <1>5, <2>1, <2>2, <2>3, Zenon
<1>10. CASE op = "close"
  <2> DEFINE after == [lob EXCEPT !.mode = "closed"]
  <2>1. lob.mode # "closed" /\ o \in Done(after, <<RPA(req, 0, FALSE)>>)
    BY <1>0, <1>1, <1>10, ZenonT(60) DEF ServerOutcomes, Done, Ends, refused
  <2>2. lob.mode # "closed" => Moved(after)
    BY <1>1, <1>10, Zenon DEF Moved
  <2>3. Brings(loc, FALSE)
    BY <1>6, <1>10, Zenon
  <2> HIDE DEF after
  <2> QED  BY <1>2, <1>5, <2>1, <2>2, <2>3, Zenon
<1>11. CASE op = "isOpen"
  <2>1. o \in Done(lob, <<RPA(req, 0, lob.mode # "closed")>>)
    BY <1>0, <1>1, <1>11, ZenonT(60) DEF ServerOutcomes, Done, Ends, refused
  <2>2. Brings(loc, lob.mode # "closed") /\ Moved(lob)
    BY <1>4, <1>11, Zenon DEF Brings
  <2> QED  BY <1>2, <1>5, <2>1, <2>2, Zenon
<1>12. CASE op = "tmpCreate"
  <2>1. \E n \in TempLengths :
             o \in Done(lob, <<[type |-> "RPA",
                                fields |-> ReplyFields(req, TemporaryLocator(req.offset = 2, n), 0, FALSE)]>>)
    BY <1>0, <1>1, <1>12, ZenonT(60) DEF ServerOutcomes, Done, Ends, refused
  <2>2. PICK n \in TempLengths : o \in Done(lob, <<RPAOf(TemporaryLocator(req.offset = 2, n), 0, FALSE)>>)
    BY <2>1, Zenon DEF RPAOf
  <2>3. Brings(TemporaryLocator(req.offset = 2, n), FALSE) /\ Moved(lob)
    BY <1>4, <1>12, Zenon DEF Brings
  <2> QED  BY <1>2, <2>2, <2>3, ZenonT(30)
<1> QED  BY <1>1, <1>7, <1>8, <1>9, <1>10, <1>11, <1>12, Zenon DEF Operations


(* A request is sent: nothing happens, or its reply is one the call reads. *)
LEMMA PushKeeps ==
  ASSUME LobInv, Push
  PROVE  LobInv' /\ Refined
<1>1. pc = "push" /\ pc' = "flush" /\ UNCHANGED <<loc, lob, def>>
  BY Zenon DEF Push
<1>2. Located' /\ Defined' /\ OpenMode' = OpenMode
  BY <1>1, Zenon DEF LobInv, Located, Defined, OpenMode
<1>3. Asking(def)'
  BY <1>1, Zenon DEF LobInv, InCall, Asking
<1>4. InCall' /\ Told' = "none"
  BY <1>1, <1>3, Zenon DEF InCall, Told
<1> QED  BY <1>2, <1>4, Zenon DEF LobInv, Refined

LEMMA FlushKeeps ==
  ASSUME LobInv, Flush
  PROVE  LobInv' /\ Refined
<1>1. /\ pc = "flush" /\ pc' = "pull" /\ UNCHANGED <<loc, def>> /\ Asking(def)
      /\ \E o \in ServerOutcomes(MarshalTo(def)) : lob' = o.lob /\ replies' = o.replies
  BY Zenon DEF Flush, LobInv, InCall
<1>2. def.operation \in {"open", "close", "isOpen"} => ~isLocal(loc) /\ ~isQuasiLocator(loc)
  BY <1>1, Zenon DEF Asking
<1>3. PICK o \in ServerOutcomes(MarshalTo(def)) : lob' = o.lob /\ replies' = o.replies
  BY <1>1, Zenon
<1>4. /\ loc \in LocatorFlags /\ loc.length \in Nat /\ def.sourceLength \in Nat
      /\ lob.mode \in {"closed", "ReadOnly", "ReadWrite"} /\ DOMAIN lob = {"units", "mode"}
  BY Zenon DEF LobInv, Located, Defined, LocatorFlags
<1>5. Told' = "none"
  BY <1>1, Zenon DEF Told
<1>6. Defined'
  BY <1>1, Zenon DEF LobInv, Defined
<1>7. CASE lob' = lob /\ replies' = <<End(TRUE)>>
  <2>1. Located' /\ OpenMode' = OpenMode
    BY <1>1, <1>7, Zenon DEF LobInv, Located, OpenMode
  <2>2. Unread'
    <3>1. IsEnd(End(TRUE)) /\ ~EndsWell(End(TRUE))
      BY Zenon DEF IsEnd, EndsWell, End
    <3>2. Len(replies') = 1 /\ replies'[1] = End(TRUE)
      BY <1>7, Zenon
    <3> QED  BY <1>7, <3>1, <3>2, ZenonT(30) DEF Unread, IsEnd, EndsWell
  <2>3. InCall'
    BY <1>1, <1>2, <2>2, Zenon DEF InCall
  <2> QED  BY <1>5, <1>6, <2>1, <2>3, Zenon DEF LobInv, Refined
<1>8. ASSUME NEW e \in Ends, NEW l, NEW amount, NEW null, Brings(l, null), Moved(lob'),
             \/ replies' = <<RPAOf(l, amount, null), e>>
             \/ \E m : IsLOBD(m) /\ replies' = <<m, RPAOf(l, amount, null), e>>
      PROVE  LobInv' /\ Refined
  <2> DEFINE fields == ReplyFields(MarshalTo(def), l, amount, null)
  <2>1. l.length \in Nat
    BY <1>4, <1>8, NewLocator, LocatorsAssumption DEF Brings
  <2>2. InStep(def, fields) /\ fields[1].val = l
    <3>1. def.operation # "tmpCreate" => def.sourceLength = l.length
      BY <1>1, <1>8, Zenon DEF Asking, Brings
    <3> QED  BY <1>4, <2>1, <3>1, ReplyInStep
  <2>3. def.operation = "isOpen" => ValueOf(fields, "null", def.lobNull) = (lob'.mode # "closed")
    <3>1. SUFFICES ASSUME def.operation = "isOpen" PROVE ValueOf(fields, "null", def.lobNull) = (lob'.mode # "closed")
      BY Zenon
    <3>2. AsksNull(def) /\ null = (lob.mode # "closed") /\ lob'.mode = lob.mode
      BY <1>1, <1>8, <3>1, Zenon DEF Asking, Brings, Moved
    <3>3. ValueOf(fields, "null", def.lobNull) = null
      BY <3>2, NullAnswered
    <3> QED  BY <3>2, <3>3, Zenon
  <2>4. PICK f, r : f = fields /\ r = RPAOf(l, amount, null)
    BY Zenon
  <2> HIDE DEF fields
  <2>5. Matching(f)'
    <3>1. InStep(def, f)'
      BY <1>1, <2>2, <2>4, ZenonT(60) DEF InStep, ExpectedFields
    <3> QED  BY <1>1, <1>8, <2>2, <2>3, <2>4, <3>1, Zenon DEF Matching, Brings
  <2>6. IsRPA(r)'
    <3>1. r.type = "RPA" /\ r.fields = f
      BY <2>4, Zenon DEF RPAOf, fields
    <3> QED  BY <2>5, <3>1, Zenon DEF IsRPA
  <2>7. IsEnd(e)
    <3>1. CASE e = End(FALSE)
      <4>1. e.type = "OER" /\ e.error = FALSE
        BY <3>1, Zenon DEF End
      <4> QED  BY <4>1, Zenon DEF IsEnd
    <3>2. CASE e = [type |-> "STA"]
      BY <3>2, Zenon DEF IsEnd
    <3> QED  BY <3>1, <3>2, Zenon DEF Ends
  <2>8. Unread'
    <3>1. CASE replies' = <<r, e>>
      <4>1. Len(replies') = 2 /\ replies'[1] = r /\ replies'[2] = e
        BY <3>1, Zenon
      <4> QED  BY <2>6, <2>7, <3>1, <4>1, Zenon DEF Unread, IsRPA, IsEnd
    <3>2. ASSUME NEW m, IsLOBD(m), replies' = <<m, r, e>>
          PROVE  Unread'
      <4>1. Len(replies') = 3 /\ replies'[1] = m /\ replies'[2] = r /\ replies'[3] = e
        BY <3>2, Zenon
      <4> QED  BY <2>6, <2>7, <3>2, <4>1, Zenon DEF Unread, IsRPA, IsEnd, IsLOBD
    <3> QED  BY <1>8, <2>4, <3>1, <3>2, Zenon
  <2>9. Located' /\ (OpenMode' = OpenMode \/ (OpenMode # "closed" /\ OpenMode' = "closed")
                     \/ (OpenMode = "closed" /\ OpenMode' \in {"ReadOnly", "ReadWrite"}))
    BY <1>1, <1>2, <1>4, <1>8, Zenon DEF LobInv, Located, OpenMode, Moved
  <2>10. InCall'
    BY <1>1, <1>2, <2>8, Zenon DEF InCall
  <2> QED  BY <1>5, <1>6, <2>9, <2>10, Zenon DEF LobInv, Refined
<1>9. def.operation # "none"
  BY <1>1, Zenon DEF Asking
<1> QED  BY <1>3, <1>7, <1>8, <1>9, Outcomes, Zenon


LEMMA FailKeeps ==
  ASSUME LobInv, Fail
  PROVE  LobInv' /\ Refined
<1>1. /\ pc' = "idle" /\ callbacks' = {} /\ usable' = FALSE /\ UNCHANGED <<loc, lob, def>>
      /\ result' = Failed(def.operation)
  BY Zenon DEF Fail, Return
<1>2. Located' /\ Defined' /\ OpenMode' = OpenMode
  BY <1>1, Zenon DEF LobInv, Located, Defined, OpenMode
<1>3. InCall' /\ Told' = "none"
  BY <1>1, Zenon DEF InCall, Told, Failed
<1> QED  BY <1>2, <1>3, Zenon DEF LobInv, Refined

(* The message at the head of the reply says how much of it is left.       *)
LEMMA HeadOfReply ==
  ASSUME Unread
  PROVE  \/ \E m, r, e : /\ replies = <<m, r, e>> /\ Head(replies) = m /\ Tail(replies) = <<r, e>>
                         /\ m.type = "LOBD" /\ IsRPA(r) /\ IsEnd(e)
         \/ \E r, e : /\ replies = <<r, e>> /\ Head(replies) = r /\ Tail(replies) = <<e>>
                      /\ r.type = "RPA" /\ IsRPA(r) /\ IsEnd(e)
         \/ \E e : /\ replies = <<e>> /\ Head(replies) = e /\ Tail(replies) = <<>> /\ IsEnd(e)
                   /\ EndsWell(e) /\ def.operation = "isOpen" => def.lobNull = (lob.mode # "closed")
<1>1. \A m, r, e : Head(<<m, r, e>>) = m /\ Tail(<<m, r, e>>) = <<r, e>>
  OBVIOUS
<1>2. \A r, e : Head(<<r, e>>) = r /\ Tail(<<r, e>>) = <<e>>
  OBVIOUS
<1>3. \A e : Head(<<e>>) = e /\ Tail(<<e>>) = <<>>
  OBVIOUS
<1> DEFINE a == replies[1]
           b == replies[2]
           c == replies[3]
<1>4. \/ replies = <<a, b, c>> /\ IsLOBD(a) /\ IsRPA(b) /\ IsEnd(c)
      \/ replies = <<a, b>> /\ IsRPA(a) /\ IsEnd(b)
      \/ /\ replies = <<a>> /\ IsEnd(a)
         /\ EndsWell(a) /\ def.operation = "isOpen" => def.lobNull = (lob.mode # "closed")
  BY Zenon DEF Unread
<1> HIDE DEF a, b, c
<1>5. CASE replies = <<a, b, c>> /\ IsLOBD(a) /\ IsRPA(b) /\ IsEnd(c)
  <2>1. Head(replies) = a /\ Tail(replies) = <<b, c>>
    BY <1>1, <1>5, Zenon
  <2> QED  BY <1>5, <2>1, Zenon DEF IsLOBD
<1>6. CASE replies = <<a, b>> /\ IsRPA(a) /\ IsEnd(b)
  <2>1. Head(replies) = a /\ Tail(replies) = <<b>>
    BY <1>2, <1>6, Zenon
  <2>2. a.type = "RPA"
    BY <1>6, Zenon DEF IsRPA
  <2> QED  BY <1>6, <2>1, <2>2, Zenon
<1>7. CASE /\ replies = <<a>> /\ IsEnd(a)
           /\ EndsWell(a) /\ def.operation = "isOpen" => def.lobNull = (lob.mode # "closed")
  <2>1. Head(replies) = a /\ Tail(replies) = <<>>
    BY <1>3, <1>7, Zenon
  <2> QED  BY <1>7, <2>1, Zenon
<1> QED  BY <1>4, <1>5, <1>6, <1>7, Zenon

(* What a definition reads depends on what its request points at.          *)
LEMMA SameFieldsRead ==
  ASSUME NEW c, NEW d, NEW fields, InStep(c, fields), d.operation = c.operation,
         d.sourceLength = c.sourceLength, d.charsetID = c.charsetID,
         d.sendLobAmt = c.sendLobAmt, d.nullO2U = c.nullO2U
  PROVE  InStep(d, fields)
BY ZenonT(30) DEF InStep, ExpectedFields

(* The call goes on reading its reply.                                     *)
LEMMA PullLOBDKeeps ==
  ASSUME LobInv, PullLOBD
  PROVE  LobInv' /\ Refined
<1>1. /\ pc = "pull" /\ pc' = "pull" /\ Head(replies).type = "LOBD" /\ replies' = Tail(replies)
      /\ UNCHANGED <<loc, lob>> /\ Unread /\ DOMAIN def = DefinitionFields
      /\ \E x : def' = [def EXCEPT !.buffer = x]
  BY Zenon DEF PullLOBD, LobInv, InCall, Defined
<1>2. /\ DOMAIN def' = DefinitionFields /\ def'.operation = def.operation
      /\ def'.sourceLength = def.sourceLength /\ def'.charsetID = def.charsetID
      /\ def'.sendLobAmt = def.sendLobAmt /\ def'.nullO2U = def.nullO2U /\ def'.lobNull = def.lobNull
  BY <1>1, Zenon DEF DefinitionFields
<1>3. Located' /\ Defined' /\ OpenMode' = OpenMode /\ Told' = "none"
  BY <1>1, <1>2, Zenon DEF LobInv, Located, Defined, OpenMode, Told
<1>4. PICK r, e : replies' = <<r, e>> /\ IsRPA(r) /\ IsEnd(e)
  BY <1>1, HeadOfReply, Zenon DEF IsEnd
<1>5. IsRPA(r)'
  <2>1. InStep(def, r.fields)'
    <3>1. InStep(def, r.fields)
      BY <1>4, Zenon DEF IsRPA, Matching
    <3> QED  BY <1>2, <3>1, SameFieldsRead, Zenon
  <2> QED  BY <1>1, <1>2, <1>4, <2>1, Zenon DEF IsRPA, Matching
<1>6. Unread'
  <2>1. Len(replies') = 2 /\ replies'[1] = r /\ replies'[2] = e
    BY <1>4, Zenon
  <2> QED  BY <1>4, <1>5, <2>1, Zenon DEF Unread, IsRPA, IsEnd
<1>7. InCall'
  BY <1>1, <1>2, <1>6, Zenon DEF LobInv, InCall
<1> QED  BY <1>3, <1>7, Zenon DEF LobInv, Refined

LEMMA PullRPAKeeps ==
  ASSUME LobInv, PullRPA
  PROVE  LobInv' /\ Refined
<1> DEFINE fields == Head(replies).fields
<1>1. /\ pc = "pull" /\ Head(replies).type = "RPA" /\ Unread /\ DOMAIN def = DefinitionFields
      /\ def.operation \in {"open", "close", "isOpen"} => ~isLocal(loc) /\ ~isQuasiLocator(loc)
  BY Zenon DEF PullRPA, LobInv, InCall, Defined
<1>2. PICK r, e : Head(replies) = r /\ Tail(replies) = <<e>> /\ IsRPA(r) /\ IsEnd(e)
  BY <1>1, HeadOfReply, Zenon DEF IsEnd
<1>3. Matching(fields)
  BY <1>2, Zenon DEF IsRPA
<1>4. /\ pc' = "pull" /\ replies' = <<e>> /\ def' = Answered(def, fields) /\ loc' = fields[1].val
      /\ IF def.operation = "tmpCreate" THEN lob' = [units |-> <<>>, mode |-> "closed"] ELSE lob' = lob
  BY <1>1, <1>2, <1>3, Zenon DEF PullRPA, Matching
<1> HIDE DEF fields
<1>5. /\ DOMAIN def' = DefinitionFields /\ def'.operation = def.operation /\ def'.sourceLength = def.sourceLength
      /\ def'.lobNull = ValueOf(fields, "null", def.lobNull)
  BY <1>1, <1>4, Zenon DEF Answered, DefinitionFields
<1>6. Defined' /\ Told' = "none"
  BY <1>4, <1>5, Zenon DEF LobInv, Defined, Told
<1>7. Unread'
  <2>1. Len(replies') = 1 /\ replies'[1] = e
    BY <1>4, Zenon
  <2>2. def'.operation = "isOpen" => def'.lobNull = (lob'.mode # "closed")
    BY <1>3, <1>4, <1>5, Zenon DEF Matching
  <2> QED  BY <1>2, <1>4, <2>1, <2>2, Zenon DEF Unread, IsEnd
<1>8. CASE def.operation = "tmpCreate"
  <2>1. /\ loc' \in LocatorFlags /\ LocalMode(loc') = "closed" /\ ~isQuasiLocator(loc')
    BY <1>3, <1>4, <1>8, NewLocator, LocatorsAssumption, SMTT(30) DEF Matching
  <2>2. DOMAIN lob' = {"units", "mode"} /\ lob'.mode = "closed"
    BY <1>4, <1>8, SMTT(30)
  <2>3. Located' /\ OpenMode' = "closed"
    BY <2>1, <2>2, Zenon DEF Located, OpenMode
  <2>4. InCall'
    BY <1>4, <1>5, <1>7, <1>8, Zenon DEF InCall
  <2> QED  BY <1>6, <2>3, <2>4, Zenon DEF LobInv, Refined
<1>9. CASE def.operation # "tmpCreate"
  <2>1. UNCHANGED <<loc, lob>>
    BY <1>3, <1>4, <1>9, Zenon DEF Matching
  <2>2. Located' /\ OpenMode' = OpenMode
    BY <2>1, Zenon DEF LobInv, Located, OpenMode
  <2>3. InCall'
    BY <1>1, <1>4, <1>5, <1>7, <2>1, Zenon DEF InCall
  <2> QED  BY <1>6, <2>2, <2>3, Zenon DEF LobInv, Refined
<1> QED  BY <1>8, <1>9, Zenon


LEMMA PullEndKeeps ==
  ASSUME LobInv, PullEnd
  PROVE  LobInv' /\ Refined
<1>1. /\ pc = "pull" /\ Head(replies).type \in {"OER", "STA"} /\ Unread
      /\ pc' = "idle" /\ callbacks' = {} /\ replies' = Tail(replies) /\ UNCHANGED <<loc, lob, def>>
      /\ result' = IF Head(replies).type = "OER" /\ Head(replies).error
                   THEN Failed(def.operation) ELSE Completed
      /\ def.operation \in {"open", "close", "isOpen"} => ~isLocal(loc) /\ ~isQuasiLocator(loc)
  BY Zenon DEF PullEnd, Return, LobInv, InCall
<1>2. PICK e : /\ Head(replies) = e /\ Tail(replies) = <<>> /\ IsEnd(e)
               /\ EndsWell(e) /\ def.operation = "isOpen" => def.lobNull = (lob.mode # "closed")
  BY <1>1, HeadOfReply, Zenon DEF IsEnd, EndsWell
<1>3. Located' /\ Defined' /\ OpenMode' = OpenMode
  BY <1>1, Zenon DEF LobInv, Located, Defined, OpenMode
<1>4. InCall'
  BY <1>1, <1>2, Zenon DEF InCall
<1>5. Told' \in {"none", IF OpenMode = "closed" THEN "no" ELSE "yes"}
  <2>1. CASE def.operation # "isOpen"
    <3>1. Failed(def.operation).op = def.operation /\ Completed.op = def.operation
      BY Zenon DEF Completed, Failed, Ok
    <3> QED  BY <1>1, <2>1, <3>1, Zenon DEF Told
  <2>2. CASE def.operation = "isOpen" /\ result' = Failed(def.operation)
    BY <2>2, Zenon DEF Told, Failed
  <2>3. CASE def.operation = "isOpen" /\ result' # Failed(def.operation)
    <3>1. result' = Completed /\ EndsWell(e)
      BY <1>1, <1>2, <2>3, Zenon DEF EndsWell, IsEnd
    <3>2. Completed = Ok("isOpen", def.lobNull)
      BY <2>3, Zenon DEF Completed
    <3>3. result'.op = "isOpen" /\ result'.ok = TRUE /\ result'.val = (lob.mode # "closed")
      BY <1>2, <2>3, <3>1, <3>2, Zenon DEF Ok
    <3>4. OpenMode = lob.mode
      BY <1>1, <2>3, Zenon DEF OpenMode
    <3> QED  BY <1>1, <3>3, <3>4, Zenon DEF Told
  <2> QED  BY <2>1, <2>2, <2>3, Zenon
<1> QED  BY <1>3, <1>4, <1>5, Zenon DEF LobInv, Refined

-----------------------------------------------------------------------------
(* The theorems. *)

LEMMA LobInitHolds ==
  ASSUME LobInit
  PROVE  LobInv /\ OpenMode = "closed" /\ Told = "none"
<1>1. /\ loc \in LocatorFlags /\ (isLocal(loc) => LocalMode(loc) = "closed") /\ loc.length \in Nat
      /\ DOMAIN lob = {"units", "mode"} /\ lob.mode = "closed"
      /\ pc = "idle" /\ callbacks = {} /\ replies = <<>> /\ result = Ok("none", 0) /\ def = NoCall
  BY LocatorsAssumption, Zenon DEF LobInit, LocatorFlags
<1>2. Located /\ OpenMode = "closed"
  BY <1>1, Zenon DEF Located, OpenMode
<1>3. Defined
  BY <1>1, Zenon DEF Defined, NoCall, Definition, DefinitionFields, Operations
<1>4. InCall /\ Told = "none"
  BY <1>1, Zenon DEF InCall, Told, Ok
<1> QED  BY <1>2, <1>3, <1>4, Zenon DEF LobInv

LEMMA LobNextKeeps ==
  ASSUME LobInv, [LobNext]_lobVars
  PROVE  LobInv' /\ (Refined \/ UNCHANGED <<OpenMode, Told>>)
<1>1. CASE UNCHANGED lobVars
  <2>1. UNCHANGED <<loc, lob, def, pc, callbacks, replies, usable, result>>
    BY <1>1, Zenon DEF lobVars
  <2>2. UNCHANGED <<OpenMode, Told>>
    BY <2>1, Zenon DEF OpenMode, Told
  <2>3. Located' /\ Defined'
    BY <2>1, Zenon DEF LobInv, Located, Defined, OpenMode
  <2>4. InCall'
    <3>1. (pc \in {"push", "flush"} => Asking(def)')
      BY <2>1, Zenon DEF LobInv, InCall, Asking
    <3>2. pc = "pull" => Unread'
      BY <2>1, ZenonT(30) DEF LobInv, InCall, Unread, IsRPA, Matching
    <3> QED  BY <2>1, <3>1, <3>2, Zenon DEF LobInv, InCall
  <2> QED  BY <2>2, <2>3, <2>4, Zenon DEF LobInv
<1>2. CASE Operation
  BY <1>2, OpenKeeps, CloseKeeps, IsOpenKeeps, LengthKeeps, TrimKeeps, CreateKeeps, WriteKeeps, ReadKeeps, Zenon
  DEF Operation
<1>3. CASE Exchange
  BY <1>3, PushKeeps, FlushKeeps, PullLOBDKeeps, PullRPAKeeps, PullEndKeeps, Zenon DEF Exchange
<1>4. CASE Fail
  BY <1>4, FailKeeps, Zenon
<1>5. CASE Finished
  BY <1>1, <1>5, Zenon DEF Finished
<1> QED  BY <1>1, <1>2, <1>3, <1>4, <1>5, Zenon DEF LobNext

(* The invariant of a call: the definition of the call, the locator and    *)
(* what is left of the reply fit each other in every state.                *)
THEOREM LobInvariant == LobSpec => []LobInv
<1>1. LobInit => LobInv
  BY LobInitHolds, Zenon
<1>2. LobInv /\ [LobNext]_lobVars => LobInv'
  BY LobNextKeeps, Zenon
<1> QED  BY <1>1, <1>2, PTL DEF LobSpec

(* A call that returns on a usable connection leaves neither a callback    *)
(* in the streamer nor a part of its reply: ttiLobRpa.UnmarshalFrom reads, *)
(* from the definition the request was written from, exactly the fields    *)
(* the server wrote, for every operation, locator length and answer.       *)
THEOREM CallLeavesNothingAlways == LobSpec => []CallLeavesNothing
<1>1. LobInv => CallLeavesNothing
  BY Zenon DEF LobInv, InCall, CallLeavesNothing
<1> QED  BY <1>1, LobInvariant, PTL

(* lobExecutor.open, close and isOpen implement one open state, whether    *)
(* it is kept in the flags of the locator or on the server.                *)
THEOREM AccessImplementsHandle == LobSpec => ImplementsHandle
<1>1. LobInit => Handle!Init
  BY LobInitHolds, Zenon DEF Handle!Init, OpenMode
<1>2. LobInv /\ [LobNext]_lobVars =>
        [Handle!Next]_<<IF isLocal(loc) THEN LocalMode(loc) ELSE lob.mode, Told>>
  <2>1. SUFFICES ASSUME LobInv, [LobNext]_lobVars
                 PROVE  [Handle!Next]_<<OpenMode, Told>>
    BY Zenon DEF OpenMode
  <2>2. CASE UNCHANGED <<OpenMode, Told>>
    BY <2>2, Zenon
  <2>3. CASE OpenMode' = OpenMode /\ Told' = "none"
    BY <2>3, Zenon DEF Handle!Next, Handle!Other, OpenMode
  <2>4. CASE OpenMode' = OpenMode /\ Told' = (IF OpenMode = "closed" THEN "no" ELSE "yes")
    BY <2>4, Zenon DEF Handle!Next, Handle!Ask, OpenMode
  <2>5. CASE OpenMode # "closed" /\ OpenMode' = "closed" /\ Told' = "none"
    BY <2>5, Zenon DEF Handle!Next, Handle!Close, OpenMode
  <2>6. CASE OpenMode = "closed" /\ OpenMode' \in {"ReadOnly", "ReadWrite"} /\ Told' = "none"
    <3>1. Handle!Open(OpenMode')
      BY <2>6, Zenon DEF Handle!Open, OpenMode
    <3> QED  BY <2>6, <3>1, Zenon DEF Handle!Next
  <2> QED  BY <2>1, <2>2, <2>3, <2>4, <2>5, <2>6, LobNextKeeps, Zenon DEF Refined
<1> QED  BY <1>1, <1>2, LobInvariant, PTL DEF LobSpec, ImplementsHandle, Handle!Spec

-----------------------------------------------------------------------------
(* The text of a LOB. *)


(* The quotient and the remainder of a division by a power of two.         *)
LEMMA Division ==
  ASSUME NEW n \in Int, 0 <= n, NEW d \in Int, d = 256 \/ d = 1024
  PROVE  /\ n \div d \in Int /\ n % d \in Int
         /\ 0 <= n \div d /\ 0 <= n % d /\ n % d < d
         /\ n = d * (n \div d) + (n % d)
<1>1. CASE d = 256
  BY <1>1, Z3
<1>2. CASE d = 1024
  BY <1>2, Z3
<1> QED  BY <1>1, <1>2, Z3

(* A code unit written by writeUTF16ToBuffer is read back by               *)
(* readUTF16CodeUnits, in either byte order, and takes two bytes.          *)
THEOREM CodeUnitRoundTrip ==
  ASSUME NEW u \in Int, 0 <= u, u < 65536, NEW littleEndian \in BOOLEAN
  PROVE  /\ Len(BytesOfUnit(u, littleEndian)) = bytesPerUTF16CodeUnit
         /\ \A i \in 1..2 : BytesOfUnit(u, littleEndian)[i] \in Int
                              /\ 0 <= BytesOfUnit(u, littleEndian)[i]
                              /\ BytesOfUnit(u, littleEndian)[i] < 256
         /\ UnitOfBytes(BytesOfUnit(u, littleEndian)[1], BytesOfUnit(u, littleEndian)[2],
                        littleEndian) = u
<1> DEFINE h == u \div 256
           l == u % 256
<1>1. h \in Int /\ l \in Int /\ 0 <= h /\ 0 <= l /\ l < 256 /\ u = 256 * h + l
  BY Division, Z3
<1>2. h < 256
  BY <1>1, Z3
<1>3. CASE littleEndian
  <2>1. BytesOfUnit(u, littleEndian) = <<l, h>>
    BY <1>3, Z3 DEF BytesOfUnit
  <2>2. UnitOfBytes(l, h, littleEndian) = u
    BY <1>1, <1>3, Z3 DEF UnitOfBytes
  <2> HIDE DEF h, l
  <2> QED  BY <1>1, <1>2, <2>1, <2>2, Z3 DEF bytesPerUTF16CodeUnit
<1>4. CASE ~littleEndian
  <2>1. BytesOfUnit(u, littleEndian) = <<h, l>>
    BY <1>4, Z3 DEF BytesOfUnit
  <2>2. UnitOfBytes(h, l, littleEndian) = u
    BY <1>1, <1>4, Z3 DEF UnitOfBytes
  <2> HIDE DEF h, l
  <2> QED  BY <1>1, <1>2, <2>1, <2>2, Z3 DEF bytesPerUTF16CodeUnit
<1> QED  BY <1>3, <1>4, Z3

(* The code units of a character give the character back: one of the basic *)
(* plane is its own unit and no surrogate, a supplementary one is a pair   *)
(* that utf16.Decode takes for a pair.                                     *)
THEOREM RuneRoundTrip ==
  ASSUME NEW r \in Int, 0 <= r, r <= MaxRune, ~IsSurrogate(r)
  PROVE  /\ r < Supplementary =>
              Len(UnitsOf(r)) = 1 /\ ~IsSurrogate(UnitsOf(r)[1]) /\ RuneOfUnit(UnitsOf(r)[1]) = r
         /\ r >= Supplementary =>
              /\ Len(UnitsOf(r)) = 2
              /\ IsPair(UnitsOf(r)[1], UnitsOf(r)[2])
              /\ RuneOfPair(UnitsOf(r)[1], UnitsOf(r)[2]) = r
<1>1. CASE r < Supplementary
  <2>1. UnitsOf(r) = <<r>>
    BY <1>1, Z3 DEF UnitsOf, MaxRune, Supplementary
  <2>2. RuneOfUnit(r) = r /\ r < Supplementary
    BY <1>1, Z3 DEF RuneOfUnit
  <2> QED  BY <2>1, <2>2, Z3 DEF Supplementary
<1>2. CASE r >= Supplementary
  <2> DEFINE q == r - Supplementary
             h == q \div 1024
             l == q % 1024
  <2>1. q \in Int /\ 0 <= q /\ q <= 1048575 /\ r = q + 65536
    BY <1>2, Z3 DEF Supplementary, MaxRune
  <2>2. UnitsOf(r) = <<Surrogate1 + h, Surrogate2 + l>>
    BY <1>2, Z3 DEF UnitsOf, Supplementary, MaxRune
  <2> HIDE DEF q
  <2>3. h \in Int /\ l \in Int /\ 0 <= h /\ 0 <= l /\ l < 1024 /\ q = 1024 * h + l
    BY <2>1, Division, Z3
  <2>4. h < 1024
    BY <2>1, <2>3, Z3
  <2> HIDE DEF h, l
  <2>5. IsPair(Surrogate1 + h, Surrogate2 + l)
    BY <2>3, <2>4, Z3 DEF IsPair, Surrogate1, Surrogate2, Surrogate3
  <2>6. RuneOfPair(Surrogate1 + h, Surrogate2 + l) = r
    BY <2>1, <2>3, Z3 DEF RuneOfPair, Surrogate1, Surrogate2, Supplementary
  <2>7. Surrogate1 + h \in Int /\ Surrogate2 + l \in Int
    BY <2>3, Z3 DEF Surrogate1, Surrogate2
  <2> HIDE DEF q
  <2> QED  BY <1>2, <2>2, <2>5, <2>6, <2>7, Z3 DEF Supplementary
<1> QED  BY <1>1, <1>2, Z3 DEF Supplementary

(* getByteBufferSizeForConversion leaves room for every character of the   *)
(* basic plane, in UTF-16 for variable-width locators and in UTF-8 for the *)
(* others; a supplementary character does not fit.                         *)
THEOREM BufferRoom ==
  ASSUME NEW r \in Int, 0 <= r, r <= MaxRune, ~IsSurrogate(r)
  PROVE  /\ r < Supplementary <=>
              bytesPerUTF16CodeUnit * Len(UnitsOf(r)) <= getByteBufferSizeForConversion(TRUE, 1)
         /\ r < Supplementary <=> Utf8Length(r) <= getByteBufferSizeForConversion(FALSE, 1)
<1>1. /\ r < Supplementary => Len(UnitsOf(r)) = 1
      /\ r >= Supplementary => Len(UnitsOf(r)) = 2
  BY RuneRoundTrip, Z3
<1>2. /\ getByteBufferSizeForConversion(TRUE, 1) = 2
      /\ getByteBufferSizeForConversion(FALSE, 1) = 3
  BY Z3 DEF getByteBufferSizeForConversion, bytesPerUTF16CodeUnit
<1>3. r < Supplementary <=> ~(r >= Supplementary)
  BY Z3 DEF Supplementary
<1>4. r < Supplementary <=> Utf8Length(r) <= 3
  BY Z3 DEF Utf8Length, Supplementary
<1>5. CASE r < Supplementary
  <2>1. Len(UnitsOf(r)) = 1
    BY <1>1, <1>5, Zenon
  <2>2. bytesPerUTF16CodeUnit * Len(UnitsOf(r)) <= 2
    BY <2>1, Z3 DEF bytesPerUTF16CodeUnit
  <2>3. Utf8Length(r) <= 3
    BY <1>4, <1>5, Zenon
  <2> QED  BY <1>2, <1>5, <2>2, <2>3, Zenon
<1>6. CASE r >= Supplementary
  <2>1. ~(bytesPerUTF16CodeUnit * Len(UnitsOf(r)) <= 2) /\ ~(Utf8Length(r) <= 3)
    <3>1. Len(UnitsOf(r)) = 2
      BY <1>1, <1>6, Zenon
    <3>2. ~(bytesPerUTF16CodeUnit * Len(UnitsOf(r)) <= 2)
      BY <3>1, Z3 DEF bytesPerUTF16CodeUnit
    <3> QED  BY <1>3, <1>4, <1>6, <3>2, Zenon
  <2> QED  BY <1>2, <1>3, <1>6, <2>1, Zenon
<1> QED  BY <1>3, <1>5, <1>6, Zenon

=============================================================================
