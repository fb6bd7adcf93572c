----------------------- MODULE PreparedStatementProofs -----------------------
(***************************************************************************)
(* The three invariants of PreparedStatement, for any statements, binds,   *)
(* cursors and limits.                                                     *)
(*                                                                         *)
(* A cursor is accounted for because the server's cursor names the one     *)
(* statement that holds it (Held), and the queue of OCCA messages names    *)
(* open cursors no statement holds, each once (Queue).  Descriptors fit    *)
(* because what one executor remembers is covered by what the cursor was   *)
(* told or the request in flight carries (Told).                           *)
(***************************************************************************)
EXTENDS PreparedStatement, FiniteSetTheorems, TLAPS

-----------------------------------------------------------------------------
(* The inductive invariant.                                                *)

AnyOac == Oacs \union {NoOac}
StmtStates == [st : {"none", "open"}, shelf : BOOLEAN, cursorID : 0..MaxCursor]
ExecutorStates == [parse : BOOLEAN, commit : BOOLEAN, previousOacs : AnyOac]
Cursors == [of : Stmts \union {NoStmt, SetTransaction}, oac : AnyOac]
ExecRequests ==
  [kind : ExecKinds, s : Stmts, e : Executors, sql : BOOLEAN, cursorID : 0..MaxCursor,
   oac : AnyOac, val : AnyOac, commit : BOOLEAN]

TypeInv ==
  /\ stmt \in [Stmts -> StmtStates]
  /\ executor \in [Stmts -> [Executors -> ExecutorStates]]
  /\ tx \in [registered : BOOLEAN, sql : BOOLEAN]
  /\ outgoing \in Seq(Ids)
  /\ cursor \in [Ids -> Cursors]
  /\ req \in Requests

InExec == req.kind \in ExecKinds

\* A statement's cursor holds the statement's SQL; a statement that is not
\* prepared has none.
Held ==
  /\ \A s \in Stmts : stmt[s].cursorID # 0 => cursor[stmt[s].cursorID].of = s
  /\ \A s \in Stmts : stmt[s].st = "none" => stmt[s].cursorID = 0

\* A queued OCCA names an open cursor that no statement holds, and no other
\* OCCA names.
Queue ==
  /\ \A c \in Range(outgoing) : cursor[c] # Closed
  /\ \A s \in Stmts : stmt[s].cursorID \notin Range(outgoing)
  /\ IsInjective(outgoing)

\* No open cursor is forgotten.
Known ==
  \A c \in Ids : cursor[c] # Closed =>
    \/ \E s \in Stmts : stmt[s].cursorID = c
    \/ c \in Range(outgoing)

\* The request in flight is one of an open statement, made of what its executor
\* remembers.
InFlight ==
  InExec =>
    /\ conn = "inuse" /\ stmt[req.s].st = "open" /\ req.cursorID = stmt[req.s].cursorID
    /\ req.oac # NoOac => req.oac = executor[req.s][req.e].previousOacs
    /\ req.val # NoOac => Covers(executor[req.s][req.e].previousOacs, req.val)
    /\ req.kind = "exec" => req.val \in Values(req.s)
    /\ req.s \in Select => req.e = "query"
    /\ req.kind = "define" => req.s \in Select /\ req.oac = NoOac

\* Only statements with binds remember descriptors, and queries have one executor.
Remembered ==
  \A s \in Stmts :
    /\ s \notin Bound => \A e \in Executors : executor[s][e].previousOacs = NoOac
    /\ s \in Select => executor[s]["exec"] = NewExecutor

\* The descriptor the server goes by for the statement s.
Told(s) == IF InExec /\ req.s = s /\ req.oac # NoOac THEN req.oac
           ELSE cursor[stmt[s].cursorID].oac

\* What the one executor of a statement remembers, the server has been told.
Covered ==
  \A s \in Stmts : \A e, o \in Executors :
    /\ e # o /\ executor[s][o] = NewExecutor /\ stmt[s].cursorID # 0
    /\ executor[s][e].previousOacs # NoOac
    => Covers(Told(s), executor[s][e].previousOacs)

\* No request of a registered transaction commits.
NoCommit ==
  /\ tx.sql => tx.registered
  /\ durable = {}
  /\ tx.registered /\ InExec /\ req.s \notin Select => ~req.commit
  /\ req.kind = "begin" => tx.registered /\ ~tx.sql

Cur == TypeInv /\ Held /\ Queue /\ Known /\ InFlight
Inv == Cur /\ Remembered /\ Covered

-----------------------------------------------------------------------------
(* Types.                                                                  *)

LEMMA ConstantsFit ==
  /\ NoStmt \notin Stmts /\ SetTransaction \notin Stmts /\ SetTransaction # NoStmt
  /\ MaxCursor \in Nat \ {0} /\ 0 \notin Ids /\ 0..MaxCursor = Ids \union {0}
  /\ NoOac \notin Oacs /\ Closed \in Cursors
  /\ \A s \in Stmts : Values(s) \subseteq AnyOac
  /\ \A s \in Stmts : \A v \in Values(s) : v = NoOac <=> s \notin Bound
<1>1. NoOac \notin Oacs
  BY ConstantsAssumption, Zenon DEF NoOac, Oacs
<1>2. NoStmt \notin Stmts /\ SetTransaction \notin Stmts /\ SetTransaction # NoStmt
  BY ConstantsAssumption, Zenon DEF NoStmt, SetTransaction
<1>3. MaxCursor \in Nat \ {0} /\ 0 \notin Ids /\ 0..MaxCursor = Ids \union {0}
  <2>1. MaxCursor \in Nat \ {0}
    BY ConstantsAssumption, Zenon
  <2>2. \A n : n \in 0..MaxCursor <=> n \in (1..MaxCursor) \union {0}
    BY <2>1
  <2>3. 0..MaxCursor = (1..MaxCursor) \union {0}
    BY <2>2, Zenon
  <2> QED  BY <2>1, <2>3 DEF Ids
<1>4. Closed \in Cursors
  BY Zenon DEF Closed, Cursors, AnyOac
<1>5. BindValues \subseteq Oacs
  BY ConstantsAssumption, Zenon
<1>6. /\ \A s \in Stmts : Values(s) \subseteq AnyOac
      /\ \A s \in Stmts : \A v \in Values(s) : v = NoOac <=> s \notin Bound
  BY <1>1, <1>5, Zenon DEF Values, AnyOac
<1> QED  BY <1>1, <1>2, <1>3, <1>4, <1>6, Zenon

LEMMA OacFields ==
  ASSUME NEW x \in AnyOac
  PROVE  /\ x.len \in Nat
         /\ x # NoOac => x \in Oacs /\ x.type \in Types /\ x.type # "noType"
         /\ x = NoOac => x.type = "noType" /\ x.len = 0
<1>1. MaxLen \in Nat /\ "noType" \notin Types
  BY ConstantsAssumption, Zenon
<1>2. CASE x = NoOac
  BY <1>2, Zenon DEF NoOac
<1>3. CASE x # NoOac
  <2>1. x \in Oacs
    BY <1>3, Zenon DEF AnyOac
  <2>2. x.len \in 1..MaxLen /\ x.type \in Types
    BY <2>1, Zenon DEF Oacs
  <2> QED  BY <1>1, <1>3, <2>1, <2>2
<1> QED  BY <1>2, <1>3, Zenon

LEMMA InExecRequest ==
  ASSUME req \in Requests, InExec
  PROVE  req \in ExecRequests
BY DEF Requests, ExecRequests, AnyOac, InExec, ExecKinds, TxKinds, NoReq

LEMMA NotInExec ==
  /\ NoReq \in Requests /\ NoReq.kind = "none"
  /\ \A r \in ExecRequests : r \in Requests
  /\ \A k \in TxKinds, m \in 0..1 : [kind |-> k, more |-> m] \in Requests
BY Zenon DEF Requests, ExecRequests, AnyOac, NoReq

LEMMA CurrentOacType ==
  ASSUME NEW p \in AnyOac, NEW v \in AnyOac
  PROVE  /\ CurrentOac(p, v) \in AnyOac
         /\ v = NoOac <=> CurrentOac(p, v) = NoOac
         /\ v # NoOac => Covers(CurrentOac(p, v), v)
<1>1. CASE v = NoOac
  BY <1>1, Zenon DEF CurrentOac
<1>2. CASE v # NoOac
  <2>1. v \in [type : Types, len : 1..MaxLen]
    BY <1>2, Zenon DEF AnyOac, Oacs
  <2>2. p.len \in 0..MaxLen /\ MaxLen \in Nat
    <3>1. MaxLen \in Nat
      BY ConstantsAssumption, Zenon
    <3>2. CASE p \in Oacs
      BY <3>1, <3>2 DEF Oacs
    <3>3. CASE p = NoOac
      BY <3>1, <3>3 DEF NoOac
    <3> QED  BY <3>1, <3>2, <3>3, Zenon DEF AnyOac
  <2>3. CurrentOac(p, v) = [type |-> v.type, len |-> IF p.len > v.len THEN p.len ELSE v.len]
    BY <1>2, <2>1, Zenon DEF CurrentOac
  <2>4. CurrentOac(p, v) \in [type : Types, len : 1..MaxLen]
    BY <2>1, <2>2, <2>3
  <2>5. CurrentOac(p, v) \in Oacs /\ NoOac \notin Oacs
    BY <2>4, ConstantsFit, Zenon DEF Oacs
  <2>6. Covers(CurrentOac(p, v), v)
    BY <2>1, <2>2, <2>3 DEF Covers
  <2> QED  BY <1>2, <2>5, <2>6, Zenon DEF AnyOac
<1> QED  BY <1>1, <1>2, Zenon

-----------------------------------------------------------------------------
(* Queues of cursors.                                                      *)

LEMMA Elements ==
  ASSUME NEW S, NEW q \in Seq(S)
  PROVE  Len(q) \in Nat /\ DOMAIN q = 1 .. Len(q) /\ \A i \in 1 .. Len(q) : q[i] \in S
OBVIOUS

LEMMA QueueElements ==
  ASSUME NEW q \in Seq(Ids)
  PROVE  Range(q) \subseteq Ids
BY Elements DEF Range

LEMMA EmptyQueue ==
  << >> \in Seq(Ids) /\ Range(<< >>) = {} /\ IsInjective(<< >>)
BY DEF Range, IsInjective

LEMMA QueueOfOne ==
  ASSUME NEW c \in Ids
  PROVE  <<c>> \in Seq(Ids) /\ Range(<<c>>) = {c} /\ IsInjective(<<c>>)
BY DEF Range, IsInjective

LEMMA AppendedQueue ==
  ASSUME NEW q \in Seq(Ids), NEW c \in Ids
  PROVE  /\ Append(q, c) \in Seq(Ids) /\ Range(Append(q, c)) = Range(q) \union {c}
         /\ IsInjective(q) /\ c \notin Range(q) => IsInjective(Append(q, c))
<1> DEFINE a == Append(q, c)
<1>1. /\ a \in Seq(Ids) /\ Len(a) = Len(q) + 1 /\ a[Len(q) + 1] = c
      /\ \A i \in 1 .. Len(q) : a[i] = q[i]
  BY Elements
<1>2. Len(q) \in Nat /\ DOMAIN q = 1 .. Len(q)
  BY Elements, Zenon
<1> HIDE DEF a
<1>3. DOMAIN a = 1 .. Len(q) + 1
  BY <1>1, Elements, Zenon
<1>4. \A i : i \in DOMAIN a <=> i \in DOMAIN q \/ i = Len(q) + 1
  BY <1>2, <1>3
<1>5. Range(a) = Range(q) \union {c}
  BY <1>1, <1>2, <1>4, Zenon DEF Range
<1>6. ASSUME IsInjective(q), c \notin Range(q)
      PROVE  IsInjective(a)
  <2>1. \A i \in DOMAIN q : q[i] # c
    BY <1>6, Zenon DEF Range
  <2> QED  BY <1>1, <1>2, <1>4, <1>6, <2>1, Zenon DEF IsInjective
<1> QED  BY <1>1, <1>5, <1>6, Zenon DEF a

LEMMA JoinedQueue ==
  ASSUME NEW q \in Seq(Ids), NEW p \in Seq(Ids)
  PROVE  /\ q \o p \in Seq(Ids) /\ Range(q \o p) = Range(q) \union Range(p)
         /\ IsInjective(q) /\ IsInjective(p) /\ Range(q) \intersect Range(p) = {} => IsInjective(q \o p)
<1> DEFINE a == q \o p
<1>1. /\ a \in Seq(Ids) /\ Len(a) = Len(q) + Len(p)
      /\ \A i \in 1 .. Len(q) + Len(p) : a[i] = IF i <= Len(q) THEN q[i] ELSE p[i - Len(q)]
  BY Elements
<1>2. Len(q) \in Nat /\ DOMAIN q = 1 .. Len(q) /\ Len(p) \in Nat /\ DOMAIN p = 1 .. Len(p)
  BY Elements, Zenon
<1> HIDE DEF a
<1>3. DOMAIN a = 1 .. Len(q) + Len(p)
  BY <1>1, Elements, Zenon
<1>4. \A i \in DOMAIN q : i \in DOMAIN a /\ a[i] = q[i]
  BY <1>1, <1>2, <1>3
<1>5. \A i \in DOMAIN p : Len(q) + i \in DOMAIN a /\ a[Len(q) + i] = p[i]
  <2> SUFFICES ASSUME NEW i \in DOMAIN p
               PROVE  Len(q) + i \in DOMAIN a /\ a[Len(q) + i] = p[i]
    BY Zenon
  <2>1. /\ Len(q) + i \in 1 .. Len(q) + Len(p) /\ ~(Len(q) + i <= Len(q))
        /\ (Len(q) + i) - Len(q) = i
    BY <1>2
  <2> QED  BY <1>1, <1>3, <2>1, Zenon
<1>6. \A k \in DOMAIN a : \/ k \in DOMAIN q
                          \/ k - Len(q) \in DOMAIN p /\ Len(q) + (k - Len(q)) = k
  BY <1>2, <1>3
<1>7. Range(a) = Range(q) \union Range(p)
  <2>1. \A x \in Range(a) : x \in Range(q) \union Range(p)
    BY <1>4, <1>5, <1>6 DEF Range
  <2>2. \A x \in Range(q) \union Range(p) : x \in Range(a)
    BY <1>4, <1>5, Zenon DEF Range
  <2> QED  BY <2>1, <2>2, Zenon
<1>8. ASSUME IsInjective(q), IsInjective(p), Range(q) \intersect Range(p) = {},
             NEW i \in DOMAIN a, NEW j \in DOMAIN a, a[i] = a[j]
      PROVE  i = j
  <2>1. \A m \in DOMAIN q, n \in DOMAIN p : q[m] # p[n]
    BY <1>8, Zenon DEF Range
  <2>2. CASE i \in DOMAIN q /\ j \in DOMAIN q
    BY <1>4, <1>8, <2>2, Zenon DEF IsInjective
  <2>3. CASE i \in DOMAIN q /\ j - Len(q) \in DOMAIN p /\ Len(q) + (j - Len(q)) = j
    BY <1>4, <1>5, <1>8, <2>1, <2>3
  <2>4. CASE j \in DOMAIN q /\ i - Len(q) \in DOMAIN p /\ Len(q) + (i - Len(q)) = i
    BY <1>4, <1>5, <1>8, <2>1, <2>4
  <2>5. CASE /\ i - Len(q) \in DOMAIN p /\ Len(q) + (i - Len(q)) = i
             /\ j - Len(q) \in DOMAIN p /\ Len(q) + (j - Len(q)) = j
    <3>1. p[i - Len(q)] = p[j - Len(q)]
      BY <1>5, <1>8, <2>5, Zenon
    <3>2. i - Len(q) = j - Len(q)
      BY <1>8, <2>5, <3>1, Zenon DEF IsInjective
    <3> QED  BY <2>5, <3>2, Zenon
  <2> QED  BY <1>6, <2>2, <2>3, <2>4, <2>5, Zenon
<1> QED  BY <1>1, <1>7, <1>8, SMTT(30) DEF IsInjective, a

-----------------------------------------------------------------------------
(* A flush: the queued cursors are closed, those of statements stay.       *)

LEMMA FlushKeeps ==
  ASSUME Cur, Flushed, stmt' = stmt
  PROVE  /\ cursor' \in [Ids -> Cursors] /\ outgoing' \in Seq(Ids)
         /\ Held' /\ Queue' /\ Known'
         /\ \A s \in Stmts : stmt[s].cursorID # 0 => cursor'[stmt[s].cursorID] = cursor[stmt[s].cursorID]
<1>1. /\ outgoing \in Seq(Ids) /\ cursor \in [Ids -> Cursors] /\ stmt \in [Stmts -> StmtStates]
      /\ Held /\ Queue /\ Known
  BY Zenon DEF Cur, TypeInv
<1>2. /\ outgoing' \in Seq(Ids) /\ Range(outgoing') = {} /\ IsInjective(outgoing')
      /\ cursor' = [c \in Ids |-> IF c \in Range(outgoing) THEN Closed ELSE cursor[c]]
  BY EmptyQueue, Zenon DEF Flushed, AfterOcca
<1>3. \A s \in Stmts : stmt[s].cursorID # 0 => stmt[s].cursorID \in Ids
  BY <1>1, ConstantsFit, Zenon DEF StmtStates
<1>4. \A c \in Ids : cursor'[c] = IF c \in Range(outgoing) THEN Closed ELSE cursor[c]
  BY <1>2, Zenon
<1>5. cursor' \in [Ids -> Cursors]
  BY <1>1, <1>2, ConstantsFit, Zenon
<1>6. \A s \in Stmts : stmt[s].cursorID # 0 => cursor'[stmt[s].cursorID] = cursor[stmt[s].cursorID]
  BY <1>1, <1>3, <1>4, Zenon DEF Queue
<1>7. Held'
  BY <1>1, <1>6, Zenon DEF Held
<1>8. Queue'
  BY <1>2, Zenon DEF Queue
<1>9. Known'
  BY <1>1, <1>2, <1>4, Zenon DEF Known
<1> QED  BY <1>2, <1>5, <1>6, <1>7, <1>8, <1>9, Zenon

-----------------------------------------------------------------------------
(* The requests of the executors.                                          *)

\* r is the request of executor e for the statement s and the value v.
Fits(s, e, v, r) ==
  LET p == executor[s][e].previousOacs
      cur == CurrentOac(p, v) IN
  /\ r \in ExecRequests /\ r.kind = "exec" /\ r.s = s /\ r.e = e
  /\ r.cursorID = stmt[s].cursorID /\ r.val = v
  /\ r.oac = IF needToSendOACs(p, cur) THEN cur ELSE NoOac
  /\ s \in Select => e = "query"
  /\ tx.registered /\ s \notin Select => ~r.commit

Sends(s, e, v) ==
  /\ conn = "inuse" /\ req = NoReq /\ stmt[s].st = "open"
  /\ \E x \in ExecutorStates : \E r \in ExecRequests :
       /\ x.previousOacs = executor[s][e].previousOacs
       /\ Fits(s, e, v, r) /\ SendExec(s, e, x, v, r)

LEMMA QuerySends ==
  ASSUME TypeInv, NEW s \in Stmts, NEW v \in Values(s), QuerySelect(s, v)
  PROVE  Sends(s, "query", v)
<1> DEFINE x == executor[s]["query"]
           p == x.previousOacs
           cur == CurrentOac(p, v)
           r == IF needToSendOACs(p, cur)
                THEN [createOAll8Msg(s, "query", x, v) EXCEPT !.sql = TRUE, !.commit = FALSE]
                ELSE createOexfenMsg(s, v)
<1>1. /\ conn = "inuse" /\ req = NoReq /\ stmt[s].st = "open" /\ s \in Select /\ SendExec(s, "query", x, v, r)
  BY Zenon DEF QuerySelect
<1>2. /\ x \in ExecutorStates /\ p \in AnyOac /\ v \in AnyOac /\ stmt[s].cursorID \in 0..MaxCursor
      /\ "query" \in Executors
  BY ConstantsFit DEF TypeInv, ExecutorStates, StmtStates, Executors
<1>3. cur \in AnyOac /\ NoOac \in AnyOac
  BY <1>2, CurrentOacType, Zenon DEF AnyOac
<1> HIDE DEF cur, p, x
<1>4. r = [kind |-> "exec", s |-> s, e |-> "query", sql |-> IF needToSendOACs(p, cur) THEN TRUE ELSE FALSE,
           cursorID |-> stmt[s].cursorID, oac |-> IF needToSendOACs(p, cur) THEN cur ELSE NoOac,
           val |-> v, commit |-> FALSE]
  <2>1. CASE needToSendOACs(p, cur)
    BY <2>1, Zenon DEF createOAll8Msg, cur, p
  <2>2. CASE ~needToSendOACs(p, cur)
    BY <2>2, Zenon DEF createOexfenMsg
  <2> QED  BY <2>1, <2>2, Zenon
<1> HIDE DEF r
<1>5. r \in ExecRequests
  BY <1>2, <1>3, <1>4, Zenon DEF ExecRequests, ExecKinds
<1>6. Fits(s, "query", v, r)
  BY <1>1, <1>4, <1>5, Zenon DEF Fits, cur, p, x
<1> QED  BY <1>1, <1>2, <1>5, <1>6, Zenon DEF Sends, x

LEMMA ExecSends ==
  ASSUME TypeInv, NEW s \in Stmts, NEW e \in Executors, NEW v \in Values(s), Exec(s, e, v)
  PROVE  Sends(s, e, v)
<1> DEFINE x == initForTransaction(executor[s][e])
           p == executor[s][e].previousOacs
           cur == CurrentOac(p, v)
           r == createOAll8Msg(s, e, x, v)
<1>1. /\ conn = "inuse" /\ req = NoReq /\ stmt[s].st = "open" /\ s \notin Select /\ SendExec(s, e, x, v, r)
  BY Zenon DEF Exec
<1>2. /\ executor[s][e] \in ExecutorStates /\ tx.registered \in BOOLEAN
      /\ v \in AnyOac /\ stmt[s].cursorID \in 0..MaxCursor
  BY ConstantsFit DEF TypeInv, StmtStates
<1>3. /\ x \in ExecutorStates /\ x.previousOacs = p /\ (tx.registered => ~x.commit)
  BY <1>2, ZenonT(30) DEF initForTransaction, ExecutorStates
<1>4. p \in AnyOac /\ cur \in AnyOac /\ NoOac \in AnyOac
  BY <1>2, CurrentOacType, Zenon DEF ExecutorStates, AnyOac
<1> HIDE DEF cur, p, x
<1>5. r = [kind |-> "exec", s |-> s, e |-> e, sql |-> x.parse,
           cursorID |-> stmt[s].cursorID, oac |-> IF needToSendOACs(p, cur) THEN cur ELSE NoOac,
           val |-> v, commit |-> x.commit]
  BY <1>3, Zenon DEF createOAll8Msg, cur
<1>6. x.parse \in BOOLEAN /\ x.commit \in BOOLEAN
  BY <1>3, Zenon DEF ExecutorStates
<1> HIDE DEF r
<1>7. r \in ExecRequests
  BY <1>2, <1>4, <1>5, <1>6, Zenon DEF ExecRequests, ExecKinds
<1>8. Fits(s, e, v, r)
  BY <1>1, <1>3, <1>5, <1>7, Zenon DEF Fits, cur, p
<1> QED  BY <1>1, <1>3, <1>7, <1>8, Zenon DEF Sends, p

\* What an executor remembers once it has sent a request.
LEMMA SendRemembers ==
  ASSUME TypeInv, NEW s \in Stmts, NEW e \in Executors, NEW v \in Values(s),
         NEW x \in ExecutorStates, NEW r, x.previousOacs = executor[s][e].previousOacs,
         SendExec(s, e, x, v, r)
  PROVE  /\ executor' \in [Stmts -> [Executors -> ExecutorStates]]
         /\ executor'[s][e].previousOacs = IF v = NoOac THEN executor[s][e].previousOacs
                                           ELSE CurrentOac(executor[s][e].previousOacs, v)
         /\ \A t \in Stmts, o \in Executors : t # s \/ o # e => executor'[t][o] = executor[t][o]
<1> DEFINE y == [x EXCEPT !.previousOacs = IF v = NoOac THEN @ ELSE CurrentOac(@, v)]
<1>1. executor' = [executor EXCEPT ![s][e] = y]
  BY Zenon DEF SendExec
<1>2. v \in AnyOac /\ x.previousOacs \in AnyOac
  BY ConstantsFit, Zenon DEF ExecutorStates
<1>3. CurrentOac(x.previousOacs, v) \in AnyOac
  BY <1>2, CurrentOacType, Zenon
<1>4. y \in ExecutorStates /\ y.previousOacs = IF v = NoOac THEN x.previousOacs ELSE CurrentOac(x.previousOacs, v)
  BY <1>2, <1>3, Zenon DEF ExecutorStates
<1> HIDE DEF y
<1>5. executor \in [Stmts -> [Executors -> ExecutorStates]]
  BY Zenon DEF TypeInv
<1>6. executor' \in [Stmts -> [Executors -> ExecutorStates]]
  BY <1>1, <1>4, <1>5, Zenon
<1>7. executor'[s][e] = y /\ \A t \in Stmts, o \in Executors : t # s \/ o # e => executor'[t][o] = executor[t][o]
  BY <1>1, <1>5, Zenon
<1> QED  BY <1>4, <1>6, <1>7, Zenon

LEMMA CoversTransitive ==
  ASSUME NEW x \in AnyOac, NEW y \in AnyOac, NEW z \in AnyOac, Covers(x, y), Covers(y, z)
  PROVE  Covers(x, z)
BY OacFields DEF Covers

LEMMA SendKeeps ==
  ASSUME Inv, NEW s \in Stmts, NEW e \in Executors, NEW v \in Values(s), Sends(s, e, v)
  PROVE  Inv'
<1> DEFINE p == executor[s][e].previousOacs
           cur == CurrentOac(p, v)
<1>1. PICK x \in ExecutorStates, r \in ExecRequests :
        x.previousOacs = executor[s][e].previousOacs /\ Fits(s, e, v, r) /\ SendExec(s, e, x, v, r)
  BY Zenon DEF Sends
<1>2. /\ Flushed /\ stmt' = stmt /\ req' = r /\ tx' = tx /\ req = NoReq /\ stmt[s].st = "open"
      /\ conn' = "inuse"
  BY <1>1, Zenon DEF SendExec, Flushed, Sends
<1>3. Cur /\ TypeInv /\ Held /\ Remembered /\ Covered
  BY Zenon DEF Inv, Cur
<1>4. /\ cursor' \in [Ids -> Cursors] /\ outgoing' \in Seq(Ids) /\ Held' /\ Queue' /\ Known'
      /\ \A t \in Stmts : stmt[t].cursorID # 0 => cursor'[stmt[t].cursorID] = cursor[stmt[t].cursorID]
  BY <1>2, <1>3, FlushKeeps, Zenon
<1>5. /\ executor' \in [Stmts -> [Executors -> ExecutorStates]]
      /\ executor'[s][e].previousOacs = IF v = NoOac THEN p ELSE cur
      /\ \A t \in Stmts, o \in Executors : t # s \/ o # e => executor'[t][o] = executor[t][o]
  BY <1>1, <1>3, SendRemembers, Zenon
<1>6. /\ r.kind = "exec" /\ r.s = s /\ r.e = e /\ r.cursorID = stmt[s].cursorID /\ r.val = v
      /\ r.oac = IF needToSendOACs(p, cur) THEN cur ELSE NoOac
      /\ s \in Select => e = "query"
  BY <1>1, Zenon DEF Fits
<1>7. /\ p \in AnyOac /\ v \in AnyOac /\ (v = NoOac <=> s \notin Bound)
  BY <1>3, ConstantsFit DEF TypeInv, ExecutorStates
<1>8. /\ cur \in AnyOac /\ (v = NoOac <=> cur = NoOac) /\ (v # NoOac => Covers(cur, v))
  BY <1>7, CurrentOacType, Zenon
<1>9. ~InExec
  BY <1>2, NotInExec, Zenon DEF InExec, ExecKinds
<1> HIDE DEF p, cur
<1>10. TypeInv'
  <2>1. r \in Requests
    BY NotInExec, Zenon
  <2> QED  BY <1>2, <1>3, <1>4, <1>5, <2>1, Zenon DEF TypeInv
<1>11. InFlight'
  BY <1>2, <1>5, <1>6, <1>8, Zenon DEF InFlight
<1>12. Remembered'
  <2>1. ASSUME NEW t \in Stmts \ Bound, NEW o \in Executors
        PROVE  executor'[t][o].previousOacs = NoOac
    BY <1>3, <1>5, <1>7, <2>1 DEF Remembered, p
  <2>2. ASSUME NEW t \in Stmts, t \in Select
        PROVE  executor'[t]["exec"] = NewExecutor
    BY <1>3, <1>5, <1>6, <2>2, Zenon DEF Remembered, Executors
  <2> QED  BY <2>1, <2>2, Zenon DEF Remembered
<1>13. Covered'
  <2> SUFFICES ASSUME NEW t \in Stmts, NEW a \in Executors, NEW o \in Executors,
                      a # o, executor'[t][o] = NewExecutor, stmt[t].cursorID # 0,
                      executor'[t][a].previousOacs # NoOac
               PROVE  Covers(Told(t)', executor'[t][a].previousOacs)
    BY <1>2, Zenon DEF Covered
  <2>1. Told(t) = cursor[stmt[t].cursorID].oac
    BY <1>9, Zenon DEF Told
  <2>2. Told(t)' = IF s = t /\ r.oac # NoOac THEN r.oac ELSE cursor[stmt[t].cursorID].oac
    BY <1>2, <1>4, <1>6, Zenon DEF Told, InExec, ExecKinds
  <2>3. CASE t # s
    <3>1. executor'[t][a] = executor[t][a] /\ executor'[t][o] = executor[t][o]
      BY <1>5, <2>3, Zenon
    <3>2. Covers(Told(t), executor[t][a].previousOacs)
      BY <1>3, <3>1, Zenon DEF Covered
    <3> QED  BY <2>1, <2>2, <2>3, <3>1, <3>2, Zenon
  <2>4. CASE t = s /\ a # e
    <3>1. o = e /\ executor'[s][e].previousOacs = NoOac
      BY <2>4, SMTT(30) DEF Executors, NewExecutor
    <3>2. s \notin Bound
      BY <1>5, <1>7, <1>8, <3>1, Zenon
    <3> QED  BY <1>12, <2>4, <3>2, Zenon DEF Remembered
  <2>5. CASE t = s /\ a = e
    <3>1. v # NoOac
      BY <1>12, <1>7, <2>5, Zenon DEF Remembered
    <3>2. executor'[s][e].previousOacs = cur /\ cur # NoOac
      BY <1>5, <1>8, <3>1, Zenon
    <3>3. CASE needToSendOACs(p, cur)
      <4>1. Told(t)' = cur
        BY <1>6, <2>2, <2>5, <3>2, <3>3, Zenon
      <4>2. Covers(cur, cur)
        BY <1>8, OacFields DEF Covers
      <4> QED  BY <2>5, <3>2, <4>1, <4>2, Zenon
    <3>4. CASE ~needToSendOACs(p, cur)
      <4>1. p.type = cur.type /\ p.len >= cur.len
        BY <1>7, <1>8, <3>4, OacFields DEF needToSendOACs
      <4>2. p # NoOac
        BY <1>8, <3>2, <4>1, OacFields DEF NoOac
      <4>3. executor[s][o] = NewExecutor
        BY <1>5, <2>5, Zenon
      <4>4. Covers(cursor[stmt[s].cursorID].oac, p)
        BY <1>3, <2>1, <2>5, <4>2, <4>3, Zenon DEF Covered, p
      <4>5. cursor[stmt[s].cursorID].oac \in AnyOac
        BY <1>3, <2>5, ConstantsFit, Zenon DEF TypeInv, StmtStates, Cursors
      <4>6. Covers(cursor[stmt[s].cursorID].oac, cur)
        BY <1>7, <1>8, <4>1, <4>4, <4>5, OacFields DEF Covers
      <4>7. Told(t)' = cursor[stmt[s].cursorID].oac
        BY <1>6, <2>2, <2>5, <3>4, Zenon
      <4> QED  BY <2>5, <3>2, <4>6, <4>7, Zenon
    <3> QED  BY <3>3, <3>4, Zenon
  <2> QED  BY <2>3, <2>4, <2>5, Zenon
<1> QED  BY <1>4, <1>10, <1>11, <1>12, <1>13, Zenon DEF Inv, Cur

-----------------------------------------------------------------------------
(* Steps that leave the statements alone.                                  *)

TxStates == [registered : BOOLEAN, sql : BOOLEAN]

\* An answer that changes neither cursors nor executors.
LEMMA QuietKeeps ==
  ASSUME Inv, UNCHANGED <<stmt, executor, outgoing, cursor>>, tx' \in TxStates,
         req' \in Requests, ~InExec', InExec => req.oac = NoOac
  PROVE  Inv'
<1>1. TypeInv' /\ Held' /\ Queue' /\ Known' /\ Remembered'
  BY Zenon DEF Inv, Cur, TypeInv, TxStates, Held, Queue, Known, Remembered
<1>2. InFlight'
  BY Zenon DEF InFlight
<1>3. \A s \in Stmts : Told(s)' = Told(s)
  BY Zenon DEF Told
<1>4. Covered'
  BY <1>3, Zenon DEF Inv, Covered
<1> QED  BY <1>1, <1>2, <1>4, Zenon DEF Inv, Cur

\* The flush of a request that no statement makes.
LEMMA FlushQuietKeeps ==
  ASSUME Inv, Flushed, UNCHANGED <<stmt, executor>>, tx' \in TxStates,
         req' \in Requests, ~InExec', ~InExec
  PROVE  Inv'
<1>1. /\ cursor' \in [Ids -> Cursors] /\ outgoing' \in Seq(Ids) /\ Held' /\ Queue' /\ Known'
      /\ \A s \in Stmts : stmt[s].cursorID # 0 => cursor'[stmt[s].cursorID] = cursor[stmt[s].cursorID]
  BY FlushKeeps, Zenon DEF Inv
<1>2. TypeInv' /\ Remembered'
  BY <1>1, Zenon DEF Inv, Cur, TypeInv, TxStates, Remembered
<1>3. InFlight'
  BY Zenon DEF InFlight
<1>4. \A s \in Stmts : stmt[s].cursorID # 0 => Told(s)' = Told(s)
  BY <1>1, Zenon DEF Told
<1>5. Covered'
  BY <1>4, Zenon DEF Inv, Covered
<1> QED  BY <1>1, <1>2, <1>3, <1>5, Zenon DEF Inv, Cur

LEMMA TransactionsKeep ==
  ASSUME Inv,
         \/ DefineDone \/ BeginFailed \/ EndTxDone \/ EndTxFailed \/ Release
         \/ \E more \in 0..1 : BeginTx(more)
         \/ \E kind \in {"commit", "rollback"} : EndTx(kind)
  PROVE  Inv'
<1>1. tx \in TxStates /\ req \in Requests /\ InFlight
  BY Zenon DEF Inv, Cur, TypeInv, TxStates
<1>2. NoReq \in Requests /\ NoReq.kind \notin ExecKinds
  BY NotInExec, Zenon DEF ExecKinds
<1>3. CASE DefineDone
  <2>1. InExec => req.oac = NoOac
    BY <1>1, <1>3, Zenon DEF DefineDone, InFlight
  <2>2. /\ UNCHANGED <<stmt, executor, outgoing, cursor, tx>> /\ req' = NoReq
    BY <1>3, Zenon DEF DefineDone
  <2> QED  BY <1>1, <1>2, <2>1, <2>2, QuietKeeps, Zenon DEF InExec
<1>4. CASE BeginFailed \/ EndTxDone \/ EndTxFailed
  <2>1. /\ UNCHANGED <<stmt, executor, outgoing, cursor>> /\ req' = NoReq /\ ~InExec
    BY <1>4, Zenon DEF BeginFailed, EndTxDone, EndTxFailed, InExec, ExecKinds
  <2>2. tx' \in TxStates
    <3>1. /\ [tx EXCEPT !.registered = FALSE] \in TxStates /\ [tx EXCEPT !.sql = FALSE] \in TxStates
          /\ [registered |-> FALSE, sql |-> FALSE] \in TxStates
      BY <1>1, ZenonT(30) DEF TxStates
    <3> QED  BY <1>4, <3>1, Zenon DEF BeginFailed, EndTxDone, EndTxFailed
  <2> QED  BY <1>2, <2>1, <2>2, QuietKeeps, Zenon DEF InExec
<1>5. CASE Release
  <2>1. /\ UNCHANGED <<stmt, executor, outgoing, cursor, tx, req>> /\ ~InExec
    BY <1>2, <1>5, Zenon DEF Release, InExec
  <2> QED  BY <1>1, <2>1, QuietKeeps, Zenon DEF InExec
<1>6. ASSUME NEW more \in 0..1, BeginTx(more)
      PROVE  Inv'
  <2>1. /\ Flushed /\ UNCHANGED <<stmt, executor>> /\ req' = [kind |-> "begin", more |-> more] /\ ~InExec
    BY <1>2, <1>6, Zenon DEF BeginTx, InExec
  <2>2. tx' \in TxStates
    BY <1>1, <1>6, Zenon DEF BeginTx, TxStates
  <2>3. req' \in Requests /\ ~InExec'
    BY <2>1, NotInExec, Zenon DEF TxKinds, InExec, ExecKinds
  <2> QED  BY <2>1, <2>2, <2>3, FlushQuietKeeps, Zenon
<1>7. ASSUME NEW kind \in {"commit", "rollback"}, EndTx(kind)
      PROVE  Inv'
  <2>1. /\ Flushed /\ UNCHANGED <<stmt, executor, tx>> /\ req' = [kind |-> kind, more |-> 0] /\ ~InExec
    BY <1>2, <1>7, Zenon DEF EndTx, InExec
  <2>2. req' \in Requests /\ ~InExec'
    BY <2>1, NotInExec DEF TxKinds, InExec, ExecKinds
  <2> QED  BY <1>1, <2>1, <2>2, FlushQuietKeeps, Zenon
<1> QED  BY <1>3, <1>4, <1>5, <1>6, <1>7, Zenon

LEMMA BeginDoneKeeps ==
  ASSUME Inv, NEW c \in Ids, BeginDone(c)
  PROVE  Inv'
<1>1. /\ TypeInv /\ Held /\ Queue /\ Known /\ Remembered /\ Covered /\ tx \in TxStates
      /\ ~InExec /\ req \in Requests /\ UNCHANGED <<stmt, executor>> /\ req.kind = "begin"
      /\ cursor[c] = Closed
  BY Zenon DEF Inv, Cur, TypeInv, TxStates, BeginDone, InExec, ExecKinds, OpenIds
<1>2. CASE req.more = 1
  <2>1. /\ UNCHANGED <<tx, cursor, outgoing>> /\ req' = [req EXCEPT !.more = 0]
    BY <1>2, Zenon DEF BeginDone
  <2>2. req \in [kind : TxKinds, more : 0..1]
    BY <1>1 DEF Requests, NoReq, ExecKinds
  <2>3. req' \in [kind : TxKinds, more : 0..1] /\ req'.kind = "begin"
    BY <1>1, <2>1, <2>2
  <2>4. req' \in Requests /\ ~InExec'
    BY <2>3, Zenon DEF Requests, InExec, ExecKinds
  <2> QED  BY <1>1, <2>1, <2>4, QuietKeeps, Zenon
<1>3. CASE req.more # 1
  <2>1. /\ req' = NoReq /\ tx' = [tx EXCEPT !.sql = TRUE] /\ outgoing' = Append(outgoing, c)
        /\ cursor' = [cursor EXCEPT ![c] = [of |-> SetTransaction, oac |-> NoOac]]
    BY <1>3, Zenon DEF BeginDone
  <2>2. /\ [of |-> SetTransaction, oac |-> NoOac] \in Cursors
        /\ [of |-> SetTransaction, oac |-> NoOac] # Closed
    BY ConstantsFit, Zenon DEF Cursors, AnyOac, Closed
  <2>3. /\ cursor' \in [Ids -> Cursors] /\ cursor'[c] # Closed
        /\ \A d \in Ids : d # c => cursor'[d] = cursor[d]
    BY <1>1, <2>1, <2>2, Zenon DEF TypeInv
  <2>4. c \notin Range(outgoing) /\ Range(outgoing) \subseteq Ids
    BY <1>1, QueueElements, Zenon DEF Queue, TypeInv
  <2>5. /\ outgoing' \in Seq(Ids) /\ Range(outgoing') = Range(outgoing) \union {c} /\ IsInjective(outgoing')
    <3>1. outgoing \in Seq(Ids) /\ IsInjective(outgoing)
      BY <1>1, Zenon DEF TypeInv, Queue
    <3> QED  BY <2>1, <2>4, <3>1, AppendedQueue, Zenon
  <2>6. \A s \in Stmts : stmt[s].cursorID # 0 => stmt[s].cursorID \in Ids \ {c}
    <3>1. Closed.of \notin Stmts
      BY ConstantsFit, Zenon DEF Closed
    <3> QED  BY <1>1, <3>1, ConstantsFit DEF Held, TypeInv, StmtStates
  <2>7. req' \in Requests /\ ~InExec' /\ tx' \in TxStates
    BY <1>1, <2>1, NotInExec, ZenonT(30) DEF InExec, ExecKinds, TxStates
  <2>8. TypeInv'
    BY <1>1, <2>3, <2>5, <2>7, Zenon DEF TypeInv, TxStates
  <2>9. Held'
    BY <1>1, <2>3, <2>6, Zenon DEF Held
  <2>10. Queue'
    <3>1. \A d \in Range(outgoing') : cursor'[d] # Closed
      BY <1>1, <2>3, <2>4, <2>5, Zenon DEF Queue
    <3>2. \A s \in Stmts : stmt[s].cursorID \notin Range(outgoing')
      BY <1>1, <2>5, <2>6, ConstantsFit, Zenon DEF Queue
    <3> QED  BY <1>1, <2>5, <3>1, <3>2, Zenon DEF Queue
  <2>11. Known'
    BY <1>1, <2>3, <2>5, Zenon DEF Known
  <2>12. InFlight' /\ Remembered'
    BY <1>1, <2>7, Zenon DEF InFlight, Remembered
  <2>13. \A s \in Stmts : stmt[s].cursorID # 0 => Told(s)' = Told(s)
    BY <1>1, <2>3, <2>6, <2>7, Zenon DEF Told
  <2>14. Covered'
    BY <1>1, <2>13, Zenon DEF Covered
  <2> QED  BY <2>8, <2>9, <2>10, <2>11, <2>12, <2>14, Zenon DEF Inv, Cur
<1> QED  BY <1>2, <1>3, Zenon

-----------------------------------------------------------------------------
(* Statements.                                                             *)

LEMMA PrepareKeeps ==
  ASSUME Inv, NEW s \in Stmts, Prepare(s)
  PROVE  Inv'
<1> DEFINE new == [e \in Executors |-> NewExecutor]
<1>1. /\ TypeInv /\ Held /\ Queue /\ Known /\ Remembered /\ Covered /\ ~InExec /\ stmt[s].st = "none"
      /\ UNCHANGED <<tx, outgoing, cursor, req>>
      /\ stmt' = [stmt EXCEPT ![s] = [st |-> "open", shelf |-> TRUE, cursorID |-> 0]]
      /\ executor' = [executor EXCEPT ![s] = new]
  BY NotInExec, Zenon DEF Inv, Cur, Prepare, InExec, ExecKinds
<1>2. new \in [Executors -> ExecutorStates] /\ \A e \in Executors : new[e].previousOacs = NoOac
  BY Zenon DEF NewExecutor, ExecutorStates, AnyOac
<1>3. "exec" \in Executors /\ new["exec"] = NewExecutor
  BY Zenon DEF Executors
<1> HIDE DEF new
<1>4. /\ stmt' \in [Stmts -> StmtStates] /\ stmt'[s].st = "open"
      /\ \A t \in Stmts : stmt'[t].cursorID = stmt[t].cursorID
      /\ \A t \in Stmts : t # s => stmt'[t] = stmt[t]
      /\ stmt'[s].cursorID = 0
  BY <1>1, ConstantsFit, Zenon DEF TypeInv, StmtStates, Held
<1>5. /\ executor' \in [Stmts -> [Executors -> ExecutorStates]] /\ executor'[s] = new
      /\ \A t \in Stmts : t # s => executor'[t] = executor[t]
  BY <1>1, <1>2, Zenon DEF TypeInv
<1>6. TypeInv'
  BY <1>1, <1>4, <1>5, Zenon DEF TypeInv
<1>7. Held' /\ Queue' /\ Known'
  BY <1>1, <1>4 DEF Held, Queue, Known
<1>8. InFlight'
  BY <1>1, Zenon DEF InFlight, InExec
<1>9. Remembered'
  BY <1>1, <1>2, <1>3, <1>5, Zenon DEF Remembered
<1>10. \A t \in Stmts : Told(t)' = Told(t)
  BY <1>1, <1>4, Zenon DEF Told, InExec
<1>11. Covered'
  BY <1>1, <1>4, <1>5, <1>10 DEF Covered
<1> QED  BY <1>6, <1>7, <1>8, <1>9, <1>11, Zenon DEF Inv, Cur

\* Close and ResetSession: the statements of S lose their cursors, which are
\* closed or queued.
LEMMA ReleaseKeeps ==
  ASSUME Inv, ~InExec, UNCHANGED <<executor, tx, req>>, NEW S \in SUBSET Stmts,
         stmt' \in [Stmts -> StmtStates],
         \A t \in S : stmt'[t].cursorID = 0,
         \A t \in Stmts \ S : stmt'[t].cursorID = stmt[t].cursorID /\ stmt'[t].st = stmt[t].st,
         outgoing' \in Seq(Ids), IsInjective(outgoing'),
         NEW Gone \in SUBSET Ids, cursor' = [c \in Ids |-> IF c \in Gone THEN Closed ELSE cursor[c]],
         Gone \intersect Range(outgoing') = {},
         Gone \union Range(outgoing') = Range(outgoing) \union ({stmt[t].cursorID : t \in S} \ {0})
  PROVE  Inv'
<1>1. TypeInv /\ Held /\ Queue /\ Known /\ Remembered /\ Covered
  BY Zenon DEF Inv, Cur
<1>2. \A t \in Stmts : stmt[t].cursorID # 0 => stmt[t].cursorID \in Ids /\ cursor[stmt[t].cursorID].of = t
  BY <1>1, ConstantsFit, Zenon DEF TypeInv, StmtStates, Held
<1>3. \A t \in Stmts \ S : stmt[t].cursorID \notin Gone \union Range(outgoing')
  <2>1. \A t \in Stmts \ S : stmt[t].cursorID \notin {stmt[u].cursorID : u \in S} \ {0}
    BY <1>2, SMTT(30)
  <2> QED  BY <1>1, <2>1, Zenon DEF Queue
<1>4. cursor' \in [Ids -> Cursors]
  BY <1>1, ConstantsFit, Zenon DEF TypeInv
<1>5. TypeInv'
  BY <1>1, <1>4, Zenon DEF TypeInv
<1>6. \A t \in Stmts : stmt'[t].cursorID # 0 =>
        /\ t \in Stmts \ S /\ stmt'[t].cursorID = stmt[t].cursorID
        /\ cursor'[stmt'[t].cursorID] = cursor[stmt[t].cursorID]
  BY <1>2, <1>3, Zenon
<1>7. Held'
  BY <1>1, <1>2, <1>6 DEF Held
<1>8. Queue'
  <2>1. Range(outgoing') \subseteq Ids
    BY QueueElements, Zenon
  <2>2. \A c \in Range(outgoing) : cursor[c] # Closed
    BY <1>1, Zenon DEF Queue
  <2>3. \A c \in {stmt[t].cursorID : t \in S} \ {0} : cursor[c] # Closed
    BY <1>2, ConstantsFit, SMTT(30) DEF Closed
  <2>4. \A c \in Range(outgoing') : cursor'[c] # Closed
    BY <2>1, <2>2, <2>3, Zenon
  <2>5. \A t \in Stmts : stmt'[t].cursorID \notin Range(outgoing')
    BY <1>3, <2>1, ConstantsFit
  <2> QED  BY <2>4, <2>5, SMTT(30) DEF Queue
<1>9. Known'
  <2> SUFFICES ASSUME NEW c \in Ids, cursor'[c] # Closed
               PROVE  (\E t \in Stmts : stmt'[t].cursorID = c) \/ c \in Range(outgoing')
    BY Zenon DEF Known
  <2>1. c \notin Gone /\ cursor[c] # Closed
    BY Zenon
  <2>2. CASE c \in Range(outgoing)
    BY <2>1, <2>2, Zenon
  <2>3. ASSUME NEW t \in Stmts, stmt[t].cursorID = c
        PROVE  (\E u \in Stmts : stmt'[u].cursorID = c) \/ c \in Range(outgoing')
    <3>1. CASE t \in S
      <4>1. c \in {stmt[u].cursorID : u \in S} \ {0}
        BY <2>3, <3>1, ConstantsFit, Zenon
      <4> QED  BY <2>1, <4>1, Zenon
    <3>2. CASE t \notin S
      BY <2>3, <3>2, Zenon
    <3> QED  BY <3>1, <3>2, Zenon
  <2> QED  BY <1>1, <2>1, <2>2, <2>3, Zenon DEF Known
<1>10. InFlight' /\ Remembered'
  BY <1>1, Zenon DEF InFlight, InExec, Remembered
<1>11. \A t \in Stmts : stmt'[t].cursorID # 0 => Told(t)' = Told(t)
  BY <1>6, SMTT(30) DEF Told, InExec
<1>12. Covered'
  BY <1>1, <1>6, <1>11, SMTT(30) DEF Covered
<1> QED  BY <1>5, <1>7, <1>8, <1>9, <1>10, <1>12, ZenonT(30) DEF Inv, Cur

LEMMA CloseKeeps ==
  ASSUME Inv, NEW s \in Stmts, Close(s)
  PROVE  Inv'
<1> DEFINE cid == stmt[s].cursorID
           p == Pushed(outgoing, cursor, cid)
<1>1. /\ TypeInv /\ Queue /\ ~InExec /\ UNCHANGED <<executor, tx, req>>
      /\ stmt' = [stmt EXCEPT ![s] = [st |-> "none", shelf |-> FALSE, cursorID |-> 0]]
      /\ outgoing' = IF cid = 0 THEN outgoing ELSE p.out
      /\ cursor' = IF cid = 0 THEN cursor ELSE p.cursor
  BY NotInExec, Zenon DEF Inv, Cur, Close, closeCursor, InExec, ExecKinds
<1>2. /\ outgoing \in Seq(Ids) /\ IsInjective(outgoing) /\ cid \notin Range(outgoing)
      /\ Range(outgoing) \subseteq Ids /\ cursor \in [Ids -> Cursors] /\ (cid # 0 => cid \in Ids)
  BY <1>1, QueueElements, ConstantsFit, ZenonT(30) DEF TypeInv, Queue, StmtStates
<1>3. /\ stmt' \in [Stmts -> StmtStates] /\ stmt'[s].cursorID = 0
      /\ \A t \in Stmts \ {s} : stmt'[t].cursorID = stmt[t].cursorID /\ stmt'[t].st = stmt[t].st
  BY <1>1, ConstantsFit, Zenon DEF TypeInv, StmtStates
<1>4. {stmt[t].cursorID : t \in {s}} \ {0} = IF cid = 0 THEN {} ELSE {cid}
  BY Zenon
<1> HIDE DEF cid
<1>5. CASE cid = 0
  <2>1. /\ outgoing' \in Seq(Ids) /\ IsInjective(outgoing') /\ outgoing' = outgoing
        /\ cursor' = [c \in Ids |-> IF c \in {} THEN Closed ELSE cursor[c]]
    BY <1>1, <1>2, <1>5, ZenonT(30)
  <2>2. {} \union Range(outgoing') = Range(outgoing) \union ({stmt[t].cursorID : t \in {s}} \ {0})
    BY <1>4, <1>5, <2>1, Zenon
  <2>3. {} \intersect Range(outgoing') = {}
    BY Zenon
  <2> QED  BY <1>1, <1>3, <2>1, <2>2, <2>3, ReleaseKeeps, ZenonT(30)
<1>6. CASE cid # 0 /\ Len(outgoing) > MaxOutgoing
  <2>1. /\ outgoing' = <<cid>>
        /\ cursor' = [c \in Ids |-> IF c \in Range(outgoing) THEN Closed ELSE cursor[c]]
    BY <1>1, <1>6, Zenon DEF Pushed
  <2>2. /\ outgoing' \in Seq(Ids) /\ IsInjective(outgoing') /\ Range(outgoing') = {cid}
    BY <1>2, <1>6, <2>1, QueueOfOne, Zenon
  <2>3. Range(outgoing) \union Range(outgoing') = Range(outgoing) \union ({stmt[t].cursorID : t \in {s}} \ {0})
    BY <1>4, <1>6, <2>2, Zenon
  <2>4. Range(outgoing) \intersect Range(outgoing') = {}
    BY <1>2, <2>2, Zenon
  <2> QED  BY <1>1, <1>2, <1>3, <2>1, <2>2, <2>3, <2>4, ReleaseKeeps, ZenonT(30)
<1>7. CASE cid # 0 /\ ~(Len(outgoing) > MaxOutgoing)
  <2>1. /\ outgoing' = Append(outgoing, cid) /\ cursor' = cursor
    BY <1>1, <1>7, Zenon DEF Pushed
  <2>2. /\ outgoing' \in Seq(Ids) /\ IsInjective(outgoing') /\ Range(outgoing') = Range(outgoing) \union {cid}
    BY <1>2, <1>7, <2>1, AppendedQueue, Zenon
  <2>3. {} \union Range(outgoing') = Range(outgoing) \union ({stmt[t].cursorID : t \in {s}} \ {0})
    BY <1>4, <1>7, <2>2, SMTT(30)
  <2>4. /\ {} \intersect Range(outgoing') = {}
        /\ cursor' = [c \in Ids |-> IF c \in {} THEN Closed ELSE cursor[c]]
    BY <1>2, <2>1, Zenon
  <2> QED  BY <1>1, <1>3, <2>2, <2>3, <2>4, ReleaseKeeps, ZenonT(30)
<1> QED  BY <1>5, <1>6, <1>7, Zenon

\* The cursors of the drained statements, in some order.
LEMMA DrainedQueue ==
  ASSUME TypeInv
  PROVE  /\ Listed(DrainedCursors) \in Seq(Ids) /\ IsInjective(Listed(DrainedCursors))
         /\ Range(Listed(DrainedCursors)) = DrainedCursors
         /\ DrainedCursors = {stmt[s].cursorID : s \in GetStatements} \ {0}
         /\ GetStatements \subseteq Stmts
<1> DEFINE D == DrainedCursors
           n == Cardinality(D)
           q == Listed(D)
<1>1. D \subseteq Ids
  BY ConstantsFit DEF TypeInv, StmtStates, DrainedCursors, GetStatements
<1>2. IsFiniteSet(Ids)
  BY FS_Interval, ConstantsFit DEF Ids
<1>3. IsFiniteSet(D)
  BY <1>1, <1>2, FS_Subset, Zenon
<1> HIDE DEF D
<1>4. n \in Nat /\ ExistsBijection(1..n, D)
  BY <1>3, FS_CardinalityType, Zenon
<1>5. q \in [1..n -> D] /\ IsInjective(q)
  <2>1. \E f \in [1..n -> D] : IsInjective(f)
    BY <1>4, Zenon DEF ExistsBijection, Bijection, Injection
  <2> QED  BY <2>1, Zenon DEF Listed
<1> HIDE DEF q
<1>6. IsFiniteSet(1..n) /\ Cardinality(1..n) = n
  BY <1>4, FS_Interval
<1>7. q \in Surjection(1..n, D)
  <2>1. q \in Injection(1..n, D)
    BY <1>5, Zenon DEF Injection
  <2> QED  BY <1>3, <1>6, <2>1, FS_Injection, Zenon
<1>8. Range(q) = D
  BY <1>5, <1>7, Zenon DEF Surjection, Range
<1>9. q \in Seq(Ids)
  BY <1>1, <1>4, <1>5
<1> QED  BY <1>5, <1>8, <1>9, Zenon DEF q, D, DrainedCursors, GetStatements

LEMMA ResetKeeps ==
  ASSUME Inv, ResetSession \/ ResetSessionFails
  PROVE  Inv'
<1> DEFINE q == Listed(DrainedCursors)
           S == GetStatements
<1>1. /\ TypeInv /\ Queue /\ Held /\ ~InExec /\ UNCHANGED <<executor, tx, req>> /\ stmt' = Drained
  BY Zenon DEF Inv, Cur, InFlight, ResetSession, ResetSessionFails
<1>2. /\ q \in Seq(Ids) /\ IsInjective(q) /\ Range(q) = {stmt[t].cursorID : t \in S} \ {0}
      /\ S \subseteq Stmts
  BY <1>1, DrainedQueue, Zenon
<1>3. /\ outgoing \in Seq(Ids) /\ IsInjective(outgoing) /\ Range(outgoing) \intersect Range(q) = {}
  BY <1>1, <1>2 DEF TypeInv, Queue
<1>4. /\ stmt' \in [Stmts -> StmtStates] /\ \A t \in S : stmt'[t].cursorID = 0
      /\ \A t \in Stmts \ S : stmt'[t].cursorID = stmt[t].cursorID /\ stmt'[t].st = stmt[t].st
  <2>1. stmt \in [Stmts -> StmtStates] /\ 0 \in 0..MaxCursor
    BY <1>1, ConstantsFit, Zenon DEF TypeInv
  <2>2. \A t \in Stmts : [stmt[t] EXCEPT !.shelf = FALSE, !.cursorID = 0] \in StmtStates
    BY <2>1, ZenonT(30) DEF StmtStates
  <2>3. \A t \in Stmts : stmt'[t] = IF t \in S THEN [stmt[t] EXCEPT !.shelf = FALSE, !.cursorID = 0] ELSE stmt[t]
    BY <1>1, Zenon DEF Drained, GetStatements
  <2>4. stmt' \in [Stmts -> StmtStates]
    BY <1>1, <2>1, <2>2, Zenon DEF Drained
  <2>5. \A t \in Stmts : [stmt[t] EXCEPT !.shelf = FALSE, !.cursorID = 0].cursorID = 0
    BY <2>1, Zenon DEF StmtStates
  <2> QED  BY <1>2, <2>3, <2>4, <2>5, ZenonT(30)
<1> HIDE DEF q, S
<1>5. outgoing \o q \in Seq(Ids) /\ Range(outgoing \o q) = Range(outgoing) \union Range(q)
      /\ IsInjective(outgoing \o q)
  BY <1>2, <1>3, JoinedQueue, Zenon
<1>6. Range(outgoing \o q) \subseteq Ids
  BY <1>5, QueueElements, Zenon
<1>7. CASE ResetSession
  <2>1. /\ cursor' = [c \in Ids |-> IF c \in Range(outgoing \o q) THEN Closed ELSE cursor[c]]
        /\ outgoing' = << >>
    BY <1>7, Zenon DEF ResetSession, AfterOcca, q
  <2>2. /\ outgoing' \in Seq(Ids) /\ IsInjective(outgoing') /\ Range(outgoing') = {}
    BY <2>1, EmptyQueue, Zenon
  <2>3. /\ Range(outgoing \o q) \union Range(outgoing') = Range(outgoing) \union ({stmt[t].cursorID : t \in S} \ {0})
        /\ Range(outgoing \o q) \intersect Range(outgoing') = {}
    BY <1>2, <1>5, <2>2, Zenon
  <2> QED  BY <1>1, <1>2, <1>4, <1>6, <2>1, <2>2, <2>3, ReleaseKeeps, ZenonT(30)
<1>8. CASE ResetSessionFails
  <2>1. outgoing' = outgoing \o q /\ cursor' = cursor
    BY <1>8, Zenon DEF ResetSessionFails, q
  <2>2. outgoing' \in Seq(Ids) /\ IsInjective(outgoing')
    BY <1>5, <2>1, Zenon
  <2>3. /\ {} \union Range(outgoing') = Range(outgoing) \union ({stmt[t].cursorID : t \in S} \ {0})
        /\ {} \intersect Range(outgoing') = {}
    BY <1>2, <1>5, <2>1, Zenon
  <2>4. cursor' = [c \in Ids |-> IF c \in {} THEN Closed ELSE cursor[c]]
    BY <1>1, <2>1, Zenon DEF TypeInv
  <2> QED  BY <1>1, <1>2, <1>4, <2>2, <2>3, <2>4, ReleaseKeeps, Zenon
<1> QED  BY <1>7, <1>8, Zenon

-----------------------------------------------------------------------------
(* The server's answers to an execution.                                   *)

\* The request in flight and its statement's cursor.
LEMMA RequestFacts ==
  ASSUME Inv, InExec
  PROVE  /\ req \in ExecRequests /\ req.s \in Stmts /\ req.e \in Executors /\ req.oac \in AnyOac
         /\ stmt[req.s].st = "open" /\ req.cursorID = stmt[req.s].cursorID /\ conn = "inuse"
         /\ \/ req.cursorID = 0 /\ req.cursorID \notin OpenIds
            \/ req.cursorID \in OpenIds /\ req.cursorID \in Ids /\ cursor[req.cursorID].of = req.s
         /\ \A t \in Stmts : t # req.s /\ stmt[t].cursorID # 0 => stmt[t].cursorID # req.cursorID
         /\ \A t \in Stmts : stmt[t].cursorID # 0 => stmt[t].cursorID \in Ids /\ cursor[stmt[t].cursorID] # Closed
<1>1. TypeInv /\ Held /\ InFlight
  BY Zenon DEF Inv, Cur
<1>2. req \in ExecRequests
  BY <1>1, InExecRequest, Zenon DEF TypeInv
<1>3. req.s \in Stmts /\ req.e \in Executors /\ req.oac \in AnyOac
  BY <1>2, Zenon DEF ExecRequests
<1>4. stmt[req.s].st = "open" /\ req.cursorID = stmt[req.s].cursorID /\ conn = "inuse"
  BY <1>1, Zenon DEF InFlight
<1>5. \A t \in Stmts : stmt[t].cursorID # 0 =>
        /\ stmt[t].cursorID \in Ids /\ cursor[stmt[t].cursorID].of = t /\ cursor[stmt[t].cursorID] # Closed
  BY <1>1, ConstantsFit DEF TypeInv, StmtStates, Held, Closed
<1>6. 0 \notin OpenIds
  BY ConstantsFit, Zenon DEF OpenIds
<1> QED  BY <1>2, <1>3, <1>4, <1>5, <1>6, ZenonT(30) DEF OpenIds

LEMMA ExecFailedKeeps ==
  ASSUME Inv, ExecFailed
  PROVE  Inv'
<1>1. /\ TypeInv /\ Held /\ Queue /\ Known /\ Remembered /\ Covered /\ InExec /\ req' = NoReq
      /\ UNCHANGED <<conn, stmt, executor, tx, outgoing>>
      /\ cursor' = IF req.cursorID \in OpenIds /\ req.oac # NoOac
                   THEN [cursor EXCEPT ![req.cursorID].oac = req.oac] ELSE cursor
  BY Zenon DEF Inv, Cur, ExecFailed, InExec
<1>2. /\ req.s \in Stmts /\ req.oac \in AnyOac /\ req.cursorID = stmt[req.s].cursorID
      /\ req.cursorID \in OpenIds => req.cursorID \in Ids /\ cursor[req.cursorID].of = req.s
      /\ req.cursorID \notin OpenIds => req.cursorID = 0
      /\ \A t \in Stmts : t # req.s /\ stmt[t].cursorID # 0 => stmt[t].cursorID # req.cursorID
      /\ \A t \in Stmts : stmt[t].cursorID # 0 => stmt[t].cursorID \in Ids
  BY <1>1, RequestFacts, Zenon
<1>3. cursor \in [Ids -> Cursors]
  BY <1>1, Zenon DEF TypeInv
<1>4. /\ cursor' \in [Ids -> Cursors]
      /\ \A d \in Ids : cursor'[d].of = cursor[d].of
      /\ \A d \in Ids : d # req.cursorID => cursor'[d] = cursor[d]
      /\ req.cursorID # 0 => cursor'[req.cursorID].oac = IF req.oac # NoOac THEN req.oac ELSE cursor[req.cursorID].oac
  <2>1. CASE req.cursorID \in OpenIds /\ req.oac # NoOac
    BY <1>1, <1>2, <1>3, <2>1, ZenonT(30) DEF Cursors
  <2>2. CASE ~(req.cursorID \in OpenIds /\ req.oac # NoOac)
    BY <1>1, <1>2, <1>3, <2>2, SMTT(30)
  <2> QED  BY <2>1, <2>2, Zenon
<1>5. \A d \in Ids : cursor'[d] = Closed <=> cursor[d] = Closed
  BY <1>1, <1>2, <1>4, ConstantsFit, SMTT(30) DEF Closed, OpenIds
<1>6. req' \in Requests /\ ~InExec'
  BY <1>1, NotInExec, Zenon DEF InExec, ExecKinds
<1>7. TypeInv'
  BY <1>1, <1>4, <1>6, Zenon DEF TypeInv
<1>8. Held'
  BY <1>1, <1>2, <1>4, Zenon DEF Held
<1>9. Queue'
  <2>1. Range(outgoing) \subseteq Ids
    BY <1>1, QueueElements, Zenon DEF TypeInv
  <2> QED  BY <1>1, <1>5, <2>1, Zenon DEF Queue
<1>10. Known'
  BY <1>1, <1>5, Zenon DEF Known
<1>11. InFlight' /\ Remembered'
  BY <1>1, <1>6, Zenon DEF InFlight, Remembered
<1>12. \A t \in Stmts : stmt[t].cursorID # 0 => Told(t)' = Told(t)
  BY <1>1, <1>2, <1>4, <1>6, Zenon DEF Told
<1>13. Covered'
  BY <1>1, <1>12, Zenon DEF Covered
<1> QED  BY <1>7, <1>8, <1>9, <1>10, <1>11, <1>13, Zenon DEF Inv, Cur

LEMMA ExecDoneKeeps ==
  ASSUME Inv, NEW c \in Ids, NEW rows \in BOOLEAN, ExecDone(c, rows)
  PROVE  Inv'
<1> DEFINE s == req.s
           cid == req.cursorID
           told == IF req.oac = NoOac THEN cursor[c].oac ELSE req.oac
<1>1. /\ TypeInv /\ Held /\ Queue /\ Known /\ InFlight /\ Remembered /\ Covered
      /\ InExec /\ req.kind = "exec" /\ CanRun(req) /\ UNCHANGED <<conn, tx, outgoing>>
      /\ stmt' = [stmt EXCEPT ![s].cursorID = c]
      /\ cursor' = [cursor EXCEPT ![c] = [of |-> s, oac |-> told]]
  BY Zenon DEF Inv, Cur, ExecDone, InExec, ExecKinds
<1>2. /\ req \in ExecRequests /\ s \in Stmts /\ req.e \in Executors /\ req.oac \in AnyOac
      /\ stmt[s].st = "open" /\ cid = stmt[s].cursorID /\ conn = "inuse"
      /\ \A t \in Stmts : stmt[t].cursorID # 0 => stmt[t].cursorID \in Ids /\ cursor[stmt[t].cursorID] # Closed
  BY <1>1, RequestFacts, Zenon
<1>3. \/ cid # 0 /\ c = cid
      \/ cid = 0 /\ cursor[c] = Closed
  <2>1. \/ cid = 0 /\ cid \notin OpenIds
        \/ cid \in OpenIds /\ cid \in Ids
    BY <1>1, RequestFacts, Zenon
  <2>2. IF cid \in OpenIds THEN c = cid ELSE c \in Ids \ OpenIds
    BY Zenon DEF ExecDone
  <2>3. cid \in Ids => cid # 0
    BY ConstantsFit, Zenon
  <2> HIDE DEF cid
  <2> QED  BY <2>1, <2>2, <2>3, Zenon DEF OpenIds
<1>4. \A t \in Stmts : t # s => stmt[t].cursorID # c
  <2>1. \A t \in Stmts : t # s /\ stmt[t].cursorID # 0 => stmt[t].cursorID # cid
    BY <1>1, RequestFacts, Zenon
  <2> QED  BY <1>2, <1>3, <2>1, ConstantsFit, Zenon
<1>5. \/ s \in Select /\ executor' = executor /\ req' = (IF rows THEN NoReq ELSE DefineMsg(s, c))
      \/ s \notin Select /\ executor' = [executor EXCEPT ![s][req.e].parse = FALSE] /\ req' = NoReq
  BY Zenon DEF ExecDone
<1> HIDE DEF s, cid
<1>6. /\ told \in AnyOac
      /\ cursor \in [Ids -> Cursors] /\ stmt \in [Stmts -> StmtStates]
      /\ executor \in [Stmts -> [Executors -> ExecutorStates]]
  BY <1>1, <1>2, Zenon DEF TypeInv, Cursors
<1> HIDE DEF told
<1>7. /\ cursor' \in [Ids -> Cursors] /\ cursor'[c] = [of |-> s, oac |-> told]
      /\ \A d \in Ids : d # c => cursor'[d] = cursor[d]
  BY <1>1, <1>2, <1>6, Zenon DEF Cursors
<1>8. /\ stmt' \in [Stmts -> StmtStates] /\ stmt'[s].cursorID = c /\ stmt'[s].st = "open"
      /\ \A t \in Stmts : t # s => stmt'[t] = stmt[t]
  BY <1>1, <1>2, <1>6, ConstantsFit DEF StmtStates
<1>9. /\ executor' \in [Stmts -> [Executors -> ExecutorStates]]
      /\ \A t \in Stmts, e \in Executors : executor'[t][e].previousOacs = executor[t][e].previousOacs
      /\ \A t \in Stmts, e \in Executors : t # s \/ e # req.e => executor'[t][e] = executor[t][e]
      /\ \A t \in Stmts : t \in Select => executor'[t] = executor[t]
  <2>1. CASE executor' = executor
    BY <1>6, <2>1, Zenon
  <2>2. CASE s \notin Select /\ executor' = [executor EXCEPT ![s][req.e].parse = FALSE]
    <3> DEFINE y == [executor[s][req.e] EXCEPT !.parse = FALSE]
    <3>1. y \in ExecutorStates /\ y.previousOacs = executor[s][req.e].previousOacs
      <4>1. executor[s][req.e] \in ExecutorStates
        BY <1>2, <1>6, Zenon
      <4> QED  BY <4>1, Zenon DEF ExecutorStates
    <3>2. executor' = [executor EXCEPT ![s][req.e] = y]
      BY <1>2, <1>6, <2>2, Zenon
    <3> HIDE DEF y
    <3> QED  BY <1>2, <1>6, <2>2, <3>1, <3>2
  <2> QED  BY <1>5, <2>1, <2>2, Zenon
<1>10. \/ req' = NoReq /\ ~InExec'
       \/ /\ s \in Select /\ InExec'
          /\ req' = [kind |-> "define", s |-> s, e |-> "query", sql |-> FALSE,
                     cursorID |-> c, oac |-> NoOac, val |-> NoOac, commit |-> FALSE]
  BY <1>5, NotInExec DEF DefineMsg, InExec, ExecKinds
<1>11. req' \in Requests
  <2>1. [kind |-> "define", s |-> s, e |-> "query", sql |-> FALSE, cursorID |-> c,
         oac |-> NoOac, val |-> NoOac, commit |-> FALSE] \in ExecRequests
    <3>1. c \in 0..MaxCursor /\ NoOac \in AnyOac
      BY ConstantsFit, Zenon DEF AnyOac
    <3> QED  BY <1>2, <3>1, Zenon DEF ExecRequests, ExecKinds, Executors
  <2> QED  BY <1>10, <2>1, NotInExec, Zenon
<1>12. TypeInv'
  BY <1>1, <1>7, <1>8, <1>9, <1>11, Zenon DEF TypeInv
<1>13. Held'
  BY <1>1, <1>2, <1>4, <1>7, <1>8 DEF Held
<1>14. Queue'
  <2>1. c \notin Range(outgoing)
    BY <1>1, <1>2, <1>3, Zenon DEF Queue
  <2>2. Range(outgoing) \subseteq Ids
    BY <1>1, QueueElements, Zenon DEF TypeInv
  <2>3. \A d \in Range(outgoing) : cursor'[d] # Closed
    BY <1>1, <1>7, <2>1, <2>2, Zenon DEF Queue
  <2>4. \A t \in Stmts : stmt'[t].cursorID \notin Range(outgoing)
    BY <1>1, <1>8, <2>1, Zenon DEF Queue
  <2> QED  BY <1>1, <2>3, <2>4, Zenon DEF Queue
<1>15. Known'
  <2> SUFFICES ASSUME NEW d \in Ids, d # c, cursor[d] # Closed
               PROVE  (\E t \in Stmts : stmt'[t].cursorID = d) \/ d \in Range(outgoing')
    BY <1>2, <1>7, <1>8, Zenon DEF Known
  <2>1. CASE d \in Range(outgoing)
    BY <1>1, <2>1, Zenon
  <2>2. ASSUME NEW t \in Stmts, stmt[t].cursorID = d
        PROVE  \E u \in Stmts : stmt'[u].cursorID = d
    BY <1>2, <1>3, <1>8, <2>2, ConstantsFit, ZenonT(30)
  <2> QED  BY <1>1, <2>1, <2>2, Zenon DEF Known
<1>16. InFlight'
  BY <1>1, <1>2, <1>8, <1>10 DEF InFlight, ExecKinds
<1>17. Remembered'
  BY <1>1, <1>9, SMTT(30) DEF Remembered
<1>18. Covered'
  <2> SUFFICES ASSUME NEW t \in Stmts, NEW a \in Executors, NEW o \in Executors,
                      a # o, executor'[t][o] = NewExecutor, stmt'[t].cursorID # 0,
                      executor'[t][a].previousOacs # NoOac
               PROVE  Covers(Told(t)', executor'[t][a].previousOacs)
    BY Zenon DEF Covered
  <2>1. Told(t)' = cursor'[stmt'[t].cursorID].oac
    BY <1>10, SMTT(30) DEF Told
  <2>2. CASE t # s
    <3>1. /\ executor'[t] = executor[t] \/ (executor'[t][a] = executor[t][a] /\ executor'[t][o] = executor[t][o])
          /\ stmt'[t] = stmt[t] /\ cursor'[stmt[t].cursorID] = cursor[stmt[t].cursorID]
      BY <1>2, <1>4, <1>7, <1>8, <1>9, <2>2, ZenonT(30)
    <3>2. Told(t) = cursor[stmt[t].cursorID].oac
      BY <2>2, Zenon DEF Told, s
    <3> QED  BY <1>1, <2>1, <3>1, <3>2, ZenonT(30) DEF Covered
  <2>3. CASE t = s
    <3> DEFINE p == executor[s][req.e].previousOacs
    <3>1. s \in Bound
      BY <1>17, <2>3, Zenon DEF Remembered
    <3>2. req.val # NoOac /\ req.val \in AnyOac
      BY <1>1, <1>2, <3>1, ConstantsFit, Zenon DEF InFlight, s
    <3>3. Covers(p, req.val) /\ p \in AnyOac
      BY <1>1, <1>2, <1>6, <3>2, Zenon DEF InFlight, s, ExecutorStates
    <3>4. p # NoOac
      BY <3>2, <3>3, OacFields, Zenon DEF Covers
    <3>5. o # req.e /\ a = req.e
      BY <1>2, <1>9, <2>3, <3>4 DEF NewExecutor, Executors
    <3>6. executor'[t][a].previousOacs = p /\ executor[s][o] = NewExecutor
      BY <1>2, <1>9, <2>3, <3>5, Zenon
    <3>7. Told(t)' = told
      BY <1>7, <1>8, <2>1, <2>3, SMTT(30)
    <3> HIDE DEF p
    <3>8. CASE req.oac # NoOac
      <4>1. told = p
        BY <1>1, <3>8, Zenon DEF InFlight, told, p, s
      <4> QED  BY <3>3, <3>6, <3>7, <4>1, OacFields, SMTT(30) DEF Covers
    <3>9. CASE req.oac = NoOac /\ cid # 0
      <4>1. Told(s) = cursor[c].oac /\ told = cursor[c].oac
        BY <1>2, <1>3, <3>9, Zenon DEF Told, told
      <4>2. Covers(Told(s), p)
        BY <1>1, <1>2, <3>4, <3>5, <3>6, <3>9, Zenon DEF Covered, p
      <4> QED  BY <3>6, <3>7, <4>1, <4>2, Zenon
    <3>10. CASE req.oac = NoOac /\ cid = 0
      <4>1. KnowsBinds(req)
        BY <1>1, Zenon DEF CanRun, ExecKinds
      <4>2. ~Covers(req.oac, req.val)
        BY <1>2, <3>2, <3>10, OacFields, Zenon DEF Covers
      <4>3. req.cursorID \notin Ids
        BY <3>10, ConstantsFit, Zenon DEF cid
      <4> QED  BY <3>2, <4>1, <4>2, <4>3, Zenon DEF KnowsBinds
    <3> QED  BY <3>8, <3>9, <3>10, Zenon
  <2> QED  BY <2>2, <2>3, ZenonT(30)
<1> QED  BY <1>12, <1>13, <1>14, <1>15, <1>16, <1>17, <1>18, Zenon DEF Inv, Cur

-----------------------------------------------------------------------------
(* The theorems.                                                           *)

LEMMA NextKeeps ==
  ASSUME Inv, [Next]_vars
  PROVE  Inv'
<1>1. CASE UNCHANGED vars
  <2>1. /\ conn' = conn /\ stmt' = stmt /\ executor' = executor /\ tx' = tx /\ outgoing' = outgoing
        /\ cursor' = cursor /\ req' = req
    BY <1>1, Zenon DEF vars
  <2>2. TypeInv' /\ Held' /\ Queue' /\ Known'
    BY <2>1, Zenon DEF Inv, Cur, TypeInv, Held, Queue, Known
  <2>3. InFlight' /\ Remembered'
    BY <2>1, Zenon DEF Inv, Cur, InFlight, InExec, Remembered
  <2>4. Covered'
    BY <2>1 DEF Inv, Covered, Told, InExec
  <2> QED  BY <2>2, <2>3, <2>4, Zenon DEF Inv, Cur
<1>2. ASSUME NEW s \in Stmts, NEW v \in Values(s), QuerySelect(s, v)
      PROVE  Inv'
  <2>1. Sends(s, "query", v) /\ "query" \in Executors
    BY <1>2, QuerySends, Zenon DEF Inv, Cur, Executors
  <2> QED  BY <2>1, SendKeeps, Zenon
<1>3. ASSUME NEW s \in Stmts, NEW v \in Values(s), NEW e \in Executors, Exec(s, e, v)
      PROVE  Inv'
  <2>1. Sends(s, e, v)
    BY <1>3, ExecSends, Zenon DEF Inv, Cur
  <2> QED  BY <2>1, SendKeeps, Zenon
<1> QED  BY <1>1, <1>2, <1>3, PrepareKeeps, CloseKeeps, ExecDoneKeeps, ExecFailedKeeps, BeginDoneKeeps,
            TransactionsKeep, ResetKeeps, Zenon DEF Next

LEMMA InitHolds ==
  ASSUME Init
  PROVE  Inv /\ NoCommit
<1>1. /\ stmt = [s \in Stmts |-> Unprepared] /\ req = NoReq /\ outgoing = << >> /\ durable = {}
      /\ executor = [s \in Stmts |-> [e \in Executors |-> NewExecutor]]
      /\ cursor = [c \in Ids |-> Closed] /\ tx = [registered |-> FALSE, sql |-> FALSE]
  BY Zenon DEF Init
<1>2. /\ Unprepared \in StmtStates /\ Unprepared.cursorID = 0
      /\ NewExecutor \in ExecutorStates /\ NewExecutor.previousOacs = NoOac
  BY ConstantsFit, Zenon DEF Unprepared, StmtStates, NewExecutor, ExecutorStates, AnyOac
<1>3. outgoing \in Seq(Ids) /\ Range(outgoing) = {} /\ IsInjective(outgoing)
  BY <1>1, EmptyQueue, Zenon
<1>4. req \in Requests /\ ~InExec /\ req.kind # "begin"
  BY <1>1, NotInExec, Zenon DEF InExec, ExecKinds
<1>5. TypeInv
  BY <1>1, <1>2, <1>3, <1>4, ConstantsFit, Zenon DEF TypeInv
<1>6. Held /\ Queue /\ Known /\ InFlight
  BY <1>1, <1>2, <1>3, <1>4, Zenon DEF Held, Queue, Known, InFlight
<1>7. Remembered /\ Covered
  BY <1>1, <1>2, <1>4, Zenon DEF Remembered, Covered, Executors
<1>8. NoCommit
  BY <1>1, <1>4, Zenon DEF NoCommit
<1> QED  BY <1>5, <1>6, <1>7, <1>8, Zenon DEF Inv, Cur

(* The inductive invariant of the statements of a connection: their        *)
(* cursors, the queue of OCCA messages, the request in flight and the      *)
(* descriptors the executors remember.                                     *)
THEOREM StatementsInvariant == Spec => []Inv
<1>1. Init => Inv
  BY InitHolds, Zenon
<1>2. Inv /\ [Next]_vars => Inv'
  BY NextKeeps, Zenon
<1> QED  BY <1>1, <1>2, PTL DEF Spec

(* Whatever statements are prepared, executed, closed and drained, every   *)
(* cursor open in the server is held by exactly one statement or named by  *)
(* exactly one queued OCCA message, and no closed one by any.              *)
THEOREM CursorsAccountedAlways == Spec => []CursorsAccounted
<1>1. Inv => CursorsAccounted
  <2> SUFFICES ASSUME Inv, NEW c \in Ids
               PROVE  Claims(c) = IF c \in OpenIds THEN 1 ELSE 0
    BY Zenon DEF CursorsAccounted
  <2> DEFINE H == {s \in Stmts : stmt[s].cursorID = c}
             Q == {i \in DOMAIN outgoing : outgoing[i] = c}
  <2>1. Held /\ Queue /\ Known /\ c # 0
    BY ConstantsFit, Zenon DEF Inv, Cur
  <2>2. \A s \in H, t \in H : s = t
    BY <2>1, Zenon DEF Held
  <2>3. \A i \in Q, j \in Q : i = j
    BY <2>1, Zenon DEF Queue, IsInjective
  <2>4. Q # {} <=> c \in Range(outgoing)
    BY Zenon DEF Range
  <2>5. H = {} \/ Q = {}
    BY <2>1, <2>4, Zenon DEF Queue
  <2>6. H # {} \/ Q # {} <=> c \in OpenIds
    <3>1. \A s \in H : cursor[c] # Closed
      BY <2>1, ConstantsFit, SMTT(30) DEF Held, Closed
    <3>2. c \in Range(outgoing) => cursor[c] # Closed
      BY <2>1, Zenon DEF Queue
    <3>3. cursor[c] # Closed => H # {} \/ c \in Range(outgoing)
      BY <2>1, Zenon DEF Known
    <3> QED  BY <2>4, <3>1, <3>2, <3>3, Zenon DEF OpenIds
  <2> HIDE DEF H, Q
  <2>7. \A x : Cardinality({x}) = 1
    BY FS_Singleton, Zenon
  <2>8. Cardinality({}) = 0
    BY FS_EmptySet, Zenon
  <2>9. Cardinality(H) = IF H = {} THEN 0 ELSE 1
    <3>1. H = {} \/ \E x : H = {x}
      BY <2>2
    <3> QED  BY <2>7, <2>8, <3>1, Zenon
  <2>10. Cardinality(Q) = IF Q = {} THEN 0 ELSE 1
    <3>1. Q = {} \/ \E x : Q = {x}
      BY <2>3
    <3> QED  BY <2>7, <2>8, <3>1, Zenon
  <2>11. Claims(c) = Cardinality(H) + Cardinality(Q)
    BY Zenon DEF Claims, H, Q
  <2> QED  BY <2>5, <2>6, <2>9, <2>10, <2>11
<1> QED  BY <1>1, StatementsInvariant, PTL

(* A request that names a cursor names an open one with the statement's    *)
(* own SQL and, while one executor alone runs the statement, one that was  *)
(* told of descriptors the bind values fit.                                *)
THEOREM RequestFitsCursorAlways == Spec => []RequestFitsCursor
<1>1. Inv => RequestFitsCursor
  <2> SUFFICES ASSUME Inv, InExec, req.cursorID # 0
               PROVE  KnowsSQL(req) /\ (OneExecutor(req.s) => KnowsBinds(req))
    BY Zenon DEF RequestFitsCursor, InExec
  <2>1. /\ req.s \in Stmts /\ req.e \in Executors /\ req.oac \in AnyOac
        /\ req.cursorID = stmt[req.s].cursorID
        /\ req.cursorID \in Ids /\ cursor[req.cursorID].of = req.s
    BY RequestFacts, Zenon
  <2>2. KnowsSQL(req)
    BY <2>1, Zenon DEF KnowsSQL
  <2>3. ASSUME OneExecutor(req.s), req.val # NoOac
        PROVE  KnowsBinds(req)
    <3> DEFINE p == executor[req.s][req.e].previousOacs
               told == Told(req.s)
    <3>1. TypeInv /\ InFlight /\ Covered /\ req \in ExecRequests
      BY RequestFacts, Zenon DEF Inv, Cur
    <3>2. p \in AnyOac /\ req.val \in AnyOac /\ cursor[req.cursorID].oac \in AnyOac
      BY <2>1, <3>1 DEF TypeInv, ExecutorStates, ExecRequests, Cursors
    <3>3. Covers(p, req.val)
      BY <2>3, <3>1, Zenon DEF InFlight
    <3>4. p # NoOac
      BY <2>3, <3>2, <3>3, OacFields, Zenon DEF Covers
    <3>5. PICK o \in Executors : executor[req.s][o] = NewExecutor
      BY <2>3, Zenon DEF OneExecutor
    <3>6. o # req.e
      BY <3>4, <3>5 DEF NewExecutor
    <3>7. Covers(told, p)
      BY <2>1, <3>1, <3>4, <3>5, <3>6, Zenon DEF Covered
    <3>8. told = IF req.oac # NoOac THEN req.oac ELSE cursor[req.cursorID].oac
      BY <2>1, Zenon DEF Told
    <3> HIDE DEF p, told
    <3>9. Covers(told, req.val)
      BY <2>1, <3>2, <3>3, <3>7, <3>8, CoversTransitive, Zenon
    <3> QED  BY <2>1, <3>8, <3>9, Zenon DEF KnowsBinds
  <2> QED  BY <2>2, <2>3, Zenon DEF KnowsBinds
<1> QED  BY <1>1, StatementsInvariant, PTL

(* Nothing done in a transaction is durable before its Commit: an          *)
(* execution in a registered transaction never carries the commit flag.    *)
THEOREM TransactionIsAtomicAlways == Spec => []TransactionIsAtomic
<1>1. Init => Inv /\ NoCommit
  BY InitHolds, Zenon
<1>2. ASSUME Inv, NoCommit, [Next]_vars
      PROVE  NoCommit'
  <2>1. TypeInv /\ tx \in TxStates
    BY <1>2, Zenon DEF Inv, Cur, TypeInv, TxStates
  <2>2. NoReq.kind = "none"
    BY NotInExec, Zenon
  <2>3. ASSUME NEW s \in Stmts, NEW e \in Executors, NEW v \in Values(s), Sends(s, e, v)
        PROVE  NoCommit'
    <3>1. PICK r \in ExecRequests : /\ Fits(s, e, v, r) /\ req' = r /\ UNCHANGED <<tx, durable>>
      BY <2>3, Zenon DEF Sends, SendExec
    <3> QED  BY <1>2, <3>1, Zenon DEF NoCommit, Fits
  <2>4. ASSUME NEW s \in Stmts, NEW v \in Values(s), QuerySelect(s, v)
        PROVE  NoCommit'
    BY <2>1, <2>3, <2>4, QuerySends, Zenon DEF Executors
  <2>5. ASSUME NEW s \in Stmts, NEW v \in Values(s), NEW e \in Executors, Exec(s, e, v)
        PROVE  NoCommit'
    BY <2>1, <2>3, <2>5, ExecSends, Zenon
  <2>6. ASSUME NEW c \in Ids, NEW rows \in BOOLEAN, ExecDone(c, rows)
        PROVE  NoCommit'
    <3>1. UNCHANGED tx /\ (req' = NoReq \/ (req' = DefineMsg(req.s, c) /\ req.s \in Select)) /\ InExec
      BY <2>6, Zenon DEF ExecDone, InExec, ExecKinds
    <3>2. durable' = {}
      BY <1>2, <2>6, <3>1, Zenon DEF ExecDone, NoCommit
    <3> QED  BY <1>2, <2>2, <3>1, <3>2, SMTT(30) DEF NoCommit, InExec, ExecKinds, DefineMsg
  <2>7. ASSUME NEW c \in Ids, BeginDone(c)
        PROVE  NoCommit'
    <3>1. req \in [kind : TxKinds, more : 0..1]
      BY <2>1, <2>7 DEF BeginDone, TypeInv, Requests, NoReq, ExecKinds
    <3>2. CASE req.more = 1
      BY <1>2, <2>7, <3>1, <3>2, Zenon DEF NoCommit, BeginDone, InExec, ExecKinds
    <3>3. CASE req.more # 1
      BY <1>2, <2>1, <2>2, <2>7, <3>3, Zenon DEF NoCommit, BeginDone, InExec, ExecKinds, TxStates
    <3> QED  BY <3>2, <3>3, Zenon
  <2>8. CASE \/ DefineDone \/ ExecFailed \/ Release \/ ResetSession \/ ResetSessionFails
             \/ \E s \in Stmts : Prepare(s) \/ Close(s)
    <3>1. UNCHANGED <<tx, durable>> /\ (req' = NoReq \/ req' = req)
      BY <2>8, Zenon DEF DefineDone, ExecFailed, Release, ResetSession, ResetSessionFails, Prepare, Close
    <3> QED  BY <1>2, <2>2, <3>1, Zenon DEF NoCommit, InExec, ExecKinds
  <2>9. CASE BeginFailed \/ EndTxDone \/ EndTxFailed
    <3>1. req' = NoReq /\ durable' = {}
      BY <1>2, <2>9, Zenon DEF BeginFailed, EndTxDone, EndTxFailed, NoCommit
    <3>2. tx'.sql => tx'.registered
      <4>1. CASE BeginFailed
        BY <1>2, <2>1, <4>1, Zenon DEF BeginFailed, NoCommit, TxStates
      <4>2. CASE EndTxDone \/ EndTxFailed
        BY <1>2, <2>1, <4>2 DEF EndTxDone, EndTxFailed, NoCommit, TxStates
      <4> QED  BY <2>9, <4>1, <4>2, Zenon
    <3> QED  BY <2>2, <3>1, <3>2, Zenon DEF NoCommit, InExec, ExecKinds
  <2>10. ASSUME NEW more \in 0..1, BeginTx(more)
         PROVE  NoCommit'
    BY <1>2, <2>1, <2>10, Zenon DEF BeginTx, NoCommit, InExec, ExecKinds, TxStates
  <2>11. ASSUME NEW kind \in {"commit", "rollback"}, EndTx(kind)
         PROVE  NoCommit'
    BY <1>2, <2>11, Zenon DEF EndTx, NoCommit, InExec, ExecKinds
  <2>12. CASE UNCHANGED vars
    BY <1>2, <2>12, Zenon DEF vars, NoCommit, InExec
  <2> QED  BY <1>2, <2>4, <2>5, <2>6, <2>7, <2>8, <2>9, <2>10, <2>11, <2>12, Zenon DEF Next
<1>3. Inv /\ NoCommit /\ [Next]_vars => (Inv /\ NoCommit)'
  BY <1>2, NextKeeps, Zenon
<1>4. Inv /\ NoCommit => TransactionIsAtomic
  BY Zenon DEF NoCommit, TransactionIsAtomic
<1> QED  BY <1>1, <1>3, <1>4, PTL DEF Spec
=============================================================================
