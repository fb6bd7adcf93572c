-------------------------- MODULE PreparedStatement --------------------------
(***************************************************************************)
(* The statements of one connection: what the driver remembers of a        *)
(* statement between two executions, and what the server then knows of it. *)
(*                                                                         *)
(* A Statement (statement.go) holds the cursor the server gave it and two   *)
(* executors (statement_executors.go), one for queries and one for          *)
(* executions; each executor remembers whether the SQL text must still be   *)
(* sent, whether the execution commits, and the bind descriptors (OACs) it  *)
(* sent last.  A cursor is closed by an OCCA message that is only pushed    *)
(* and rides with the next request.  The connection keeps the statements    *)
(* it must close when it is taken from the pool again (ResetSession) and    *)
(* the transaction in progress.                                             *)
(*                                                                         *)
(* External: the pool of database/sql (CheckOut, Release, and the rule      *)
(* that a transaction ends before the connection is released) and the       *)
(* server (which cursors are open, the SQL and the descriptors each holds,  *)
(* what was committed).  The server gives a closed cursor's id      *)
(* again, and keeps no cursor of a first execution that failed.             *)
(***************************************************************************)
EXTENDS Integers, Sequences, FiniteSets, Functions

CONSTANTS
  Select,        \* the SELECT statements
  DML,           \* the INSERT/UPDATE/DELETE and other non-query statements
  PlSql,         \* the PL/SQL blocks: both executors run them
  Bound,         \* the statements with a bind placeholder
  Types,         \* data types of bind values
  MaxLen,        \* longest encoded bind value
  BindValues,    \* the bind values: a type and an encoded length
  MaxCursor,     \* cursors the server can have open
  MaxOutgoing,   \* outgoingMessagesListMaxLength (50 in the code)
  MaxErrors,     \* bound: errors the server answers
  MaxResets      \* bound: times the connection is taken from the pool again

Stmts == Select \union DML \union PlSql

NoStmt == "nostmt"

\* A bind descriptor: a data type and a maximal length.
Oacs == [type : Types, len : 1..MaxLen]

ASSUME ConstantsAssumption ==
  /\ Bound \subseteq Stmts
  /\ Select \intersect (DML \union PlSql) = {} /\ DML \intersect PlSql = {}
  /\ {NoStmt, "SET TRANSACTION"} \intersect Stmts = {} /\ "noType" \notin Types
  /\ MaxLen \in Nat \ {0} /\ BindValues \subseteq Oacs
  /\ MaxCursor \in Nat \ {0} /\ MaxOutgoing \in Nat
  /\ MaxErrors \in Nat /\ MaxResets \in Nat

VARIABLES
  conn,          \* "inuse", "idle" in the pool, or "bad"
  stmt,          \* per statement: its state, in the shelf or not, its cursor
  executor,      \* per statement and executor: what it remembers
  tx,            \* is a transaction registered (shelf), open for database/sql
  outgoing,      \* cursors of the OCCA messages pushed and not flushed
  cursor,        \* the server's cursors
  durable,       \* statements whose work the server committed in an open transaction
  req,           \* the request the server has to answer
  errors, resets \* how often the bounded events happened

vars == <<conn, stmt, executor, tx, outgoing, cursor, durable, req, errors, resets>>

Ids == 1..MaxCursor
Executors == {"query", "exec"}

\* No descriptor, and the value of a statement without binds.
NoOac == [type |-> "noType", len |-> 0]
Values(s) == IF s \in Bound THEN BindValues ELSE {NoOac}

\* A server cursor: the statement whose SQL it holds, the binds it was told of.
Closed == [of |-> NoStmt, oac |-> NoOac]
SetTransaction == "SET TRANSACTION"   \* the statement BeginTx runs and closes
OpenIds == {c \in Ids : cursor[c] # Closed}

NoReq == [kind |-> "none"]
ExecKinds == {"exec", "define"}
TxKinds == {"begin", "commit", "rollback"}
Requests ==
  {NoReq} \union
  [kind : ExecKinds, s : Stmts, e : Executors, sql : BOOLEAN, cursorID : 0..MaxCursor,
   oac : Oacs \union {NoOac}, val : Oacs \union {NoOac}, commit : BOOLEAN] \union
  [kind : TxKinds, more : 0..1]

NewExecutor == [parse |-> TRUE, commit |-> TRUE, previousOacs |-> NoOac]
Unprepared == [st |-> "none", shelf |-> FALSE, cursorID |-> 0]

Init ==
  /\ conn = "inuse"
  /\ stmt = [s \in Stmts |-> Unprepared]
  /\ executor = [s \in Stmts |-> [e \in Executors |-> NewExecutor]]
  /\ tx = [registered |-> FALSE, sql |-> FALSE]
  /\ outgoing = << >>
  /\ cursor = [c \in Ids |-> Closed]
  /\ durable = {}
  /\ req = NoReq
  /\ errors = 0 /\ resets = 0

-----------------------------------------------------------------------------
(* What the executors send.                                                *)

\* Which executor runs an operation on a statement.
Runs(s, e) == \/ s \in Select /\ e = "query"
              \/ s \in DML /\ e = "exec"
              \/ s \in PlSql

\* The descriptor of a value, never shorter than the last one sent.
CurrentOac(prev, v) ==
  IF v = NoOac THEN NoOac
  ELSE [v EXCEPT !.len = IF prev.len > v.len THEN prev.len ELSE v.len]

\* Mutant: a longer value does not count as a change.
needToSendOACsTypeOnly(prev, cur) == cur = NoOac \/ prev.type # cur.type

needToSendOACs(prev, cur) ==
  \/ cur = NoOac
  \/ prev.type # cur.type
  \/ prev.len < cur.len

\* Mutant: the flag stays in a transaction.
initForTransactionNever(x) == x

\* The flag of an execution that runs in a transaction is removed, for good.
initForTransaction(x) ==
  IF tx.registered THEN [x EXCEPT !.commit = FALSE] ELSE x

\* OALL8: SQL text while it must be parsed, descriptors when they changed.
createOAll8Msg(s, e, x, v) ==
  LET cur == CurrentOac(x.previousOacs, v) IN
  [kind |-> "exec", s |-> s, e |-> e, sql |-> x.parse,
   cursorID |-> stmt[s].cursorID,
   oac |-> IF needToSendOACs(x.previousOacs, cur) THEN cur ELSE NoOac,
   val |-> v, commit |-> x.commit]

\* OEXFEN: the cursor and the bind values only.
createOexfenMsg(s, v) ==
  [kind |-> "exec", s |-> s, e |-> "query", sql |-> FALSE,
   cursorID |-> stmt[s].cursorID, oac |-> NoOac, val |-> v, commit |-> FALSE]

\* The define/fetch round of a SELECT whose first round returned no rows.
DefineMsg(s, c) ==
  [kind |-> "define", s |-> s, e |-> "query", sql |-> FALSE,
   cursorID |-> c, oac |-> NoOac, val |-> NoOac, commit |-> FALSE]

-----------------------------------------------------------------------------
(* The server (external): it takes the OCCA messages of a flush first.      *)

\* The cursors after the server has read the OCCA messages q.
AfterOcca(q) ==
  [c \in Ids |-> IF c \in Range(q) THEN Closed ELSE cursor[c]]

Covers(oac, v) == oac.type = v.type /\ oac.len >= v.len

\* A request the server can run: it knows the SQL, and the shape of the binds.
KnowsSQL(r) == r.sql \/ (r.cursorID \in Ids /\ cursor[r.cursorID].of = r.s)
KnowsBinds(r) ==
  \/ r.val = NoOac
  \/ Covers(r.oac, r.val)
  \/ r.cursorID \in Ids /\ Covers(cursor[r.cursorID].oac, r.val)

\* ... and it has a cursor for it.
CanRun(r) ==
  /\ r.kind \in ExecKinds => KnowsSQL(r) /\ KnowsBinds(r)
  /\ r.kind = "exec" => r.cursorID \in OpenIds \/ OpenIds # Ids
  /\ r.kind = "begin" => OpenIds # Ids

\* An error is the server's choice, within the bound, or has to be.
Refused == /\ errors < MaxErrors \/ ~CanRun(req)
           /\ errors' = IF errors < MaxErrors THEN errors + 1 ELSE errors

-----------------------------------------------------------------------------
(* Statements.                                                             *)

\* connection.PrepareContext: a new Statement registers itself in the shelf.
Prepare(s) ==
  /\ conn = "inuse" /\ req = NoReq /\ stmt[s].st = "none"
  /\ stmt' = [stmt EXCEPT ![s] = [st |-> "open", shelf |-> TRUE, cursorID |-> 0]]
  /\ executor' = [executor EXCEPT ![s] = [e \in Executors |-> NewExecutor]]
  /\ UNCHANGED <<conn, tx, outgoing, cursor, durable, req, errors, resets>>

\* Push: a queue longer than its limit is flushed before the message is added.
Pushed(q, cs, id) ==
  IF Len(q) > MaxOutgoing
  THEN [out |-> <<id>>, cursor |-> [c \in Ids |-> IF c \in Range(q) THEN Closed ELSE cs[c]]]
  ELSE [out |-> Append(q, id), cursor |-> cs]

\* Statement._closeCursor: an OCCA for the cursor, when there is one.
closeCursor(s) ==
  IF stmt[s].cursorID = 0
  THEN [out |-> outgoing, cursor |-> cursor, id |-> 0]
  ELSE LET p == Pushed(outgoing, cursor, stmt[s].cursorID)
       IN  [out |-> p.out, cursor |-> p.cursor, id |-> 0]

\* Statement.Close by database/sql, which forgets the statement afterwards;
\* ResetSession may have closed it before.
Close(s) ==
  LET closed == closeCursor(s) IN
  /\ conn # "bad" /\ req = NoReq /\ stmt[s].st = "open"
  /\ outgoing' = closed.out
  /\ cursor' = closed.cursor
  /\ stmt' = [stmt EXCEPT ![s] = [st |-> "none", shelf |-> FALSE, cursorID |-> closed.id]]
  /\ UNCHANGED <<conn, executor, tx, durable, req, errors, resets>>

\* An executor builds its request, remembers the descriptors and flushes.
SendExec(s, e, x, v, r) ==
  /\ req' = r
  /\ executor' = [executor EXCEPT ![s][e] =
       [x EXCEPT !.previousOacs = IF v = NoOac THEN @ ELSE CurrentOac(@, v)]]
  /\ cursor' = AfterOcca(outgoing)
  /\ outgoing' = << >>
  /\ UNCHANGED <<conn, stmt, tx, durable, errors, resets>>

\* statementExecutorSelect.QueryContext, up to its first flush.
QuerySelect(s, v) ==
  LET x == executor[s]["query"] IN
  /\ conn = "inuse" /\ req = NoReq /\ stmt[s].st = "open" /\ s \in Select
  /\ SendExec(s, "query", x, v,
       IF needToSendOACs(x.previousOacs, CurrentOac(x.previousOacs, v))
       THEN [createOAll8Msg(s, "query", x, v) EXCEPT !.sql = TRUE, !.commit = FALSE]
       ELSE createOexfenMsg(s, v))

\* ExecContext of the DML, Others and PL/SQL executors, and QueryContext of the
\* PL/SQL one, up to their flush.
Exec(s, e, v) ==
  LET x == initForTransaction(executor[s][e]) IN
  /\ conn = "inuse" /\ req = NoReq /\ stmt[s].st = "open"
  /\ s \notin Select /\ Runs(s, e)
  /\ SendExec(s, e, x, v, createOAll8Msg(s, e, x, v))

\* The server runs the request in the cursor c and the driver reads the answer:
\* runExec stops sending the SQL, the cursor is kept for the next execution, and
\* a SELECT that got no rows yet asks for them with its defines.
ExecDone(c, rows) ==
  LET s == req.s IN
  /\ req.kind = "exec" /\ CanRun(req)
  /\ IF req.cursorID \in OpenIds THEN c = req.cursorID ELSE c \in Ids \ OpenIds
  /\ cursor' = [cursor EXCEPT ![c] =
       [of |-> s, oac |-> IF req.oac = NoOac THEN @.oac ELSE req.oac]]
  /\ stmt' = [stmt EXCEPT ![s].cursorID = c]
  /\ IF s \in Select
     THEN /\ req' = IF rows THEN NoReq ELSE DefineMsg(s, c)
          /\ UNCHANGED <<executor, durable>>
     ELSE /\ req' = NoReq
          /\ executor' = [executor EXCEPT ![s][req.e].parse = FALSE]
          /\ durable' = IF tx.sql /\ req.commit THEN durable \union {s} ELSE durable
  /\ UNCHANGED <<conn, tx, outgoing, errors, resets>>

\* The rows of the second round of a SELECT.
DefineDone ==
  /\ req.kind = "define" /\ CanRun(req)
  /\ req' = NoReq
  /\ UNCHANGED <<conn, stmt, executor, tx, outgoing, cursor, durable, errors, resets>>

\* An error (TTIOER, or a cancelled context): the cursor and the parse flag stay
\* as they were; a cursor that exists keeps the descriptors the request carried.
ExecFailed ==
  /\ req.kind \in ExecKinds
  /\ Refused
  /\ cursor' = IF req.cursorID \in OpenIds /\ req.oac # NoOac
               THEN [cursor EXCEPT ![req.cursorID].oac = req.oac] ELSE cursor
  /\ req' = NoReq
  /\ UNCHANGED <<conn, stmt, executor, tx, outgoing, durable, resets>>

-----------------------------------------------------------------------------
(* Transactions.                                                           *)

Flushed == /\ cursor' = AfterOcca(outgoing)
           /\ outgoing' = << >>

\* connection.BeginTx registers the transaction and runs one or two SET
\* TRANSACTION statements of its own; one already registered refuses it.
BeginTx(more) ==
  /\ conn = "inuse" /\ req = NoReq /\ ~tx.sql /\ ~tx.registered
  /\ tx' = [tx EXCEPT !.registered = TRUE]
  /\ req' = [kind |-> "begin", more |-> more]
  /\ Flushed
  /\ UNCHANGED <<conn, stmt, executor, durable, errors, resets>>

\* The statement is closed as soon as it returns: its OCCA rides with the second
\* SET TRANSACTION, or waits for the next request.
BeginDone(c) ==
  /\ req.kind = "begin" /\ CanRun(req) /\ c \in Ids \ OpenIds
  /\ IF req.more = 1
     THEN /\ req' = [req EXCEPT !.more = 0]
          /\ UNCHANGED <<tx, cursor, outgoing>>
     ELSE /\ req' = NoReq
          /\ tx' = [tx EXCEPT !.sql = TRUE]
          /\ cursor' = [cursor EXCEPT ![c] = [of |-> SetTransaction, oac |-> NoOac]]
          /\ outgoing' = Append(outgoing, c)
  /\ UNCHANGED <<conn, stmt, executor, durable, errors, resets>>

BeginFailed ==
  /\ req.kind = "begin"
  /\ Refused
  /\ tx' = [tx EXCEPT !.registered = FALSE]
  /\ req' = NoReq
  /\ UNCHANGED <<conn, stmt, executor, outgoing, cursor, durable, resets>>

\* transaction.Commit and transaction.Rollback, up to their flush.
EndTx(kind) ==
  /\ conn = "inuse" /\ req = NoReq /\ tx.sql /\ tx.registered
  /\ req' = [kind |-> kind, more |-> 0]
  /\ Flushed
  /\ UNCHANGED <<conn, stmt, executor, tx, durable, errors, resets>>

EndTxDone ==
  /\ req.kind \in {"commit", "rollback"}
  /\ tx' = [registered |-> FALSE, sql |-> FALSE]
  /\ durable' = {}
  /\ req' = NoReq
  /\ UNCHANGED <<conn, stmt, executor, outgoing, cursor, errors, resets>>

\* On an error the transaction stays registered; for database/sql it is over.
EndTxFailed ==
  /\ req.kind \in {"commit", "rollback"}
  /\ Refused
  /\ tx' = [tx EXCEPT !.sql = FALSE]
  /\ durable' = {}
  /\ req' = NoReq
  /\ UNCHANGED <<conn, stmt, executor, outgoing, cursor, resets>>

-----------------------------------------------------------------------------
(* The pool (external) and ResetSession.                                   *)

\* The connection goes back to the pool once its transaction is over.
Release ==
  /\ conn = "inuse" /\ req = NoReq /\ ~tx.sql
  /\ conn' = "idle"
  /\ UNCHANGED <<stmt, executor, tx, outgoing, cursor, durable, req, errors, resets>>

\* The statements ResetSession takes out of the shelf, and their cursors.
GetStatements == {s \in Stmts : stmt[s].shelf}
DrainedCursors == {stmt[s].cursorID : s \in GetStatements} \ {0}

\* The shelf is a map: its cursors come in some order.
Listed(S) == CHOOSE q \in [1..Cardinality(S) -> S] : IsInjective(q)

Drained == [s \in Stmts |->
  IF stmt[s].shelf THEN [stmt[s] EXCEPT !.shelf = FALSE, !.cursorID = 0] ELSE stmt[s]]

\* Mutant: the drained statements are forgotten, not closed.
ResetSessionDrops ==
  /\ conn = "idle" /\ resets < MaxResets
  /\ conn' = "inuse" /\ resets' = resets + 1
  /\ stmt' = Drained
  /\ Flushed
  /\ UNCHANGED <<executor, tx, durable, req, errors>>

\* ResetSession: every statement of the shelf is closed, then all is flushed.
ResetSession ==
  /\ conn = "idle" /\ resets < MaxResets
  /\ conn' = "inuse" /\ resets' = resets + 1
  /\ stmt' = Drained
  /\ cursor' = AfterOcca(outgoing \o Listed(DrainedCursors))
  /\ outgoing' = << >>
  /\ UNCHANGED <<executor, tx, durable, req, errors>>

\* A flush that fails: driver.ErrBadConn, and the pool drops the connection.
ResetSessionFails ==
  /\ conn = "idle"
  /\ conn' = "bad"
  /\ stmt' = Drained
  /\ outgoing' = outgoing \o Listed(DrainedCursors)
  /\ UNCHANGED <<executor, tx, cursor, durable, req, errors, resets>>

Next ==
  \/ \E s \in Stmts : Prepare(s) \/ Close(s)
  \/ \E s \in Stmts : \E v \in Values(s) :
       QuerySelect(s, v) \/ \E e \in Executors : Exec(s, e, v)
  \/ \E c \in Ids, rows \in BOOLEAN : ExecDone(c, rows)
  \/ DefineDone
  \/ ExecFailed
  \/ \E more \in 0..1 : BeginTx(more)
  \/ \E c \in Ids : BeginDone(c)
  \/ BeginFailed
  \/ \E kind \in {"commit", "rollback"} : EndTx(kind)
  \/ EndTxDone
  \/ EndTxFailed
  \/ Release
  \/ ResetSession
  \/ ResetSessionFails

Spec == Init /\ [][Next]_vars

-----------------------------------------------------------------------------
(* Properties.                                                             *)

\* Who will close the cursor c: statements that hold it, OCCA messages queued.
Claims(c) == Cardinality({s \in Stmts : stmt[s].cursorID = c})
             + Cardinality({i \in DOMAIN outgoing : outgoing[i] = c})

\* No cursor leaks and none is closed under a statement: every cursor open in the
\* server is held by exactly one statement or named by exactly one queued OCCA,
\* and no closed one by any, although ids are given again, OCCAs are delayed and
\* Close and ResetSession overlap (_closeCursor, ResetSession, GetStatements).
CursorsAccounted == \A c \in Ids : Claims(c) = IF c \in OpenIds THEN 1 ELSE 0

\* A statement run by one of its executors only.
OneExecutor(s) == \E e \in Executors : executor[s][e] = NewExecutor

\* A request that names a cursor names one that is open and holds the statement's
\* own SQL; and when one executor alone runs the statement, a request without
\* descriptors fits those of the cursor (needToSendOACs, createOexfenMsg).
RequestFitsCursor ==
  req.kind \in ExecKinds /\ req.cursorID # 0 =>
    KnowsSQL(req) /\ (OneExecutor(req.s) => KnowsBinds(req))

\* Nothing done in a transaction is durable before its Commit: no execution
\* commits, whatever the statement was used for before (initForTransaction;
\* commitAfterExecution "Should not be set when running within transaction").
TransactionIsAtomic == tx.sql => durable = {}

\* The server can tell what to run: a request carries the SQL or names the
\* statement's open cursor ("On subsequent executions, the cursor ID is stored in
\* qualifiedQuery", statementExecutorSelect.QueryContext).
CursorOnReexecution == req.kind = "exec" => KnowsSQL(req)

\* Only an execution in a transaction goes without the auto-commit flag
\* (initForTransaction: "when in a transaction it removes the auto-commit flag").
AutoCommitOutsideTransaction ==
  req.kind = "exec" /\ req.s \notin Select /\ ~tx.registered => req.commit
=============================================================================
