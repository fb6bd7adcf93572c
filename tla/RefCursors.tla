----------------------------- MODULE RefCursors -----------------------------
(***************************************************************************)
(* REF CURSORs and implicit results (internal/driver/ttc: rows_result.go,  *)
(* statement_executors.go, ttishelf.go, connection.go, and Fetch of        *)
(* oracle/connection_wrapper.go).  A cursor the server opened is an object *)
(* of the driver; the shelf of its connection knows the objects that may   *)
(* be fetched.  A close is queued (OCCA) and travels with the next call.   *)
(* The server reuses the numbers of closed cursors, and two connections    *)
(* use the same numbers.                                                   *)
(*                                                                         *)
(* The server's side is external: which numbers it gives, which rows hold  *)
(* nested cursors, which calls fail.                                       *)
(***************************************************************************)
EXTENDS Integers, Sequences

CONSTANTS
  Conns,       \* the connections
  Ids,         \* the numbers of a session's cursors
  MaxCursors,  \* bound: the cursors of a behaviour
  MaxSets,     \* bound: the implicit results of a block
  MaxNested    \* bound: the nested cursors of a result set

None == "none"

ASSUME CursorBounds ==
  /\ None \notin Conns /\ Ids \subseteq Nat \ {0}
  /\ MaxCursors \in Nat /\ MaxSets \in Nat /\ MaxNested \in Nat

VARIABLES
  made,     \* how many ttcRowsRefCursor objects there are
  cur,      \* the objects, in the order they were made
  reg,      \* ttiShelf._refCursors of each connection
  queue,    \* the OCCA piggybacks of each connection: [id, of]
  opened,   \* at the server: the object made for each open cursor, or 0
  rows,     \* the ttcRowsRefCursorImplicitFetch objects
  given,    \* the objects the application holds as values
  active    \* the Close that runs: of the object k, of the rows r (-r), or none (0)

cursorVars == <<made, cur, reg, queue, opened, rows, given, active>>

CursorInit ==
  /\ made = 0 /\ cur = <<>>
  /\ reg = [c \in Conns |-> {}]
  /\ queue = [c \in Conns |-> <<>>]
  /\ opened = [c \in Conns |-> [i \in Ids |-> 0]]
  /\ rows = <<>>
  /\ given = {} /\ active = 0

----------------------------------------------------------------------------
(* The server.  A call brings the queued closes first.                     *)

AfterCloses(c) == [i \in Ids |-> IF \E k \in DOMAIN queue[c] : queue[c][k].id = i THEN 0 ELSE opened[c][i]]

\* The numbers of n new cursors.
NewIds(c, n) ==
  {s \in [1..n -> {i \in Ids : AfterCloses(c)[i] = 0}] : \A i, j \in 1..n : s[i] = s[j] => i = j}

\* A call of c is answered with n cursors of the numbers ids: the next objects.
\* The application makes it, so that no Close runs.
CursorAnswer(c, n, ids) ==
  /\ active = 0 /\ made + n <= MaxCursors
  /\ made' = made + n
  /\ opened' = [opened EXCEPT ![c] = [i \in Ids |->
                IF \E k \in 1..n : ids[k] = i
                THEN made + (CHOOSE k \in 1..n : ids[k] = i)
                ELSE AfterCloses(c)[i]]]
  /\ queue' = [queue EXCEPT ![c] = <<>>]
  /\ UNCHANGED active

----------------------------------------------------------------------------
(* The driver.                                                             *)

\* The executor keeps a number of its own.  The last three fields are the
\* frame of a running Close: the children it has called, and its caller.
newRefCursorRows(c, id) ==
  [on |-> c, cursorID |-> id, executorID |-> id, shelf |-> None, fetched |-> FALSE, nested |-> <<>>,
   closed |-> FALSE, closeErr |-> FALSE, running |-> FALSE, next |-> 0, caller |-> 0]

\* attachShelf, for a cursor whose rows are here.
Fetched(o, nested) == [o EXCEPT !.shelf = o.on, !.fetched = TRUE, !.nested = nested]

addRefCursor(c, S) == reg' = [reg EXCEPT ![c] = @ \cup S]

\* The n objects of an answer; the m that follow the first n, in a sequence.
Objects(n) == (made + 1) .. (made + n)
Following(n, m) == [i \in 1..m |-> made + n + i]

\* ttcRowsRefCursor.Fetch asks hasRefCursor, and fetches once.
Fetchable(c, k) == k \in given \cap reg[c] /\ ~cur[k].fetched

\* An OUT bind or the column of a SELECT: addRefCursor in runExec and runQuery.
ReturnCursor(c) ==
  \E ids \in NewIds(c, 1) :
    /\ CursorAnswer(c, 1, ids)
    /\ cur' = [k \in 1..(made + 1) |-> IF k <= made THEN cur[k] ELSE newRefCursorRows(c, ids[1])]
    /\ addRefCursor(c, Objects(1)) /\ given' = given \cup Objects(1)
    /\ UNCHANGED rows

\* connectionWrapper.Fetch, connection.GetRows and ttcRowsRefCursor.Fetch of a
\* cursor this connection owns; n nested cursors come with the rows.
GetRows(c, k, n) ==
  /\ Fetchable(c, k)
  /\ \E ids \in NewIds(c, n) :
       /\ CursorAnswer(c, n, ids)
       /\ cur' = [i \in 1..(made + n) |-> IF i = k THEN Fetched(cur[k], Following(0, n))
                                         ELSE IF i <= made THEN cur[i]
                                         ELSE newRefCursorRows(c, ids[i - made])]
       /\ addRefCursor(c, Objects(n)) /\ given' = given \cup Objects(n)
  /\ UNCHANGED rows

\* The call of Fetch fails: the cursor can be fetched again.
GetRowsFails(c, k) ==
  /\ Fetchable(c, k)
  /\ CursorAnswer(c, 0, <<>>)
  /\ cur' = [cur EXCEPT ![k].shelf = c]
  /\ UNCHANGED <<reg, rows, given>>

\* The answer to a block that returns n results, the first one with m nested
\* cursors when the rows come with it; registered of its objects are added.
Results(c, n, m, fetched, registered) ==
  \E ids \in NewIds(c, n + m) :
    /\ CursorAnswer(c, n + m, ids)
    /\ cur' = [k \in 1..(made + n + m) |->
         LET o == newRefCursorRows(c, ids[k - made]) IN
         IF k <= made THEN cur[k]
         ELSE IF k > made + n THEN o
         ELSE IF fetched THEN Fetched(o, IF k = made + 1 THEN Following(n, m) ELSE <<>>)
         ELSE [o EXCEPT !.shelf = c]]
    /\ addRefCursor(c, Objects(registered))
    /\ given' = given \cup (Objects(n + m) \ Objects(n))

newImplicitRows(c, n) ==
  rows' = Append(rows, [sets |-> Following(0, n), on |-> c, currentResultSet |-> 0,
                        closed |-> FALSE, closeErr |-> FALSE, next |-> 0])

\* statementExecutorPlSql.QueryContext and initializeImplicitResultRows, the
\* rows prefetched by the server.
QueryPrefetched(c, n, m) == Results(c, n, m, TRUE, n) /\ newImplicitRows(c, n)

\* The rows fetched by newImplicitResultRows, one call for each result set.
QueryFetched(c, n, m) == Results(c, n, m, TRUE, n + m) /\ newImplicitRows(c, n)

\* A fetch of newImplicitResultRows fails, or the block is run by ExecContext:
\* the application gets no rows, the cursors stay registered.
ResultsDropped(c, n) == Results(c, n, 0, FALSE, n) /\ UNCHANGED rows

----------------------------------------------------------------------------
(* Closing, a call of Close at a time.  The frames of the running calls    *)
(* are in the objects, linked by caller.                                   *)

Running(o, by) == [o EXCEPT !.closed = TRUE, !.running = TRUE, !.next = 0, !.caller = by]

\* The application closes the rows of a cursor.
CloseCursor(k) ==
  /\ active = 0 /\ k \in given /\ cur[k].fetched /\ ~cur[k].closed
  /\ cur' = [cur EXCEPT ![k] = Running(@, 0)] /\ active' = k
  /\ UNCHANGED <<made, reg, queue, opened, rows, given>>

\* ttcRowsRefCursor.Close calls Close of its next nested cursor, which returns
\* its closeErr when it is closed already.
CloseNested(k) ==
  LET child == cur[k].nested[cur[k].next + 1] IN
  /\ active = k /\ cur[k].next < Len(cur[k].nested)
  /\ \/ /\ cur[child].closed
        /\ cur' = [cur EXCEPT ![k].next = @ + 1, ![k].closeErr = @ \/ cur[child].closeErr]
        /\ UNCHANGED active
     \/ /\ ~cur[child].closed
        /\ cur' = [cur EXCEPT ![k].next = @ + 1, ![child] = Running(@, k)]
        /\ active' = child
  /\ UNCHANGED <<made, reg, queue, opened, rows, given>>

\* Mutant: a closed cursor stays registered.
MutStaysRegistered(k) ==
  /\ queue' = [queue EXCEPT ![cur[k].on] = Append(@, [id |-> cur[k].cursorID, of |-> k])]
  /\ UNCHANGED reg

\* Push of the OCCA and removeRefCursor.
closeServerCursor(k) ==
  /\ queue' = [queue EXCEPT ![cur[k].on] = Append(@, [id |-> cur[k].cursorID, of |-> k])]
  /\ reg' = [reg EXCEPT ![cur[k].on] = @ \ {k}]

\* Close of k returns err to its caller; id is the number it is left with.
Returns(k, id, err) ==
  /\ cur' = [i \in 1..made |->
       IF i = k THEN [cur[i] EXCEPT !.running = FALSE, !.cursorID = id, !.closeErr = err]
       ELSE IF i = cur[k].caller THEN [cur[i] EXCEPT !.closeErr = @ \/ err]
       ELSE cur[i]]
  /\ rows' = [r \in DOMAIN rows |->
       IF -r = cur[k].caller THEN [rows[r] EXCEPT !.closeErr = @ \/ err] ELSE rows[r]]
  /\ active' = cur[k].caller
  /\ UNCHANGED <<made, opened, given>>

\* The end of ttcRowsRefCursor.Close: the cursor is released, or Push fails.
Close(k) ==
  /\ active = k /\ cur[k].next = Len(cur[k].nested)
  /\ \/ /\ cur[k].cursorID # 0 /\ cur[k].shelf # None
        /\ \/ closeServerCursor(k) /\ Returns(k, 0, cur[k].closeErr)
           \/ Returns(k, cur[k].cursorID, TRUE) /\ UNCHANGED <<reg, queue>>
     \/ /\ cur[k].cursorID = 0 \/ cur[k].shelf = None
        /\ Returns(k, cur[k].cursorID, cur[k].closeErr) /\ UNCHANGED <<reg, queue>>

\* Mutant: only the active result set and those after it are closed.
MutCloseRemaining(r) == SubSeq(rows[r].sets, rows[r].currentResultSet + 1, Len(rows[r].sets))

\* ttcRowsRefCursorImplicitFetch.Close: every result set.
ClosedSets(r) == rows[r].sets

CloseImplicit(r) ==
  /\ active = 0 /\ ~rows[r].closed
  /\ rows' = [rows EXCEPT ![r].closed = TRUE] /\ active' = -r
  /\ UNCHANGED <<made, cur, reg, queue, opened, given>>

CloseSet(r) ==
  LET k == ClosedSets(r)[rows[r].next + 1] IN
  /\ active = -r /\ rows[r].next < Len(ClosedSets(r))
  /\ \/ /\ cur[k].closed
        /\ rows' = [rows EXCEPT ![r].next = @ + 1, ![r].closeErr = @ \/ cur[k].closeErr]
        /\ UNCHANGED <<cur, active>>
     \/ /\ ~cur[k].closed
        /\ rows' = [rows EXCEPT ![r].next = @ + 1]
        /\ cur' = [cur EXCEPT ![k] = Running(@, -r)] /\ active' = k
  /\ UNCHANGED <<made, reg, queue, opened, given>>

ImplicitClosed(r) ==
  /\ active = -r /\ rows[r].next = Len(ClosedSets(r))
  /\ active' = 0
  /\ UNCHANGED <<made, cur, reg, queue, opened, rows, given>>

NextResultSet(r) ==
  /\ active = 0 /\ rows[r].currentResultSet + 1 < Len(rows[r].sets)
  /\ rows' = [rows EXCEPT ![r].currentResultSet = @ + 1]
  /\ UNCHANGED <<made, cur, reg, queue, opened, given, active>>

\* Another call of the connection takes the closes along.
OtherCall(c) == queue[c] # <<>> /\ CursorAnswer(c, 0, <<>>) /\ UNCHANGED <<cur, reg, rows, given>>

CursorNext ==
  \/ \E c \in Conns :
       \/ ReturnCursor(c)
       \/ \E k \in given : GetRowsFails(c, k) \/ \E n \in 0..MaxNested : GetRows(c, k, n)
       \/ \E n \in 1..MaxSets, m \in 0..MaxNested : QueryPrefetched(c, n, m) \/ QueryFetched(c, n, m)
       \/ \E n \in 1..MaxSets : ResultsDropped(c, n)
       \/ OtherCall(c)
  \/ \E k \in 1..made : CloseCursor(k) \/ CloseNested(k) \/ Close(k)
  \/ \E r \in DOMAIN rows : NextResultSet(r) \/ CloseImplicit(r) \/ CloseSet(r) \/ ImplicitClosed(r)

CursorSpec == CursorInit /\ [][CursorNext]_cursorVars

----------------------------------------------------------------------------

\* A cursor that a shelf lets an application fetch is open at the server of
\* that connection, under the number its executor sends, and no close of it
\* is on its way (hasRefCursor and removeRefCursor): a fetch never reads a
\* cursor that took over the number, or one of another session.  A queued close
\* names the open cursor of the object that was closed, once (closed and
\* cursorID of ttcRowsRefCursor.Close).
RegisteredIsOpen ==
  \A c \in Conns :
    /\ \A k \in reg[c] : /\ opened[c][cur[k].executorID] = k
                         /\ \A i \in DOMAIN queue[c] : queue[c][i].id # cur[k].executorID
    /\ \A i, j \in DOMAIN queue[c] : /\ opened[c][queue[c][i].id] = queue[c][i].of
                                     /\ i # j => queue[c][i].id # queue[c][j].id

\* When Close of the rows of implicit results has returned no error, all of
\* their cursors are released, read or not, on their connection: none of them
\* can be fetched, and one still open at the server has its close queued
\* (ttcRowsRefCursorImplicitFetch.Close).
ImplicitReleased ==
  active = 0 =>
    \A r \in DOMAIN rows : rows[r].closed /\ ~rows[r].closeErr =>
      \A j \in DOMAIN rows[r].sets :
        LET k == rows[r].sets[j]
            c == rows[r].on
        IN /\ k \notin reg[c]
           /\ \A i \in Ids : opened[c][i] = k =>
                \E q \in DOMAIN queue[c] : queue[c][q] = [id |-> i, of |-> k]
=============================================================================
