----------------------------- MODULE RowStream -----------------------------
(***************************************************************************)
(* The rows of a query, from the messages of the server to the values an   *)
(* application reads (internal/driver/ttc: statement_executors.go,         *)
(* ttirxd.go, ttibvc.go, column_unwrap.go, rows_result.go).  The server    *)
(* describes the columns (DCB), then sends rows (RXD); before a row it may *)
(* send the vector of the columns that changed (BVC), and the row then     *)
(* carries only these.  A SELECT that returned no row in its first round   *)
(* is fetched in a second one.  The rows of an implicit result come        *)
(* prefetched, inside one message.  A statement can be executed again      *)
(* while the rows of an earlier execution are still being read.            *)
(* A DML statement with a RETURNING clause and a PL/SQL block send the     *)
(* values for the OUT arguments in an RXD of their own kind.               *)
(*                                                                         *)
(* A column on the wire is the sequence of its fields, [t, v]: the type    *)
(* that is read and the value.  The server is external.                    *)
(***************************************************************************)
EXTENDS Integers, Sequences, FiniteSets, SequencesExt

CONSTANTS
  Tables,    \* what queries return: [columns, rows]
  Returned,  \* what DML and PL/SQL return: [mode, columns, rows], a column is a position
  MaxRuns    \* bound: the calls of a behaviour

VARIABLES
  columns,   \* selectResultMetadata.columns of the statement's executor
  run,       \* the call in progress: queryRunState, and what the server sent
  outDestPtrs,  \* statementExecutorExec's: the destinations and their column contexts
  results,   \* the ttcRows that were returned, the destinations that were filled
  strict,    \* ttcRows.strictNullHandlingValue
  failed,    \* the calls that failed although the server did not
  runs       \* the calls begun

rowVars == <<columns, run, outDestPtrs, results, strict, failed, runs>>

NULL == "NULL"
EMPTY == "EMPTY"             \* a LOB that has no bytes
AL16UTF16 == "AL16UTF16"
sessCharSet == "AL32UTF8"
sessNCharSet == AL16UTF16
NoCharSet == "0"
nil == [val |-> NULL, as |-> NULL]     \* the bytes of a NULL
NoPrevRow == <<>>
NoBvc == <<>>

----------------------------------------------------------------------------
(* The server's side: a value as the fields of its column.                 *)

Lob == {"clob", "nclob", "blob", "json"}
Sent(t, v) == [t |-> t, v |-> v]

\* The character set of a text LOB, and the identifier the server sends.
Encoding(col) == IF col.kind = "nclob" \/ col.vary THEN AL16UTF16 ELSE sessCharSet
TextFields(col) ==
  IF col.kind \in {"blob", "json"} THEN <<>>
  ELSE <<Sent("UB1", col.vary)>>
         \o (IF col.vary THEN <<Sent("UB2", Encoding(col))>> ELSE <<>>)
         \o <<Sent("UB1", IF col.kind = "nclob" THEN 2 ELSE 1)>>

Data(col, v) ==
  IF v \in {NULL, EMPTY} THEN nil
  ELSE [val |-> v, as |-> IF col.kind \in {"clob", "nclob"} THEN Encoding(col) ELSE col.kind]

Wire(col, v) ==
  IF col.kind \notin Lob THEN <<Sent("CLR", Data(col, v))>>
  ELSE IF v = NULL THEN <<Sent("UB4", 0)>>
  ELSE <<Sent("UB4", 1), Sent("UB8", 1), Sent("UB4", 1)>> \o TextFields(col)
         \o <<Sent("CLR", Data(col, v)), Sent("CLR", nil)>>

\* The bytes of a vector of columns 0..n-1.
VectorOf(S, n) ==
  [b \in 1..((n + 7) \div 8) |->
     LET bit(i) == IF 8 * (b - 1) + i \in S THEN 2 ^ i ELSE 0
     IN bit(0) + bit(1) + bit(2) + bit(3) + bit(4) + bit(5) + bit(6) + bit(7)]

----------------------------------------------------------------------------
(* BitSet.                                                                 *)

NewBitSet(size) == [b \in 1..((size + 7) \div 8) |-> 0]
SetBytes(bits, data) ==
  [b \in DOMAIN bits |-> IF b <= Len(data) THEN data[b] ELSE bits[b]]
Get(bits, index) == (bits[(index \div 8) + 1] \div 2 ^ (index % 8)) % 2 = 1
BitCardinality(bits) == Cardinality({i \in 0..(8 * Len(bits) - 1) : Get(bits, i)})

----------------------------------------------------------------------------
(* Reading a column.                                                       *)

Reads(s, types) == Len(s) >= Len(types) /\ \A i \in DOMAIN types : s[i].t = types[i]
Wrong == [ok |-> FALSE, payload |-> [data |-> nil, cs |-> NoCharSet], used |-> 0]
Payload(data, cs, n) == [ok |-> TRUE, payload |-> [data |-> data, cs |-> cs], used |-> n]

\* byteColumnPayload: no bytes are a NULL.
unwrapCLRColumn(s) ==
  IF Reads(s, <<"CLR">>) THEN Payload(s[1].v, NoCharSet, 1) ELSE Wrong

\* A LOB that sends no identifier of its character set has the session's.
unwrapClobColumn(s, env) ==
  IF ~Reads(s, <<"UB4">>) THEN Wrong
  ELSE IF s[1].v = 0 THEN Payload(nil, NoCharSet, 1)
  ELSE IF ~Reads(s, <<"UB4", "UB8", "UB4", "UB1">>) THEN Wrong
  ELSE LET dbVary == s[4].v
           k == IF dbVary THEN 6 ELSE 5
           sent == IF dbVary THEN s[5].v ELSE NoCharSet
           cs == IF sent # NoCharSet THEN sent
                 ELSE IF s[k].v = 2 THEN env.nchar ELSE env.char
       IN IF Reads(SubSeq(s, k, Len(s)), <<"UB1", "CLR", "CLR">>)
          THEN Payload(s[k + 1].v, cs, k + 2) ELSE Wrong

unwrapBlobColumn(s) ==
  IF ~Reads(s, <<"UB4">>) THEN Wrong
  ELSE IF s[1].v = 0 THEN Payload(nil, NoCharSet, 1)
  ELSE IF Reads(s, <<"UB4", "UB8", "UB4", "CLR", "CLR">>) THEN Payload(s[4].v, NoCharSet, 5)
  ELSE Wrong

\* The same fields; JSON has no value of its own for an empty LOB.
unwrapJSONColumn(s) == unwrapBlobColumn(s)

unmarshalColumn(col, s, env) ==
  CASE col.kind \in {"clob", "nclob"} -> unwrapClobColumn(s, env)
    [] col.kind = "blob" -> unwrapBlobColumn(s)
    [] col.kind = "json" -> unwrapJSONColumn(s)
    [] OTHER -> unwrapCLRColumn(s)

\* _processDMLPlSqlIndicator: what follows a value for an OUT argument is read,
\* and used for nothing.
WithIndicator(u, s) ==
  IF u.ok /\ Reads(SubSeq(s, u.used + 1, Len(s)), <<"SB2">>) THEN [u EXCEPT !.used = @ + 1] ELSE Wrong

\* A row of n columns none of which was read, and the row with one more.
NothingRead(n, fields) == [ok |-> TRUE, row |-> [i \in 1..n |-> Wrong.payload], rest |-> fields]
Advance(acc, i, u) ==
  [ok |-> u.ok, row |-> [acc.row EXCEPT ![i] = u.payload],
   rest |-> SubSeq(acc.rest, u.used + 1, Len(acc.rest))]

\* tTIrxd.UnmarshalFrom for DML: for each position a count and as many values, of
\* which the last stays.
UnmarshalReturning(rxd, fields) ==
  LET scalar(acc, i) ==
        IF acc.ok THEN Advance(acc, i, WithIndicator(unwrapCLRColumn(acc.rest), acc.rest)) ELSE acc
      position(acc, i) ==
        IF ~acc.ok \/ ~Reads(acc.rest, <<"UB4">>) THEN [acc EXCEPT !.ok = FALSE]
        ELSE FoldLeft(LAMBDA a, k : scalar(a, i), [acc EXCEPT !.rest = Tail(@)],
                      [k \in 1..Head(acc.rest).v |-> k])
  IN FoldLeft(position, NothingRead(rxd.returning, fields), [i \in 1..rxd.returning |-> i])

\* tTIrxd.UnmarshalFrom for queries and PL/SQL: the columns sent are read, the
\* others carried over.
UnmarshalColumns(rxd, fields) ==
  LET n == IF rxd.returning > 0 THEN rxd.returning ELSE rxd.numberOfColumns
      carry == rxd.bvc # NoBvc
      column(i, s) == unmarshalColumn(rxd.columnContexts[i], s, rxd.env)
      read(acc, i) ==
        IF ~acc.ok THEN acc
        ELSE IF carry /\ ~Get(rxd.bvc, i - 1) THEN [acc EXCEPT !.row[i] = rxd.prevRow[i]]
        ELSE Advance(acc, i, IF rxd.returning > 0 THEN WithIndicator(column(i, acc.rest), acc.rest)
                             ELSE column(i, acc.rest))
  IN IF n = 0 \/ Len(rxd.columnContexts) # n \/ (carry /\ Len(rxd.prevRow) # n)
     THEN [NothingRead(n, fields) EXCEPT !.ok = FALSE]
     ELSE FoldLeft(read, NothingRead(n, fields), [i \in 1..n |-> i])

UnmarshalRow(rxd, fields) ==
  IF rxd.returning > 0 /\ rxd.isDmlReturning THEN UnmarshalReturning(rxd, fields)
  ELSE UnmarshalColumns(rxd, fields)

\* tTIbvc.UnmarshalFrom: as many bytes as the columns the driver knows need.
UnmarshalVector(n, bytes, numColsSent) ==
  LET bits == SetBytes(NewBitSet(n), bytes)
  IN [ok |-> Len(bytes) = (n + 7) \div 8 /\ BitCardinality(bits) = numColsSent, bits |-> bits]

----------------------------------------------------------------------------
(* Reading a value.                                                        *)

handleNull(kind) ==
  IF ~strict /\ kind \in {"number", "varchar", "blob"} THEN "zero" ELSE NULL

\* DecodeClob takes what is not AL16UTF16 for UTF-8.
Decoded(col, payload) ==
  IF col.kind \in {"clob", "nclob"}
  THEN (payload.cs = AL16UTF16) <=> (payload.data.as = AL16UTF16)
  ELSE payload.data.as = col.kind

decodeColumnValue(col, payload) ==
  IF payload.data = nil THEN handleNull(col.kind)
  ELSE IF Decoded(col, payload) THEN payload.data.val ELSE "garbled"

newTTCRows(cols, t, mode) ==
  [columns |-> cols, rowData |-> <<>>, numOfRows |-> 0, currentRowIdx |-> 0,
   table |-> t, mode |-> mode, got |-> <<>>]

----------------------------------------------------------------------------
(* The call.                                                               *)

NoRows == [columns |-> <<>>]
NoRun == [mode |-> "idle"]

\* The columns rows are decoded with, and the character sets given to an RXD.
Columns == IF run.mode = "select" THEN columns ELSE run.table.columns
Env == IF run.mode = "select" THEN [char |-> sessCharSet, nchar |-> sessNCharSet]
       ELSE [char |-> NoCharSet, nchar |-> NoCharSet]

\* The columns the server puts in its next row, from 0.
AllColumns(t) == 0..(Len(t.columns) - 1)

\* newQueryRunState: rows when the columns are known already.
NewState(t, mode, round, cols) ==
  [mode |-> mode, round |-> round, table |-> t, described |-> FALSE, sent |-> 0,
   rows |-> IF cols = <<>> THEN NoRows ELSE newTTCRows(cols, t, mode),
   prevRow |-> NoPrevRow, bvc |-> NoBvc, next |-> AllColumns(t)]

RowInit ==
  /\ columns = <<>>
  /\ run = NoRun
  /\ outDestPtrs = <<>>
  /\ results = <<>>
  /\ strict \in BOOLEAN
  /\ failed = FALSE
  /\ runs = 0

QueryContext(t) ==
  /\ run = NoRun /\ runs < MaxRuns
  /\ runs' = runs + 1
  /\ run' = NewState(t, "select", 1, columns)
  /\ UNCHANGED <<columns, outDestPtrs, results, strict, failed>>

\* tTIimplres.unmarshalPrefetch of one implicit result.
UnmarshalPrefetch(t) ==
  /\ run = NoRun /\ runs < MaxRuns
  /\ runs' = runs + 1
  /\ run' = NewState(t, "prefetch", 1, t.columns)
  /\ UNCHANGED <<columns, outDestPtrs, results, strict, failed>>

\* A server describes what the driver cannot know, at the start of a call.
handleDCB ==
  /\ run.mode = "select" /\ run.round = 1 /\ run.sent = 0 /\ ~run.described
  /\ columns' = run.table.columns
  /\ run' = [run EXCEPT !.described = TRUE,
                        !.rows = newTTCRows(run.table.columns, run.table, run.mode)]
  /\ UNCHANGED <<outDestPtrs, results, strict, failed, runs>>

ColumnsKnown == run.mode = "prefetch" \/ run.described \/ columns = run.table.columns

\* LOB columns are sent once they were defined, in the second round.
NeedsDefine == \E i \in DOMAIN run.table.columns : run.table.columns[i].kind \in Lob
Sends == run.mode = "prefetch" \/ run.round = 2 \/ ~NeedsDefine
Querying == run.mode \in {"select", "prefetch"}
More == Querying /\ ColumnsKnown /\ Sends /\ run.sent < Len(run.table.rows)

EndRun(err) == run' = NoRun /\ failed' = (failed \/ err) /\ UNCHANGED <<columns, outDestPtrs, results, strict, runs>>

\* The sets of columns that a vector may leave out of the next row.
Unchanged ==
  LET old == run.table.rows[run.sent]
      new == run.table.rows[run.sent + 1]
  IN SUBSET {i \in AllColumns(run.table) : old[i + 1] = new[i + 1]}

\* createBVC and handleBVC: a vector leaves out columns that did not change.
handleBVC ==
  /\ More /\ run.sent > 0 /\ run.bvc = NoBvc
  /\ \E omitted \in Unchanged :
       LET sent == AllColumns(run.table) \ omitted
           vector == UnmarshalVector(Len(Columns), VectorOf(sent, Len(run.table.columns)),
                                     Cardinality(sent))
       IN IF ~vector.ok THEN EndRun(TRUE)
          ELSE /\ run' = [run EXCEPT !.bvc = vector.bits, !.next = sent]
               /\ UNCHANGED <<columns, outDestPtrs, results, strict, failed, runs>>

\* Mutant: the previous row is the last one that was sent whole.
MutFirstRow(row) ==
  [run EXCEPT !.rows.rowData = Append(@, row), !.bvc = NoBvc, !.sent = @ + 1,
              !.next = AllColumns(run.table),
              !.prevRow = IF run.bvc = NoBvc THEN row ELSE @]

\* handleRXDRow: what the row leaves in the state.
AfterRow(row) ==
  [run EXCEPT !.rows.rowData = Append(@, row), !.prevRow = row, !.bvc = NoBvc, !.sent = @ + 1,
              !.next = AllColumns(run.table)]

\* createRXD, for a row of a query.
QueryRXD ==
  [returning |-> 0, isDmlReturning |-> FALSE, columnContexts |-> Columns, numberOfColumns |-> Len(Columns),
   bvc |-> run.bvc, prevRow |-> run.prevRow, env |-> Env]

\* createRXD, UnmarshalFrom and handleRXDRow.
handleRXD ==
  /\ More
  /\ LET n == Len(run.table.columns)
         fields == FlattenSeq([i \in 1..n |->
                     IF i - 1 \notin run.next THEN <<>>
                     ELSE Wire(run.table.columns[i], run.table.rows[run.sent + 1][i])])
         row == UnmarshalRow(QueryRXD, fields)
     IN IF ~row.ok \/ row.rest # <<>> THEN EndRun(TRUE)
        ELSE /\ run' = AfterRow(row.row)
             /\ UNCHANGED <<columns, outDestPtrs, results, strict, failed, runs>>

----------------------------------------------------------------------------
(* The end of a round.                                                     *)

ReturnRows(rows) ==
  /\ results' = Append(results, [rows EXCEPT !.numOfRows = Len(rows.rowData)])
  /\ run' = NoRun
  /\ UNCHANGED <<columns, outDestPtrs, strict, failed, runs>>

\* An error of the server.
OerFails == run # NoRun /\ EndRun(FALSE)

\* ORA-01403: all rows were sent.
OerNoData ==
  /\ Querying /\ ColumnsKnown /\ Sends /\ run.sent = Len(run.table.rows)
  /\ ReturnRows(run.rows)

\* Success without rows: the columns are defined, the rows fetched.
OerDefine ==
  /\ Querying /\ ColumnsKnown /\ ~Sends
  /\ run' = NewState(run.table, "select", 2, columns)
  /\ UNCHANGED <<columns, outDestPtrs, results, strict, failed, runs>>

\* ttcRows.Next.
ReadRow(r) ==
  LET rows == results[r]
      dest == [i \in DOMAIN rows.columns |->
                 decodeColumnValue(rows.columns[i], rows.rowData[rows.currentRowIdx + 1][i])]
  IN /\ "rowData" \in DOMAIN rows /\ rows.currentRowIdx < rows.numOfRows
     /\ results' = [results EXCEPT ![r].currentRowIdx = @ + 1, ![r].got = Append(@, dest)]
     /\ UNCHANGED <<columns, run, outDestPtrs, strict, failed, runs>>

----------------------------------------------------------------------------
(* The OUT arguments of an execution.  The application has a value in each   *)
(* variable when it executes the statement.                                  *)

\* Mutant: the destinations of the execution before are kept.
MutKeepDestinations(t) == outDestPtrs \o [i \in DOMAIN t.columns |-> [col |-> t.columns[i], val |-> "old"]]

\* initExecRunner
initExecRunner(t) == [i \in DOMAIN t.columns |-> [col |-> t.columns[i], val |-> "old"]]

ExecContext(t) ==
  /\ run = NoRun /\ runs < MaxRuns
  /\ runs' = runs + 1
  /\ run' = [mode |-> t.mode, table |-> t, sent |-> 0]
  /\ outDestPtrs' = initExecRunner(t)
  /\ UNCHANGED <<columns, results, strict, failed>>

\* The values for the OUT arguments: a PL/SQL block sends one row, a DML statement
\* those of all rows, position by position.
OutFields(t) ==
  LET value(i, v) == Wire(t.columns[i], v) \o <<Sent("SB2", 0)>>
      position(i) == FlattenSeq([j \in DOMAIN t.rows |-> value(i, t.rows[j][i])])
  IN FlattenSeq([i \in DOMAIN t.columns |->
       (IF t.mode = "dml" THEN <<Sent("UB4", Len(t.rows))>> ELSE <<>>) \o position(i)])

\* createRXD of statementExecutorDML and statementExecutorPlSql.
OutRXD ==
  [returning |-> Len(outDestPtrs), isDmlReturning |-> run.mode = "dml", numberOfColumns |-> 0,
   columnContexts |-> IF run.mode = "dml" THEN <<>> ELSE [i \in DOMAIN outDestPtrs |-> outDestPtrs[i].col],
   bvc |-> NoBvc, prevRow |-> NoPrevRow, env |-> [char |-> NoCharSet, nchar |-> NoCharSet]]

\* decodeOutColumn and the assignment: a Scanner is given a NULL too.
Assigned(dest, payload) ==
  IF payload.data = nil THEN IF dest.col.scanner THEN [dest EXCEPT !.val = NULL] ELSE dest
  ELSE [dest EXCEPT !.val = IF Decoded(dest.col, payload) THEN payload.data.val ELSE "garbled"]

\* createRXD, UnmarshalFrom and handleRXDRow of statementExecutorExec.
handleOutRXD ==
  /\ run.mode \in {"dml", "plsql"} /\ run.sent = 0
  /\ LET row == UnmarshalRow(OutRXD, OutFields(run.table))
     IN IF ~row.ok \/ row.rest # <<>> THEN EndRun(TRUE)
        ELSE /\ run' = [run EXCEPT !.sent = 1]
             /\ outDestPtrs' = [i \in DOMAIN outDestPtrs |-> Assigned(outDestPtrs[i], row.row[i])]
             /\ UNCHANGED <<columns, results, strict, failed, runs>>

\* The execution succeeded.
OerExecuted ==
  /\ run.mode \in {"dml", "plsql"} /\ run.sent = 1
  /\ results' = Append(results, [table |-> run.table, dests |-> outDestPtrs])
  /\ run' = NoRun
  /\ UNCHANGED <<columns, outDestPtrs, strict, failed, runs>>

RowNext ==
  \/ \E t \in Tables : QueryContext(t) \/ UnmarshalPrefetch(t)
  \/ \E t \in Returned : ExecContext(t)
  \/ handleOutRXD \/ OerExecuted
  \/ handleDCB
  \/ handleBVC
  \/ handleRXD
  \/ OerFails \/ OerNoData \/ OerDefine
  \/ \E r \in DOMAIN results : ReadRow(r)

RowSpec == RowInit /\ [][RowNext]_rowVars

----------------------------------------------------------------------------

\* The value an application reads where the table has v.
Shown(col, v) == IF v \in {NULL, EMPTY} THEN handleNull(col.kind) ELSE v

\* An NCLOB without an identifier of its character set is left out of an
\* implicit result: the prefetch gives an RXD no character sets.
TextReadable(r, col) == r.mode = "select" \/ col.kind # "nclob" \/ col.vary

\* The variable of an OUT argument after an execution: the value of the last row,
\* a NULL or no row at all being shown to a Scanner only.
Left(col, rows, i) ==
  LET last == IF rows = <<>> THEN NULL ELSE Last(rows)[i]
  IN IF last # NULL THEN last ELSE IF col.scanner THEN NULL ELSE "old"

\* The rows of a result are the rows of its own query, all of them and in
\* order, whatever vectors they came with and whatever columns a later
\* execution of the statement has (handleRXDRow, newTTCRows, ttcRows.Next).  The
\* variable of every OUT argument of a DML statement or a PL/SQL block has the
\* value the last row has for it, however the statement was executed before
\* (UnmarshalFrom, initExecRunner).  The driver reads each row and each vector in
\* step with the server: no call fails on them (createRXD, createBVC,
\* unwrapClobColumn).
RowsReadBack ==
  /\ ~failed
  /\ \A k \in DOMAIN results :
       LET r == results[k] IN
       IF "dests" \in DOMAIN r
       THEN /\ DOMAIN r.dests = DOMAIN r.table.columns
            /\ \A i \in DOMAIN r.dests : r.dests[i].val = Left(r.table.columns[i], r.table.rows, i)
       ELSE /\ r.numOfRows = Len(r.table.rows)
            /\ \A j \in DOMAIN r.got : \A i \in DOMAIN r.table.columns :
                 TextReadable(r, r.table.columns[i]) =>
                   r.got[j][i] = Shown(r.table.columns[i], r.table.rows[j][i])
=============================================================================
