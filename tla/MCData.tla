------------------------------- MODULE MCData -------------------------------
(***************************************************************************)
(* An instance for TLC of the data that calls send and return: the fields  *)
(* of messages, the values of columns, JSON documents, the texts of        *)
(* statements, access to LOBs, rows, and REF CURSORs.                      *)
(* They are parts of one run; a behaviour exercises one of them.           *)
(***************************************************************************)
EXTENDS MCColumnValues, MCJSON, MCBinds, LobAccess, RowStream, RefCursors

CONSTANT RunParts   \* the parts of the instance that a run has

VARIABLE part

----------------------------------------------------------------------------
(* LOBs.                                                                   *)

Persistent ==
  [length |-> 114, temporary |-> FALSE, valueBased |-> FALSE, readOnly |-> FALSE,
   abstract |-> FALSE, quasi |-> FALSE, varying |-> TRUE, littleEndian |-> FALSE,
   open |-> FALSE, readWrite |-> FALSE, nclob |-> FALSE]

MCLocators ==
  {Persistent,
   [Persistent EXCEPT !.littleEndian = TRUE],
   [Persistent EXCEPT !.varying = FALSE],
   [Persistent EXCEPT !.varying = FALSE, !.nclob = TRUE],
   [Persistent EXCEPT !.temporary = TRUE],
   [Persistent EXCEPT !.readOnly = TRUE, !.abstract = TRUE],
   [Persistent EXCEPT !.valueBased = TRUE, !.quasi = TRUE]}

\* The euro sign (3 bytes of UTF-8), 'a' and an emoji (two code units).
MCContents == {<<>>, <<8364, 97>>}
MCLobTexts == {<<>>, <<8364>>, <<97, 128512>>}

----------------------------------------------------------------------------
(* Rows.  The vector of nine columns has two bytes.                        *)

Col(k, v) == [kind |-> k, vary |-> v]
NumCol == Col("number", FALSE)
Chr == Col("varchar", FALSE)
MCTables ==
  {[columns |-> <<NumCol, Chr>>, rows |-> data] :
     data \in {<<>>, <<<<"a", "b">>, <<"c", "b">>, <<"c", "d">>>>,
               <<<<NULL, "b">>, <<"c", NULL>>, <<"c", "d">>>>}}
  \cup {[columns |-> <<Col("clob", TRUE), NumCol>>,
         rows |-> <<<<"t", "a">>, <<EMPTY, "a">>, <<EMPTY, "b">>>>],
        [columns |-> <<NumCol, Col("nclob", FALSE), Col("clob", FALSE)>>,
         rows |-> <<<<"a", "t", "u">>, <<"a", NULL, "u">>>>],
        [columns |-> <<Col("blob", FALSE), Col("json", FALSE)>>,
         rows |-> <<<<"x", NULL>>, <<NULL, "j">>, <<"x", "j">>>>],
        [columns |-> [i \in 1..9 |-> IF i = 9 THEN Chr ELSE NumCol],
         rows |-> <<[i \in 1..9 |-> "a"], [i \in 1..9 |-> IF i \in 4..8 THEN "b" ELSE "a"]>>]}

\* OUT arguments, with a Scanner for a destination or a plain variable.
Out(k, s) == [kind |-> k, vary |-> FALSE, scanner |-> s]
MCReturned ==
  [mode : {"plsql"}, columns : {<<Out("number", FALSE), Out("varchar", TRUE)>>},
   rows : {<<<<"a", "b">>>>, <<<<NULL, NULL>>>>}]
  \cup [mode : {"dml"}, columns : {<<Out("varchar", FALSE), Out("number", TRUE), Out("number", FALSE)>>},
        rows : {<<>>, <<<<"a", "b", NULL>>>>, <<<<"a", "b", "c">>, <<"d", NULL, NULL>>, <<NULL, "e", "f">>>>}]

----------------------------------------------------------------------------

\* A part that a behaviour does not exercise has one initial state.
MCInit ==
  /\ part \in RunParts
  /\ EngineInit /\ ColumnInit /\ JSONInit /\ BindInit /\ LobInit /\ RowInit /\ CursorInit
  /\ part # "fields" => order = "BIG"
  /\ part # "columns" => zone = UTC
  /\ part # "json" => js.opts = DefaultOptions
  /\ part # "lob" => loc = Persistent /\ ncharCS = "UTF8" /\ lob.units = <<>>
  /\ part # "rows" => strict

textVars == <<engineVars, columnVars, jsonVars, bindVars>>
resultVars == <<lobVars, rowVars, cursorVars>>

\* A connection whose engine failed is not read any further, and nothing is
\* left to do when a value was fetched, all that fits is stored, a document was
\* made, or a statement was parsed.  An application
\* may stop when a call has returned.
Stopped ==
  /\ \/ broken \/ row # NoRow \/ Len(stored) = MaxStored \/ outcome.op # "none"
     \/ qualified # NoStatement
     \/ part = "rows" /\ run = NoRun
     \/ part = "cursors"
  /\ UNCHANGED <<textVars, resultVars>>

MCNext ==
  /\ \/ /\ part = "fields" /\ EngineNext
        /\ UNCHANGED <<columnVars, jsonVars, bindVars, resultVars>>
     \/ /\ part = "columns" /\ row = NoRow /\ ColumnNext
        /\ UNCHANGED <<engineVars, jsonVars, bindVars, resultVars>>
     \/ /\ part = "json" /\ DocumentNext
        /\ UNCHANGED <<engineVars, columnVars, bindVars, resultVars>>
     \/ /\ part = "binds" /\ BindNext
        /\ UNCHANGED <<engineVars, columnVars, jsonVars, resultVars>>
     \/ part = "lob" /\ LobNext /\ UNCHANGED <<textVars, rowVars, cursorVars>>
     \/ part = "rows" /\ RowNext /\ UNCHANGED <<textVars, lobVars, cursorVars>>
     \/ part = "cursors" /\ CursorNext /\ UNCHANGED <<textVars, lobVars, rowVars>>
     \/ Stopped
  /\ UNCHANGED part

MCSpec == MCInit /\ [][MCNext]_<<textVars, resultVars, part>>
=============================================================================
