----------------------------- MODULE MCStatements -----------------------------
(***************************************************************************)
(* An instance for TLC of the execution of statements: the statements of a *)
(* connection with their cursors and transactions, and the message         *)
(* streamer their messages go through.  A behaviour exercises one of the   *)
(* two parts.                                                              *)
(***************************************************************************)
EXTENDS PreparedStatement, MessageStreamer

CONSTANT RunParts   \* the parts of the instance that a run has

VARIABLE part   \* "statements" or "messages"

statementsVars == <<part, vars, streamerVars>>

\* A number, whose encoded length is always the same, and a short and a long text.
MCBindValues == {[type |-> "num", len |-> 1],
                 [type |-> "text", len |-> 1], [type |-> "text", len |-> 2]}

\* One number, when the values do not matter.
MCOneValue == {[type |-> "num", len |-> 1]}

\* A connection the pool has dropped does nothing more, and a connection may be
\* left alone between two calls.
AtRest ==
  /\ \/ part = "statements" /\ conn = "bad"
     \/ part = "messages" /\ pc = "idle" /\ call = MaxCalls
  /\ UNCHANGED statementsVars

MCInit == part \in RunParts /\ Init /\ StreamerInit

MCNext ==
  \/ part = "statements" /\ Next /\ UNCHANGED <<part, streamerVars>>
  \/ part = "messages" /\ StreamerNext /\ UNCHANGED <<part, vars>>
  \/ AtRest

MCSpec == MCInit /\ [][MCNext]_statementsVars
=============================================================================
