--------------------------- MODULE StatementCancel ---------------------------
(***************************************************************************)
(* Cancellation of a statement execution: internal/driver/ttc/statement.go *)
(* and the cancellation half of statement_executors.go.                    *)
(*                                                                         *)
(* Three goroutines meet in one execution:                                 *)
(*   exec  - the caller of Statement.ExecContext / QueryContext;           *)
(*   after - the context.AfterFunc callback on the execution's sub-context *)
(*           which runs break/reset once exec authorises it;               *)
(*   trans - the context.AfterFunc callback on the transaction's context   *)
(*           which cancels the sub-context.                                *)
(* They share the channels of one statementCancellationState.  The same    *)
(* connection serves a sequence of executions, and what the server still   *)
(* owes the client survives from one execution to the next in wire.        *)
(***************************************************************************)
EXTENDS Naturals, Sequences

CONSTANTS MaxExecutions,   \* executions issued on the connection
          MaxRounds        \* TTC round trips of one execution (execute, define/fetch)

ASSUME CancelBounds == MaxExecutions \in Nat /\ MaxRounds \in Nat

VARIABLES
  exec,       \* where the calling goroutine is
  execution,  \* executions begun so far; the current one's number
  round,      \* round trips begun in the current execution
  after,      \* where the sub-context's after-function is
  trans,      \* where the transaction context's after-function is
  subCtx,     \* sub-context: "live", "done", or "custom" (done, its cause is not ctx.Err())
  startOnce,  \* statementCancellationState.startOnce has fired
  start,      \* channel start, capacity 1: "empty", "true" or "false"
  completed,  \* channel completed, capacity 1: "empty" or "result"
  done,       \* channel done is closed
  brkCtx,     \* the cancelTimeout context: "none", "live", "expired", "released"
  wire,       \* executions whose answer is still owed or unread, in order
  connValid,  \* connection._isValid
  alive,      \* the transport is usable
  handled     \* the last round trip was ended by break/reset and its OER

cancelVars == <<exec, execution, round, after, trans, subCtx, startOnce, start, completed,
                done, brkCtx, wire, connValid, alive, handled>>

stateVars == <<startOnce, start, completed, done>>
connVars  == <<wire, connValid, alive>>

CancelInit ==
  /\ exec = "idle" /\ execution = 0 /\ round = 0
  /\ after = "stopped" /\ trans = "none" /\ subCtx = "done"
  /\ startOnce = FALSE /\ start = "empty" /\ completed = "empty" /\ done = FALSE
  /\ brkCtx = "none"
  /\ wire = <<>> /\ connValid = TRUE /\ alive = TRUE /\ handled = FALSE

-----------------------------------------------------------------------------
(* The calling goroutine. *)

\* createSubContextWithCancelAfterfunction; inside a transaction a second
\* after-function is put on the transaction's context.  database/sql takes a
\* connection only when IsValid says so.
Begin(inTransaction) ==
  /\ exec = "idle" /\ connValid /\ execution < MaxExecutions
  /\ exec' = "send" /\ execution' = execution + 1 /\ round' = 1
  /\ after' = "armed" /\ trans' = IF inTransaction THEN "armed" ELSE "none"
  /\ subCtx' = "live"
  /\ startOnce' = FALSE /\ start' = "empty" /\ completed' = "empty" /\ done' = FALSE
  /\ brkCtx' = "none" /\ handled' = FALSE
  /\ UNCHANGED connVars

\* Push and Flush of runExec / runQuery succeed: the server owes an answer.
SendRequest ==
  /\ exec = "send" /\ alive
  /\ exec' = "pull" /\ wire' = Append(wire, execution) /\ handled' = FALSE
  /\ UNCHANGED <<execution, round, after, trans, subCtx, stateVars, brkCtx, connValid, alive>>

\* Push or Flush fails (cancelled context, send timeout, dead transport): the
\* call returns at once.  The request may have left the process all the same.
SendFails ==
  /\ exec = "send"
  /\ exec' = "cleanup" /\ handled' = FALSE
  /\ wire' \in {wire} \cup (IF alive THEN {Append(wire, execution)} ELSE {})
  /\ UNCHANGED <<execution, round, after, trans, subCtx, stateVars, brkCtx, connValid, alive>>

\* Pull returns the OER that ends the oldest unread answer.  A SELECT that got
\* no row makes a second round trip.
PullResponse ==
  /\ exec = "pull" /\ wire # <<>>
  /\ wire' = Tail(wire)
  /\ \/ exec' = "cleanup" /\ round' = round
     \/ round < MaxRounds /\ exec' = "send" /\ round' = round + 1
  /\ UNCHANGED <<execution, after, trans, subCtx, stateVars, brkCtx, connValid, alive, handled>>

\* Pull, or the handling of a pulled message, fails with an error that is not
\* the context's: a lost connection, the receive timeout, an undecodable or an
\* unexpected message.
PullFails ==
  /\ exec = "pull"
  /\ exec' = "cleanup"
  /\ \/ alive' = FALSE /\ wire' = <<>>
     \/ UNCHANGED <<alive, wire>>
  /\ UNCHANGED <<execution, round, after, trans, subCtx, stateVars, brkCtx, connValid, handled>>

\* The transport returns context.Cause(ctx); when that is not ctx.Err() the
\* executor does not recognise the cancellation and returns the error.
PullCustomCause ==
  /\ exec = "pull" /\ subCtx = "custom"
  /\ exec' = "cleanup"
  /\ UNCHANGED <<execution, round, after, trans, subCtx, stateVars, brkCtx, connVars, handled>>

\* Mutant: requestBreakReset does not wait for the after-function to complete.
PullCancelledNoWait ==
  /\ exec = "pull" /\ subCtx = "done"
  /\ IF startOnce
       THEN exec' = "cleanup" /\ UNCHANGED stateVars
       ELSE /\ startOnce' = TRUE /\ start' = "true"
            /\ exec' = "pullOer" /\ UNCHANGED <<completed, done>>
  /\ UNCHANGED <<execution, round, after, trans, subCtx, brkCtx, connVars, handled>>

\* Mutant: requestBreakReset without startOnce waits for a second completion.
PullCancelledNoOnce ==
  /\ exec = "pull" /\ subCtx = "done" /\ start = "empty"
  /\ startOnce' = TRUE /\ start' = "true"
  /\ exec' = "await"
  /\ UNCHANGED <<completed, done, execution, round, after, trans, subCtx, brkCtx, connVars, handled>>

\* handleContextCancelled up to the receive from completed: requestBreakReset
\* authorises the after-function, unless startOnce has been used.
PullCancelled ==
  /\ exec = "pull" /\ subCtx = "done"
  /\ IF startOnce
       THEN exec' = "cleanup" /\ UNCHANGED stateVars
       ELSE /\ start = "empty"
            /\ startOnce' = TRUE /\ start' = "true"
            /\ exec' = "await" /\ UNCHANGED <<completed, done>>
  /\ UNCHANGED <<execution, round, after, trans, subCtx, brkCtx, connVars, handled>>

\* requestBreakReset returns with the break/reset timeout context.
Completed ==
  /\ exec = "await" /\ completed # "empty"
  /\ completed' = "empty" /\ exec' = "pullOer"
  /\ UNCHANGED <<execution, round, after, trans, subCtx, startOnce, start, done, brkCtx, connVars, handled>>

\* The rest of handleContextCancelled: the OER that follows a break/reset is
\* read under the timeout context, which is released on return.  Break/reset
\* that failed leaves the session in the break state: nothing can be read.
PullOer ==
  /\ exec = "pullOer" /\ connValid /\ wire # <<>> /\ brkCtx = "live"
  /\ wire' = Tail(wire) /\ brkCtx' = "released" /\ handled' = TRUE
  /\ \/ exec' = "cleanup" /\ round' = round
     \/ round < MaxRounds /\ exec' = "send" /\ round' = round + 1
  /\ UNCHANGED <<execution, after, trans, subCtx, stateVars, connValid, alive>>

PullOerFails ==
  /\ exec = "pullOer"
  /\ exec' = "cleanup" /\ brkCtx' = "released"
  /\ UNCHANGED <<execution, round, after, trans, subCtx, stateVars, connVars, handled>>

\* Mutant: cleanup releases the after-function but does not join it.
CleanupNoJoin ==
  /\ exec = "cleanup"
  /\ trans' = IF trans = "armed" THEN "stopped" ELSE trans
  /\ exec' = "idle" /\ subCtx' = "done"
  /\ after' = IF after = "armed" THEN "stopped" ELSE after
  /\ startOnce' = TRUE
  /\ start' = IF after = "armed" \/ startOnce THEN start ELSE "false"
  /\ UNCHANGED <<completed, done, execution, round, brkCtx, connVars, handled>>

\* The deferred stopTransAfterFunction, then cleanup: stop() wins if the
\* after-function has not been started, otherwise it is released and joined.
Cleanup ==
  /\ exec = "cleanup"
  /\ trans' = IF trans = "armed" THEN "stopped" ELSE trans
  /\ IF after = "armed"
       THEN /\ after' = "stopped" /\ exec' = "idle" /\ subCtx' = "done"
            /\ UNCHANGED stateVars
       ELSE /\ exec' = "join" /\ UNCHANGED <<after, subCtx>>
            /\ IF startOnce
                 THEN UNCHANGED stateVars
                 ELSE /\ start = "empty"
                      /\ startOnce' = TRUE /\ start' = "false"
                      /\ UNCHANGED <<completed, done>>
  /\ UNCHANGED <<execution, round, brkCtx, connVars, handled>>

\* cleanup receives from the closed done channel and cancels the sub-context.
Join ==
  /\ exec = "join" /\ done
  /\ exec' = "idle" /\ subCtx' = "done"
  /\ UNCHANGED <<execution, round, after, trans, stateVars, brkCtx, connVars, handled>>

-----------------------------------------------------------------------------
(* Cancellation of the contexts. *)

\* The caller's context is cancelled or times out while the call runs.
CancelParent ==
  /\ exec # "idle" /\ subCtx = "live"
  /\ subCtx' \in {"done", "custom"}
  /\ UNCHANGED <<exec, execution, round, after, trans, stateVars, brkCtx, connVars, handled>>

\* The transaction's context is cancelled: its after-function starts.
CancelTransaction ==
  /\ trans = "armed"
  /\ trans' = "started"
  /\ UNCHANGED <<exec, execution, round, after, subCtx, stateVars, brkCtx, connVars, handled>>

\* The transaction's after-function calls cancelSubContext.
CancelSubContext ==
  /\ trans = "started"
  /\ trans' = "stopped"
  /\ subCtx' = IF subCtx = "live" THEN "done" ELSE subCtx
  /\ UNCHANGED <<exec, execution, round, after, stateVars, brkCtx, connVars, handled>>

\* The context package starts the after-function of a cancelled sub-context.
FireAfterFunc ==
  /\ after = "armed" /\ subCtx # "live"
  /\ after' = "started"
  /\ UNCHANGED <<exec, execution, round, trans, subCtx, stateVars, brkCtx, connVars, handled>>

-----------------------------------------------------------------------------
(* The after-function. *)

AfterStarted ==
  /\ after = "started"
  /\ after' = "waiting" /\ brkCtx' = "live"
  /\ UNCHANGED <<exec, execution, round, trans, subCtx, stateVars, connVars, handled>>

\* <-start: false ends the after-function, true lets it break.
ReceiveStart ==
  /\ after = "waiting" /\ start # "empty"
  /\ start' = "empty"
  /\ IF start = "true"
       THEN after' = "breaking" /\ UNCHANGED <<brkCtx, done>>
       ELSE after' = "finished" /\ brkCtx' = "released" /\ done' = TRUE
  /\ UNCHANGED <<exec, execution, round, trans, subCtx, startOnce, completed, connVars, handled>>

\* Mutant: break/reset leaves what was already under way on the stream.
BreakResetKeepsData ==
  /\ after = "breaking" /\ alive /\ brkCtx = "live"
  /\ after' = "broke" /\ wire' = Append(wire, execution)
  /\ UNCHANGED <<exec, execution, round, trans, subCtx, stateVars, brkCtx, connValid, alive, handled>>

\* cancelExecution -> connection.cancelCurrentExecution -> CancelOperation.
\* Success discards whatever was under way; the server then sends one OER.
BreakResetSucceeds ==
  /\ after = "breaking" /\ alive /\ brkCtx = "live"
  /\ after' = "broke" /\ wire' = <<execution>>
  /\ UNCHANGED <<exec, execution, round, trans, subCtx, stateVars, brkCtx, connValid, alive, handled>>

BreakResetFails ==
  /\ after = "breaking"
  /\ after' = "broke" /\ connValid' = FALSE
  /\ UNCHANGED <<exec, execution, round, trans, subCtx, stateVars, brkCtx, wire, alive, handled>>

\* completed <- result, then the deferred close(done).
SendCompleted ==
  /\ after = "broke" /\ completed = "empty"
  /\ after' = "closing" /\ completed' = "result"
  /\ UNCHANGED <<exec, execution, round, trans, subCtx, startOnce, start, done, brkCtx, connVars, handled>>

CloseDone ==
  /\ after = "closing"
  /\ after' = "finished" /\ done' = TRUE
  /\ UNCHANGED <<exec, execution, round, trans, subCtx, startOnce, start, completed, brkCtx, connVars, handled>>

\* cancelTimeout elapses.
BreakTimeout ==
  /\ brkCtx = "live" /\ brkCtx' = "expired"
  /\ UNCHANGED <<exec, execution, round, after, trans, subCtx, stateVars, connVars, handled>>

-----------------------------------------------------------------------------
Exec ==
  \/ \E inTransaction \in BOOLEAN : Begin(inTransaction)
  \/ SendRequest \/ SendFails
  \/ PullResponse \/ PullFails \/ PullCustomCause \/ PullCancelled
  \/ Completed \/ PullOer \/ PullOerFails
  \/ Cleanup \/ Join

Contexts ==
  CancelParent \/ CancelTransaction \/ CancelSubContext \/ FireAfterFunc \/ BreakTimeout

AfterFunc ==
  \/ AfterStarted \/ ReceiveStart
  \/ BreakResetSucceeds \/ BreakResetFails
  \/ SendCompleted \/ CloseDone

CancelNext == Exec \/ Contexts \/ AfterFunc

\* Runnable goroutines run, started timers fire, and an I/O call returns once
\* its context is done (the transport selects on ctx.Done).  Nothing is assumed
\* of the server.
Fairness ==
  /\ WF_cancelVars(subCtx # "live" /\ (SendRequest \/ SendFails))
  /\ WF_cancelVars(PullCustomCause \/ PullCancelled)
  /\ WF_cancelVars(Completed) /\ WF_cancelVars(Cleanup) /\ WF_cancelVars(Join)
  /\ WF_cancelVars(FireAfterFunc) /\ WF_cancelVars(CancelSubContext)
  /\ WF_cancelVars(AfterStarted) /\ WF_cancelVars(ReceiveStart)
  /\ WF_cancelVars(SendCompleted) /\ WF_cancelVars(CloseDone)
  /\ WF_cancelVars(BreakTimeout)
  /\ WF_cancelVars(brkCtx = "expired" /\ (BreakResetFails \/ PullOerFails))

CancelSpec == CancelInit /\ [][CancelNext]_cancelVars

CancelFairSpec == CancelSpec /\ Fairness

-----------------------------------------------------------------------------
Executions == 1..MaxExecutions

\* Every variable keeps its type; the two channels never exceed capacity 1.
TypeOK ==
  /\ exec \in {"idle", "send", "pull", "await", "pullOer", "cleanup", "join"}
  /\ execution \in 0..MaxExecutions /\ round \in Nat
  /\ after \in {"armed", "stopped", "started", "waiting", "breaking", "broke",
               "closing", "finished"}
  /\ trans \in {"none", "armed", "stopped", "started"}
  /\ subCtx \in {"live", "done", "custom"}
  /\ startOnce \in BOOLEAN /\ done \in BOOLEAN
  /\ start \in {"empty", "true", "false"}
  /\ completed \in {"empty", "result"}
  /\ brkCtx \in {"none", "live", "expired", "released"}
  /\ wire \in Seq(Executions)
  /\ connValid \in BOOLEAN /\ alive \in BOOLEAN /\ handled \in BOOLEAN

\* networkSession has no lock: while the after-function runs CancelOperation on
\* it, the calling goroutine is inside requestBreakReset and neither sends,
\* reads nor has returned the connection to the pool.
SessionExclusive == after = "breaking" => exec = "await"

\* When a call has returned, its after-function can never run again: it was
\* stopped before it started, or cleanup waited until it closed done.
NoCallbackAfterReturn == exec = "idle" => after \in {"stopped", "finished"}

\* The timeout context created by the after-function is released on every path
\* (abort, break/reset followed by OER, break/reset followed by an error).
TimerReleased == exec = "idle" => brkCtx \in {"none", "released"}

\* A round trip ended by break/reset and its OER leaves the stream clean: the
\* server owes nothing, older abandoned answers included, and the connection
\* is still good.
CancelledRoundSettles == exec = "idle" /\ handled => wire = <<>> /\ connValid

\* A cancelled or timed-out call returns, however the server behaves.
CancelledCallReturns == (exec # "idle" /\ subCtx # "live") ~> exec = "idle"

\* connection.go:67-71, statement.go:200: an operation that failed and was not
\* stopped in the server leaves the connection marked invalid.
UnstoppedOperationInvalidates == exec = "idle" /\ connValid /\ alive => wire = <<>>
=============================================================================
