------------------------------ MODULE MCSession ------------------------------
(***************************************************************************)
(* An instance for TLC of a connection in use: the packets of its network  *)
(* session with breaks and resets, and the goroutines of executions that   *)
(* are cancelled.  A behaviour exercises one of the two parts.             *)
(***************************************************************************)
EXTENDS NetworkSession, StatementCancel

CONSTANT RunParts   \* the parts of the instance that a run has

VARIABLE part   \* "packets" or "cancellation"

sessionVars == <<part, vars, cancelVars>>

SessionInit == part \in RunParts /\ Init /\ CancelInit

\* All calls made, or the connection dropped: the client need not move again.
Finished ==
  /\ \/ part = "packets" /\ pc = "idle" /\ (call = MaxCalls \/ ~isValid)
     \/ part = "cancellation" /\ exec = "idle" /\ (execution = MaxExecutions \/ ~connValid)
  /\ UNCHANGED sessionVars

\* A client waiting for a packet with no deadline may wait.
Waiting == part = "packets" /\ pc \in {"fill", "reset"} /\ UNCHANGED sessionVars

SessionNext ==
  \/ part = "packets" /\ Next /\ UNCHANGED <<part, cancelVars>>
  \/ part = "cancellation" /\ CancelNext /\ UNCHANGED <<part, vars>>
  \/ Finished
  \/ Waiting

\* The fairness of the two modules.
SessionSpec ==
  /\ SessionInit /\ [][SessionNext]_sessionVars
  /\ WF_vars(part = "packets" /\ ClientSteps) /\ WF_vars(part = "packets" /\ ServerSteps)
  /\ Fairness
=============================================================================
