----------------------------- MODULE LobHandle -----------------------------
(***************************************************************************)
(* What the open state of a LOB promises, wherever it is kept: it is       *)
(* opened in one mode when closed, closed when open, and asking tells      *)
(* which of the two it is.                                                 *)
(***************************************************************************)
VARIABLES
  mode,   \* "closed", or how the LOB is open
  told    \* the last answer, "yes" or "no", or "none" after another call

Init == mode = "closed" /\ told = "none"

Open(m) == mode = "closed" /\ mode' = m /\ told' \in {told, "none"}
Close == mode # "closed" /\ mode' = "closed" /\ told' \in {told, "none"}
Ask == told' = (IF mode = "closed" THEN "no" ELSE "yes") /\ UNCHANGED mode
Other == told' = "none" /\ UNCHANGED mode

Next == Close \/ Ask \/ Other \/ \E m \in {"ReadOnly", "ReadWrite"} : Open(m)

Spec == Init /\ [][Next]_<<mode, told>>
============================================================================
