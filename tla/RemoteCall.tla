----------------------------- MODULE RemoteCall -----------------------------
(***************************************************************************)
(* What one call of the Herdr client promises its caller, and what Gateway *)
(* Core is built on: the call ends once; it ends in an answer only if      *)
(* Herdr gave that answer to that request; when it ends in "transport" the *)
(* request may have reached Herdr, or reach it later.                      *)
(***************************************************************************)

CONSTANT Answer   \* what Herdr can say: "result", "error" or not an answer

VARIABLES
  reached,   \* Herdr has the request
  answer,    \* what Herdr said to it
  outcome    \* what the caller got

vars == <<reached, answer, outcome>>

Outcome == {"waiting", "transport", "malformed", "result", "error"}

(* What the caller makes of what Herdr said.                               *)
Understood(said) == IF said \in {"result", "error"} THEN said ELSE "malformed"

Init ==
  /\ reached = FALSE
  /\ answer = "none"
  /\ outcome = "waiting"

Reach ==
  /\ ~reached
  /\ reached' = TRUE
  /\ UNCHANGED <<answer, outcome>>

Say ==
  /\ reached
  /\ answer = "none"
  /\ answer' \in Answer
  /\ UNCHANGED <<reached, outcome>>

End ==
  /\ outcome = "waiting"
  /\ \/ outcome' = "transport"
     \/ answer # "none" /\ outcome' = Understood(answer)
  /\ UNCHANGED <<reached, answer>>

Next == Reach \/ Say \/ End

Spec == Init /\ [][Next]_vars /\ WF_vars(End)

=============================================================================
