--------------------------- MODULE PromptDelivery ---------------------------
(***************************************************************************)
(* What a caller of send may rely on.  A prompt cannot be taken back and   *)
(* Herdr does not recognise a repeated one, so the Gateway promises:       *)
(*   - a prompt is typed into an agent at most once;                       *)
(*   - an accepted prompt has been typed;                                  *)
(*   - a refused prompt has not been typed and never will be;              *)
(*   - in every other case the answer is "uncertain", and only then may    *)
(*     the prompt be typed after the caller has its answer.                *)
(***************************************************************************)
EXTENDS Naturals

CONSTANT Op     \* the send operations

VARIABLES
  outcome,      \* what the caller has been told
  typed         \* how many times the prompt has been typed into an agent

vars == <<outcome, typed>>

Outcome == {"open", "accepted", "refused", "uncertain"}

TypeOK ==
  /\ outcome \in [Op -> Outcome]
  /\ typed \in [Op -> Nat]

Init ==
  /\ outcome = [op \in Op |-> "open"]
  /\ typed = [op \in Op |-> 0]

Type(op) ==
  /\ typed[op] = 0
  /\ outcome[op] \in {"open", "uncertain"}
  /\ typed' = [typed EXCEPT ![op] = 1]
  /\ UNCHANGED outcome

Answer(op, answer) ==
  /\ outcome[op] = "open"
  /\ outcome' = [outcome EXCEPT ![op] = answer]
  /\ UNCHANGED typed

Accept(op) == typed[op] = 1 /\ Answer(op, "accepted")

Refuse(op) == typed[op] = 0 /\ Answer(op, "refused")

GiveUp(op) == Answer(op, "uncertain")

Next == \E op \in Op : Type(op) \/ Accept(op) \/ Refuse(op) \/ GiveUp(op)

Spec == Init /\ [][Next]_vars

=============================================================================
