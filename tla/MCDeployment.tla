---------------------------- MODULE MCDeployment ----------------------------
(***************************************************************************)
(* Small instances of Deployment for TLC.                                  *)
(***************************************************************************)
EXTENDS Deployment, TLC

(* Installers side by side and nothing fails; one at a time and anything   *)
(* may; side by side and anything may.                                     *)
Calm == [overlap |-> TRUE, faults |-> {}]
Alone == [overlap |-> FALSE, faults |-> {"io", "crash"}]
Storm == [overlap |-> TRUE, faults |-> {"io", "crash"}]

AllRegimes == {Calm, Alone, Storm}
AloneWithCrashes == {[overlap |-> FALSE, faults |-> {"crash"}]}
TogetherWithFailures == {[overlap |-> TRUE, faults |-> {"io"}]}

RuntimeSymmetry == Permutations(Process) \cup Permutations(Runtime)

=============================================================================
