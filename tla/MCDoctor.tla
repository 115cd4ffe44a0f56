------------------------------ MODULE MCDoctor ------------------------------
(***************************************************************************)
(* Small instances of Doctor for TLC: two targets in one session or two.   *)
(***************************************************************************)
EXTENDS Doctor, TLC

CONSTANTS pane1, pane2, paneEmpty, firstmate, home, home2, elsewhere, dirHome, dirElsewhere,
          one, two, alpha, beta

MCCanonical == (home :> dirHome) @@ (home2 :> dirHome) @@ (elsewhere :> dirElsewhere)

FirstMate(pane, cwd) ==
  [paneId |-> pane, agent |-> firstmate, cwd |-> cwd, foregroundCwd |-> Absent, agentStatus |-> "idle"]

(* Both targets live, one of them, one of them twice.                      *)
MCAgentList ==
  { <<FirstMate(pane1, home2), FirstMate(pane2, elsewhere)>>,
    <<FirstMate(pane1, home)>>,
    <<FirstMate(pane1, home), FirstMate(pane2, home2)>> }

At(s, cwd) == [herdrSession |-> s, agent |-> firstmate, firstmateHome |-> cwd]

MCConfig ==
  { (one :> At(alpha, home)) @@ (two :> At(alpha, elsewhere)),
    (one :> At(alpha, home)) @@ (two :> At(beta, home)) }

OneTarget == { (one :> At(alpha, home)) @@ (two :> NotConfigured) }

=============================================================================
