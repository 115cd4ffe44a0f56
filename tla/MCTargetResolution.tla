------------------------- MODULE MCTargetResolution -------------------------
(***************************************************************************)
(* LiveAgents over every agent list of up to three agents.                 *)
(***************************************************************************)
EXTENDS LiveAgents, FiniteSets, TLC

CONSTANTS pane1, pane2, pane3, paneEmpty, firstmate, shell, home, home2, elsewhere, relative,
          dirHome, dirElsewhere

MCCanonical == (home :> dirHome) @@ (home2 :> dirHome)
               @@ (elsewhere :> dirElsewhere) @@ (relative :> NoDirectory)

MCConfigured == [herdrSession : Session, agent : {firstmate}, firstmateHome : {home, home2, relative}]

MCListable == [paneId : {pane1, pane2, pane3},
               agent : {firstmate, Absent},
               cwd : {home, elsewhere, Absent},
               foregroundCwd : {home2, elsewhere, relative, Absent},
               agentStatus : {"idle"}]

Symmetry == Permutations({pane1, pane2, pane3})

=============================================================================
