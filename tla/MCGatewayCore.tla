--------------------------- MODULE MCGatewayCore ---------------------------
(***************************************************************************)
(* Small instances of GatewayCore for TLC.                                 *)
(***************************************************************************)
EXTENDS GatewayCore, TLC

CONSTANTS op1, op2, pane1, pane2, paneEmpty, firstmate, shell, home, home2, elsewhere, relative,
          dirHome, dirElsewhere, one, two, herdr

MCCanonical == (home :> dirHome) @@ (home2 :> dirHome)
               @@ (elsewhere :> dirElsewhere) @@ (relative :> NoDirectory)

AnAgent(pane, kind, cwd, fg, status) ==
  [paneId |-> pane, agent |-> kind, cwd |-> cwd, foregroundCwd |-> fg, agentStatus |-> status]

FirstMate(pane) == AnAgent(pane, firstmate, home2, Absent, "idle")

(* One match, a blocked match, the pane taken over by a shell while the    *)
(* agent is in another one, two matches.                                   *)
MCAgentList ==
  { <<FirstMate(pane1)>>,
    <<AnAgent(pane1, firstmate, home, Absent, "blocked")>>,
    <<AnAgent(pane1, shell, home, home, "idle"), FirstMate(pane2)>>,
    <<FirstMate(pane1), FirstMate(pane2)>> }

(* Also: no agent, a foreground directory that hides the pane's own, an    *)
(* unusable one, and a pane without an id.                                 *)
MCAgentListWide ==
  MCAgentList \cup
  { <<>>,
    <<AnAgent(pane1, firstmate, home, elsewhere, "idle")>>,
    <<AnAgent(pane1, firstmate, home, relative, "idle"), AnAgent(pane2, Absent, home, Absent, "unknown")>>,
    <<AnAgent(paneEmpty, firstmate, elsewhere, home, "working")>> }

AtHome == [herdrSession |-> herdr, agent |-> firstmate, firstmateHome |-> home]
Elsewhere == [herdrSession |-> herdr, agent |-> firstmate, firstmateHome |-> elsewhere]

MCConfig == { (one :> AtHome) @@ (two :> NotConfigured) }
MCConfigWide ==
  { (one :> AtHome) @@ (two :> NotConfigured), (one :> Elsewhere) @@ (two :> AtHome),
    MissingConfig, InvalidConfig }

Ask(kind, alias) == [kind |-> kind, alias |-> alias, input |-> "valid", source |-> "recent-unwrapped"]

MCRequest == { Ask("send", one), Ask("read", one) }
MCRequestWide ==
  [kind : {"send", "read", "semantic", "status"}, alias : {one, two}, input : {"valid"},
   source : {"recent-unwrapped"}]
  \cup { Ask("list", one),
         [Ask("send", one) EXCEPT !.input = "oversized"],
         [Ask("read", one) EXCEPT !.input = "invalid"],
         [Ask("read", one) EXCEPT !.source = "visible"] }

MCRemoteCode == {"agent_blocked", "agent_not_found", "timeout", "agent_prompt_stalled"}
MCMayHaveTyped == {"timeout", "agent_prompt_stalled"}

OpSymmetry == Permutations(Op)

=============================================================================
