----------------------------- MODULE LiveAgents -----------------------------
(***************************************************************************)
(* One configured target and the agent list of its Herdr session: agents   *)
(* join and leave the list one at a time, and the properties say how the   *)
(* resolution of the target, taken afresh from each list, may follow.      *)
(***************************************************************************)
EXTENDS TargetResolution, Functions

CONSTANTS
  Session,      \* names of Herdr sessions
  Configured,   \* the targets a configuration may hold
  Listable,     \* the agents Herdr may list
  MaxAgents     \* bound: the length of the list

ASSUME ListAssumption ==
  /\ Configured \subseteq TargetConfig(Session)
  /\ Listable \subseteq HerdrAgent
  /\ MaxAgents \in Nat

VARIABLES target, agents

vars == <<target, agents>>

Init ==
  /\ target \in Configured
  /\ agents = <<>>

(* A pane holds one agent.                                                 *)
Join(agent) ==
  /\ Len(agents) < MaxAgents
  /\ \A i \in DOMAIN agents : agents[i].paneId # agent.paneId
  /\ agents' = Append(agents, agent)
  /\ UNCHANGED target

Without(list, i) == [j \in 1 .. Len(list) - 1 |-> list[IF j < i THEN j ELSE j + 1]]

Leave(i) ==
  /\ agents' = Without(agents, i)
  /\ UNCHANGED target

Next == (\E agent \in Listable : Join(agent)) \/ (\E i \in DOMAIN agents : Leave(i))

Spec == Init /\ [][Next]_vars

-----------------------------------------------------------------------------
Now == resolveTarget(target, agents)

(* The list holds agents Herdr may list, each pane once.                   *)
TypeOK ==
  /\ target \in Configured
  /\ agents \in Seq(Listable)
  /\ \A i, j \in DOMAIN agents : agents[i].paneId = agents[j].paneId => i = j

(* A resolved target is never redirected by the coming or going of another *)
(* agent: the answer stays, or becomes ambiguous when one appears (resolve- *)
(* Target fails closed); nor is a target found because one is gone.        *)
OthersNeverRedirect ==
  [][/\ Now.ok /\ Len(agents') > Len(agents) => Now' \in {Now, Unresolved("TARGET_AMBIGUOUS")}
     /\ Now.ok /\ (\E i \in DOMAIN agents' : agents'[i] = Now.agent) /\ Len(agents') < Len(agents) => Now' = Now
     /\ Now = Unresolved("TARGET_NOT_FOUND") /\ Len(agents') < Len(agents) => Now' = Now]_vars

(* The order in which Herdr lists its agents means nothing.                *)
OrderIsIrrelevant ==
  \A shuffle \in Bijection(DOMAIN agents, DOMAIN agents) :
    resolveTarget(target, [i \in DOMAIN agents |-> agents[shuffle[i]]]) = Now

(* The agent found works in the configured home: where its foreground      *)
(* process runs when that is known, its own directory otherwise.           *)
FoundWhereItWorks ==
  Now.ok =>
    LET evidence == IF Now.agent.foregroundCwd = Absent THEN Now.agent.cwd ELSE Now.agent.foregroundCwd
    IN /\ Now.agent.agent = target.agent
       /\ evidence # Absent
       /\ Canonical[evidence] = Canonical[target.firstmateHome]
       /\ Canonical[evidence] # NoDirectory

=============================================================================
