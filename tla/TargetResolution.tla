-------------------------- MODULE TargetResolution --------------------------
(***************************************************************************)
(* How the Gateway turns a configured target into one live Herdr pane      *)
(* (src/src/target.ts).  A target names an agent kind and the FirstMate    *)
(* home directory; every operation matches them against the agent list it  *)
(* has just received.  The algorithm is pure: no pane is remembered.       *)
(*                                                                         *)
(* A path is a spelling; Canonical gives the directory it denotes, and     *)
(* NoDirectory for a spelling that is empty or not absolute.  Two          *)
(* spellings of one directory ("/a/b" and "/a/./b") are different members  *)
(* of Spelling with the same canonical value.                              *)
(***************************************************************************)
EXTENDS Naturals, Sequences

CONSTANTS
  Pane,         \* pane ids a Herdr server may list, NoPane excluded
  EmptyPane,    \* the pane id "", which the wire format does not exclude
  NoPane,       \* no pane is known
  Kind,         \* agent kinds
  Spelling,     \* spellings of paths
  Directory,    \* canonical absolute directories
  NoDirectory,  \* the canonical value of a relative or empty spelling
  Canonical,    \* normalize(resolve(p)) of each spelling
  Absent        \* an optional wire field that is absent or null

ASSUME PaneAssumption ==
  /\ EmptyPane \in Pane
  /\ NoPane \notin Pane

ASSUME PathAssumption ==
  /\ Canonical \in [Spelling -> Directory \cup {NoDirectory}]
  /\ NoDirectory \notin Directory
  /\ Absent \notin Spelling
  /\ Absent \notin Kind

AgentStatus == {"idle", "working", "blocked", "done", "unknown"}

HerdrAgent == [paneId : Pane,
               agent : Kind \cup {Absent},
               cwd : Spelling \cup {Absent},
               foregroundCwd : Spelling \cup {Absent},
               agentStatus : AgentStatus]

(* The identity part of a target's configuration.  The configuration       *)
(* schema admits only absolute homes, but a configuration object handed to *)
(* the Gateway directly is not required to have passed it.                 *)
TargetConfig(Session) == [herdrSession : Session, agent : Kind, firstmateHome : Spelling]

canonicalAbsolutePath(path) ==
  IF path = Absent THEN NoDirectory ELSE Canonical[path]

(* Mutant: an unusable foreground directory falls back to the pane's own.  *)
candidateCwdWithFallback(agent) ==
  IF canonicalAbsolutePath(agent.foregroundCwd) # NoDirectory
  THEN canonicalAbsolutePath(agent.foregroundCwd)
  ELSE canonicalAbsolutePath(agent.cwd)

(* The working directory that identifies an agent.  A foreground directory *)
(* that is present is the only evidence, even when it is unusable; the     *)
(* pane's own directory is weaker evidence, used only in its absence.      *)
candidateCwd(agent) ==
  IF agent.foregroundCwd # Absent
  THEN canonicalAbsolutePath(agent.foregroundCwd)
  ELSE canonicalAbsolutePath(agent.cwd)

isIdentityMatch(target, agent) ==
  /\ agent.agent = target.agent
  /\ candidateCwd(agent) # NoDirectory
  /\ candidateCwd(agent) = canonicalAbsolutePath(target.firstmateHome)

matches(target, agents) == {i \in DOMAIN agents : isIdentityMatch(target, agents[i])}

(* A resolution is the agent found, or the code of the error thrown.       *)
Resolved(agent) == [ok |-> TRUE, agent |-> agent]
Unresolved(code) == [ok |-> FALSE, code |-> code]

(* Mutant: the first match is taken, however many there are.               *)
resolveTargetFirst(target, agents) ==
  LET found == matches(target, agents)
  IN IF found = {}
     THEN Unresolved("TARGET_NOT_FOUND")
     ELSE Resolved(agents[CHOOSE i \in found : \A j \in found : i <= j])

(* Mutant: a lone agent of the right kind is taken wherever it works.      *)
resolveTargetByKindAlone(target, agents) ==
  LET found == matches(target, agents)
      ofKind == {i \in DOMAIN agents : agents[i].agent = target.agent}
  IN IF \E i, j \in found : i # j
     THEN Unresolved("TARGET_AMBIGUOUS")
     ELSE IF found # {}
     THEN Resolved(agents[CHOOSE i \in found : TRUE])
     ELSE IF \E i \in ofKind : ofKind = {i}
     THEN Resolved(agents[CHOOSE i \in ofKind : TRUE])
     ELSE Unresolved("TARGET_NOT_FOUND")

resolveTarget(target, agents) ==
  LET found == matches(target, agents)
  IN IF canonicalAbsolutePath(target.firstmateHome) = NoDirectory
     THEN Unresolved("CONFIG_INVALID")
     ELSE IF found = {}
     THEN Unresolved("TARGET_NOT_FOUND")
     ELSE IF \E i, j \in found : i # j
     THEN Unresolved("TARGET_AMBIGUOUS")
     ELSE Resolved(agents[CHOOSE i \in found : TRUE])

=============================================================================
