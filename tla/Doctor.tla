------------------------------- MODULE Doctor -------------------------------
(***************************************************************************)
(* One run of `doctor` (doctorOperation in src/src/gateway.ts and          *)
(* probeCompatibility in src/src/herdr/protocol.ts): it reads the          *)
(* configuration, lists the sessions once, probes the socket and the       *)
(* protocol of each session in turn and then resolves each target on the   *)
(* endpoints that are left.  A failed check rarely ends it; what the later *)
(* checks say depends on which one failed.  The world may change and any   *)
(* call may fail between two checks, so a report is of several moments.    *)
(*                                                                         *)
(* The order of targets in the configuration is arbitrary, and a report is *)
(* the set of its checks: what is checked, for whom and the code.          *)
(***************************************************************************)
EXTENDS TargetResolution, FiniteSets

CONSTANTS
  Alias,           \* target aliases
  Session,         \* names of Herdr sessions
  NotConfigured,   \* an alias the configuration does not define
  Config,          \* tables of targets the configuration may hold
  AgentList,       \* agent lists a Herdr server may report
  Nobody,          \* what a check about the whole installation is about
  MaxChanges,      \* bound: how often the world changes
  MaxUpsets        \* bound: how often a call fails though nothing is wrong

ASSUME DoctorAssumption ==
  /\ Config \subseteq [Alias -> TargetConfig(Session) \cup {NotConfigured}]
  /\ NotConfigured \notin TargetConfig(Session)
  /\ AgentList \subseteq Seq(HerdrAgent)
  /\ Nobody \notin Alias \cup Session
  /\ MaxChanges \in Nat /\ MaxUpsets \in Nat

SessionState == {"absent", "stopped", "socketless", "running"}

(* A Herdr server: current, older than the minimum protocol, or without    *)
(* one of the methods the Gateway needs.                                   *)
ServerState == {"current", "old", "lacking"}

Code == {"ok", "CONFIG_NOT_FOUND", "CONFIG_INVALID", "HERDR_NOT_FOUND", "HERDR_UNAVAILABLE",
         "HERDR_INCOMPATIBLE", "HERDR_SESSION_NOT_FOUND", "HERDR_SESSION_NOT_RUNNING",
         "TARGET_NOT_FOUND", "TARGET_AMBIGUOUS"}

Check == [name : {"configuration", "executable", "session", "socket", "protocol", "target"},
          about : Alias \cup Session \cup {Nobody},
          code : Code]

VARIABLES
  config,      \* the configuration, read once
  session,     \* state of each Herdr session
  server,      \* what serves it
  agents,      \* the agents it lists
  changes,     \* how often these have changed
  upsets,      \* how often a call failed by itself
  phase,       \* the await doctor is at
  current,     \* the session or alias it is about
  todo,        \* sessions still to be probed
  left,        \* aliases still to be resolved
  endpoints,   \* sessions whose endpoint is usable
  failure,     \* why a session's endpoint is not, or "ok"
  discovery,   \* why the sessions could not be listed, or "none"
  checks,      \* the report so far
  spoke,       \* sessions whose Herdr gave an answer that is not acceptable
  seen         \* states of the world there were since doctor was called

world == <<config, session, server, agents, changes>>
vars == <<world, upsets, phase, current, todo, left, endpoints, failure, discovery, checks,
          spoke, seen>>

Targets == {alias \in Alias : config[alias] # NotConfigured}
SessionOf(alias) == config[alias].herdrSession
uniqueSessions == {SessionOf(alias) : alias \in Targets}

Snapshot == [session |-> session, server |-> server, agents |-> agents]

Pass(name, about) == [name |-> name, about |-> about, code |-> "ok"]
Problem(name, about, code) == [name |-> name, about |-> about, code |-> code]

Init ==
  /\ config \in Config
  /\ session \in [Session -> SessionState]
  /\ server \in [Session -> ServerState]
  /\ agents \in [Session -> AgentList]
  /\ changes = 0
  /\ upsets = 0
  /\ phase = "config"
  /\ current = Nobody
  /\ todo = {}
  /\ left = {}
  /\ endpoints = {}
  /\ failure = [s \in Session |-> "ok"]
  /\ discovery = "none"
  /\ checks = {}
  /\ spoke = {}
  /\ seen = {Snapshot}

Push(new) == checks' = checks \cup new

-----------------------------------------------------------------------------
Class == {"transport", "malformed", "error", "missing", "old", "pong", "agents", "not_found"}

(* Calls.  How a call to a session's server can end: without an answer     *)
(* when the session does not run, otherwise as the server is; besides, any *)
(* call can be upset.                                                      *)

Upset(class, classes) ==
  /\ upsets < MaxUpsets
  /\ class \in classes
  /\ upsets' = upsets + 1

Ends(s, class, natural) ==
  \/ /\ class = IF session[s] = "running" THEN natural ELSE "transport"
     /\ UNCHANGED upsets
  \/ Upset(class, {"transport", "malformed", "error"})

(* An answer, but not one this client can work with.                       *)
Heard(s, class) ==
  spoke' = IF class \in {"malformed", "error", "missing", "old"} THEN spoke \cup {s} ELSE spoke

mapHerdrError(class) == IF class = "transport" THEN "HERDR_UNAVAILABLE" ELSE "HERDR_INCOMPATIBLE"

-----------------------------------------------------------------------------
(* The configuration and the list of sessions.                             *)

LoadFails ==
  /\ phase = "config"
  /\ upsets < MaxUpsets
  /\ upsets' = upsets + 1
  /\ \E code \in {"CONFIG_NOT_FOUND", "CONFIG_INVALID"} : Push({Problem("configuration", Nobody, code)})
  /\ phase' = "done"
  /\ UNCHANGED <<world, current, todo, left, endpoints, failure, discovery, spoke, seen>>

Load ==
  /\ phase = "config"
  /\ Push({Pass("configuration", Nobody)})
  /\ phase' = "discover"
  /\ UNCHANGED <<world, upsets, current, todo, left, endpoints, failure, discovery, spoke, seen>>

DiscoverFails ==
  /\ phase = "discover"
  /\ upsets < MaxUpsets
  /\ upsets' = upsets + 1
  /\ \E code \in {"HERDR_NOT_FOUND", "HERDR_UNAVAILABLE"} : Push({Problem("executable", Nobody, code)})
  /\ phase' = "done"
  /\ UNCHANGED <<world, current, todo, left, endpoints, failure, discovery, spoke, seen>>

getSessionFromDiscovery(state) ==
  IF state = "absent" THEN "HERDR_SESSION_NOT_FOUND"
  ELSE IF state = "stopped" THEN "HERDR_SESSION_NOT_RUNNING"
  ELSE IF state = "socketless" THEN "HERDR_INCOMPATIBLE"
  ELSE "ok"

(* The loops.  What follows the last session is decided in the same turn:  *)
(* a target whose endpoint is gone is reported with the reason, without    *)
(* another call, and the others are resolved.                              *)
Proceed(new, remaining, usable, why) ==
  LET lost == {alias \in Targets : SessionOf(alias) \notin usable}
      reason(alias) == IF discovery' # "none" THEN discovery' ELSE why[SessionOf(alias)]
  IN /\ todo' = remaining
     /\ endpoints' = usable
     /\ failure' = why
     /\ \/ /\ remaining # {}
           /\ Push(new)
           /\ phase' = "validate"
           /\ UNCHANGED left
        \/ /\ remaining = {}
           /\ Push(new \cup {Problem("target", alias, reason(alias)) : alias \in lost})
           /\ left' = Targets \ lost
           /\ phase' = IF left' = {} THEN "done" ELSE "list"

(* The sessions are looked up in the list in the turn that has it; a list  *)
(* that does not parse counts as an empty one.                             *)
Examine(states) ==
  LET code == [s \in Session |-> getSessionFromDiscovery(states[s])]
      found == {s \in uniqueSessions : code[s] = "ok"}
  IN Proceed({Pass("executable", Nobody)}
               \cup {[name |-> "session", about |-> s, code |-> code[s]] : s \in uniqueSessions}
               \cup IF discovery' = "none" THEN {} ELSE {Problem("session", Nobody, discovery')},
             found, found, code)

Discover ==
  /\ phase = "discover"
  /\ UNCHANGED discovery
  /\ Examine(session)
  /\ UNCHANGED <<world, upsets, current, spoke, seen>>

DiscoverGarbled ==
  /\ phase = "discover"
  /\ upsets < MaxUpsets
  /\ upsets' = upsets + 1
  /\ discovery' = "HERDR_INCOMPATIBLE"
  /\ Examine([s \in Session |-> "absent"])
  /\ UNCHANGED <<world, current, spoke, seen>>

-----------------------------------------------------------------------------
(* One session: its socket, a ping, and the four methods.                  *)

(* Mutants: the failure ends the loop; its reason is not kept; it is tried *)
(* again.                                                                  *)
DropBreaks(s, code, remaining) ==
  Proceed({Problem("socket", s, code)}, {}, endpoints \ {s}, [failure EXCEPT ![s] = code])

DropUnexplained(s, code, remaining) ==
  Proceed({Problem("socket", s, code)}, remaining, endpoints \ {s}, failure)

DropRetries(s, code, remaining) ==
  Proceed({Problem("socket", s, code)}, remaining \cup {s}, endpoints, [failure EXCEPT ![s] = code])

(* A session that failed is out of the map of endpoints from here on.      *)
Drop(s, code, remaining) ==
  Proceed({Problem("socket", s, code)}, remaining, endpoints \ {s}, [failure EXCEPT ![s] = code])

ValidateFails ==
  /\ phase = "validate"
  /\ \E s \in todo :
       /\ \/ session[s] # "running" /\ UNCHANGED upsets
          \/ Upset("transport", {"transport"})
       /\ UNCHANGED discovery
       /\ Drop(s, "HERDR_UNAVAILABLE", todo \ {s})
  /\ UNCHANGED <<world, current, spoke, seen>>

Validate ==
  /\ phase = "validate"
  /\ \E s \in todo :
       /\ session[s] = "running"
       /\ current' = s
       /\ todo' = todo \ {s}
  /\ phase' = "ping"
  /\ UNCHANGED <<world, upsets, left, endpoints, failure, discovery, checks, spoke, seen>>

Ping ==
  /\ phase = "ping"
  /\ UNCHANGED discovery
  /\ \E class \in Class :
       /\ Ends(current, class, "pong")
       /\ Heard(current, class)
       /\ \/ /\ class = "pong"
             /\ Push({Pass("socket", current)})
             /\ phase' = "ping again"
             /\ UNCHANGED <<todo, left, endpoints, failure>>
          \/ /\ class # "pong"
             /\ Drop(current, mapHerdrError(class), todo)
  /\ UNCHANGED <<world, current, seen>>

(* probeCompatibility: how each of its four calls ends on this server, the *)
(* ends it accepts, and what it makes of one it does not.                  *)
ProbeStep == <<"ping again", "list again", "probe prompt", "probe read">>

Natural(step, state) ==
  IF step = "ping again" THEN IF state = "old" THEN "old" ELSE "pong"
  ELSE IF step = "list again" THEN "agents"
  ELSE IF step = "probe read" /\ state = "lacking" THEN "missing"
  ELSE "not_found"

Accepted == {"pong", "agents", "not_found"}

(* Mutant: the version is not held against the server.                     *)
probeCodeAnyVersion(step, class) == IF class = "old" THEN "ok" ELSE "HERDR_INCOMPATIBLE"

(* probeCall hands a transport error on; proveAgentMethod makes every      *)
(* error of the client an incompatibility.                                 *)
probeCode(step, class) ==
  IF step \in {"ping again", "list again"} THEN mapHerdrError(class) ELSE "HERDR_INCOMPATIBLE"

(* The session keeps its endpoint, whatever the probe says.                *)
Probe ==
  /\ \E i \in DOMAIN ProbeStep :
       /\ phase = ProbeStep[i]
       /\ UNCHANGED discovery
       /\ \E class \in Class :
            /\ Ends(current, class, Natural(ProbeStep[i], server[current]))
            /\ Heard(current, class)
            /\ \/ /\ class \in Accepted
                  /\ i < Len(ProbeStep)
                  /\ phase' = ProbeStep[i + 1]
                  /\ UNCHANGED <<todo, left, endpoints, failure, checks>>
               \/ /\ class \in Accepted
                  /\ i = Len(ProbeStep)
                  /\ Proceed({Pass("protocol", current)}, todo, endpoints, failure)
               \/ /\ class \notin Accepted
                  /\ Proceed({Problem("protocol", current, probeCode(ProbeStep[i], class))},
                             todo, endpoints, failure)
  /\ UNCHANGED <<world, current, seen>>

-----------------------------------------------------------------------------
(* One target: a fresh agent list and the resolution.                      *)

(* Mutant: several matches are as good as one.                             *)
verdictAnyMatch(alias, class) ==
  LET found == resolveTarget(config[alias], agents[SessionOf(alias)])
  IN IF class # "agents" THEN mapHerdrError(class)
     ELSE IF found.ok \/ found.code = "TARGET_AMBIGUOUS" THEN "ok" ELSE found.code

verdict(alias, class) ==
  LET found == resolveTarget(config[alias], agents[SessionOf(alias)])
  IN IF class # "agents" THEN mapHerdrError(class)
     ELSE IF found.ok THEN "ok" ELSE found.code

Resolve ==
  /\ phase = "list"
  /\ \E alias \in left, class \in Class :
       /\ Ends(SessionOf(alias), class, "agents")
       /\ Heard(SessionOf(alias), class)
       /\ Push({[name |-> "target", about |-> alias, code |-> verdict(alias, class)]})
       /\ left' = left \ {alias}
       /\ phase' = IF left' = {} THEN "done" ELSE "list"
  /\ UNCHANGED <<world, current, todo, endpoints, failure, discovery, seen>>

-----------------------------------------------------------------------------
(* Meanwhile a session stops or restarts with another server, or agents    *)
(* come and go.                                                            *)
WorldChange ==
  /\ phase # "done"
  /\ changes < MaxChanges
  /\ changes' = changes + 1
  /\ \E s \in Session :
       \/ \E state \in SessionState : session' = [session EXCEPT ![s] = state] /\ UNCHANGED <<server, agents>>
       \/ \E state \in ServerState : server' = [server EXCEPT ![s] = state] /\ UNCHANGED <<session, agents>>
       \/ \E list \in AgentList : agents' = [agents EXCEPT ![s] = list] /\ UNCHANGED <<session, server>>
  /\ seen' = seen \cup {Snapshot'}
  /\ UNCHANGED <<config, upsets, phase, current, todo, left, endpoints, failure, discovery, checks, spoke>>

doctorStep ==
  \/ LoadFails \/ Load \/ DiscoverFails \/ Discover \/ DiscoverGarbled
  \/ ValidateFails \/ Validate \/ Ping \/ Probe \/ Resolve

Next == doctorStep \/ WorldChange

Spec == Init /\ [][Next]_vars

(* Each await ends: the executable, the socket check and every call have a *)
(* timer of their own.                                                     *)
FairSpec == Spec /\ WF_vars(doctorStep)

-----------------------------------------------------------------------------
TypeOK ==
  /\ config \in Config
  /\ session \in [Session -> SessionState]
  /\ server \in [Session -> ServerState]
  /\ agents \in [Session -> AgentList]
  /\ changes \in 0..MaxChanges
  /\ upsets \in 0..MaxUpsets
  /\ phase \in {"config", "discover", "validate", "ping", "list", "done"} \cup {ProbeStep[i] : i \in 1..4}
  /\ current \in Session \cup {Nobody}
  /\ todo \subseteq Session
  /\ left \subseteq Alias
  /\ endpoints \subseteq Session
  /\ failure \in [Session -> Code]
  /\ discovery \in {"none", "HERDR_INCOMPATIBLE"}
  /\ checks \subseteq Check
  /\ spoke \subseteq Session

Done == phase = "done"
Healthy == \A c \in checks : c.code = "ok"
Listed == \E c \in checks : c.name = "executable" /\ c.code = "ok"
About(name, about) == {c \in checks : c.name = name /\ c.about = about}

(* In a state of the world a target is reachable if its session runs and   *)
(* exactly one of its agents is the target.                                *)
Reachable(alias, w) ==
  /\ w.session[SessionOf(alias)] = "running"
  /\ resolveTarget(config[alias], w.agents[SessionOf(alias)]).ok

(* If nothing changes and nothing fails by itself, the report is right in  *)
(* both directions: all is well exactly if every target can be reached on  *)
(* a server of a sufficient version with every method (doctorOperation).   *)
RightWhenStill ==
  Done /\ changes = 0 /\ upsets = 0 =>
    (Healthy <=> \A alias \in Targets :
                   Reachable(alias, Snapshot) /\ server[SessionOf(alias)] = "current")

(* However the world changes and whatever fails under it, a clean report   *)
(* has been earned: every target was reachable at some moment since doctor *)
(* was called, and Herdr's answers were acceptable throughout.             *)
HealthIsEarned ==
  Done /\ Healthy =>
    /\ \A alias \in Targets : \E w \in seen : Reachable(alias, w)
    /\ spoke = {}

(* Nothing is passed over: a report that got as far as the sessions has    *)
(* one verdict on each session and each target, one on each socket it      *)
(* found and one on the protocol of each socket that answered              *)
(* (the loops of doctorOperation, which delete from the map they walk).    *)
NothingIsSkipped ==
  Done /\ Listed =>
    /\ \A s \in uniqueSessions : Cardinality(About("session", s)) = 1
    /\ \A alias \in Targets : Cardinality(About("target", alias)) = 1
    /\ \A s \in uniqueSessions :
         /\ Pass("session", s) \in checks <=> Cardinality(About("socket", s)) = 1
         /\ Pass("socket", s) \in checks <=> Cardinality(About("protocol", s)) = 1

(* A target that could not be checked is blamed on what failed for its own *)
(* session, or on the list of sessions (runtimeFailures, sessionFailures,  *)
(* discoveryFailure).                                                      *)
BlameIsRight ==
  Done => \A alias \in Targets : \A c \in About("target", alias) :
    SessionOf(alias) \notin endpoints =>
      \E cause \in checks :
        /\ cause.code = c.code
        /\ c.code # "ok"
        /\ cause.name \in {"session", "socket"}
        /\ cause.about = IF discovery = "none" THEN SessionOf(alias) ELSE Nobody

(* A report always comes.                                                  *)
ReportsEventually == <>Done

(* "doctor distinguishes config/Herdr/session/compatibility/target-        *)
(* resolution failures" (docs/04-implementation-plan.md, Task 6): a Herdr  *)
(* that is called incompatible has given an answer that is.  It is not so  *)
(* when a probe of agent.prompt or agent.read gets no answer.              *)
IncompatibleWasHeard ==
  \A c \in checks : c.name = "protocol" /\ c.code = "HERDR_INCOMPATIBLE" => c.about \in spoke

=============================================================================
