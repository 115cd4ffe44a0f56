---------------------------- MODULE DoctorProofs ----------------------------
(***************************************************************************)
(* Theorems about doctor, for any number of sessions and targets, any      *)
(* agents, and any number of changes and failures meanwhile.               *)
(***************************************************************************)
EXTENDS Doctor, FiniteSetTheorems, TLAPS

Before == {"config", "discover"}
Calling == {"ping", "ping again", "list again", "probe prompt", "probe read"}
Probing == Calling \cup {"validate"}

Bad == \E c \in checks : c.code # "ok"

(* Why a session's endpoint is not usable, and whom that is said of.       *)
Cause(s, code, among) ==
  code # "ok" /\ \E c \in among : c.name \in {"session", "socket"} /\ c.about = s /\ c.code = code

Types ==
  /\ config \in Config
  /\ phase \in Before \cup Probing \cup {"list", "done"}
  /\ failure = [s \in Session |-> failure[s]]
  /\ todo \subseteq Session
  /\ phase \in Calling => current \in Session
  /\ Snapshot \in seen
  /\ phase # "list" => left = {}

Begun ==
  /\ phase \in Before =>
       spoke = {} /\ discovery = "none" /\ checks \subseteq {Pass("configuration", Nobody)}
  /\ phase \in Probing \cup {"list"} => Listed
  /\ phase = "done" => Listed \/ Bad

(* Nothing is heard but what the report shows, and no session is dropped   *)
(* without a cause.                                                        *)
Explained ==
  /\ spoke # {} => Bad
  /\ discovery # "none" => discovery # "ok" /\ Problem("session", Nobody, discovery) \in checks
  /\ Listed => \A s \in uniqueSessions \ endpoints : Cause(s, failure[s], checks)

Verdict(c) ==
  /\ phase \in {"list", "done"} /\ Listed /\ c.about \in Targets
  /\ SessionOf(c.about) \notin endpoints =>
       c.code = IF discovery # "none" THEN discovery ELSE failure[SessionOf(c.about)]
  /\ c.code = "ok" => \E w \in seen : Reachable(c.about, w)

Settled ==
  /\ \A c \in checks : c.name = "target" => Verdict(c)
  /\ left \subseteq Targets /\ \A alias \in left : SessionOf(alias) \in endpoints
  /\ phase \in {"list", "done"} /\ Listed =>
       \A alias \in Targets : alias \in left \/ \E c \in checks : c.name = "target" /\ c.about = alias

Inv == Types /\ Begun /\ Explained /\ Settled

-----------------------------------------------------------------------------
(* What follows a check: the loops, wherever they are entered or continued. *)
LEMMA ProceedPreserves ==
  ASSUME Inv, phase \in Before \cup Probing, NEW new, NEW remaining, NEW usable, NEW why,
         Proceed(new, remaining, usable, why), UNCHANGED <<world, seen>>,
         \A c \in new : c.name # "target",
         \E c \in checks \cup new : c.name = "executable" /\ c.code = "ok",
         why = [s \in Session |-> why[s]], remaining \subseteq Session,
         \A s \in uniqueSessions \ usable : Cause(s, why[s], checks \cup new),
         discovery' # "none" => discovery' # "ok" /\ Problem("session", Nobody, discovery') \in checks \cup new,
         spoke' # {} => \E c \in checks \cup new : c.code # "ok"
  PROVE  Inv'
<1> DEFINE lost == {alias \in Targets : SessionOf(alias) \notin usable}
           reason(alias) == IF discovery' # "none" THEN discovery' ELSE why[SessionOf(alias)]
           told == {Problem("target", alias, reason(alias)) : alias \in lost}
<1>1. /\ config' = config /\ session' = session /\ server' = server /\ agents' = agents /\ seen' = seen
      /\ Snapshot' = Snapshot
  BY DEF world, Snapshot
<1>2. /\ Targets' = Targets /\ uniqueSessions' = uniqueSessions
      /\ \A alias : SessionOf(alias)' = SessionOf(alias)
  BY <1>1 DEF Targets, uniqueSessions, SessionOf
<1>3. todo' = remaining /\ endpoints' = usable /\ failure' = why
  BY DEF Proceed
<1>4. \A c \in checks : c.name # "target"
  BY DEF Inv, Settled, Verdict, Before, Probing, Calling
<1>5. left = {}
  BY DEF Inv, Types, Before, Probing, Calling
<1>6. \/ /\ phase' = "validate" /\ left' = {} /\ checks' = checks \cup new
      \/ /\ phase' \in {"list", "done"} /\ checks' = checks \cup new \cup told /\ left' = Targets \ lost
         /\ phase' # "list" => left' = {}
  BY <1>5 DEF Proceed, Push
<1>7. Types'
  BY <1>1, <1>3, <1>6 DEF Inv, Types, Before, Probing, Calling
<1>8. checks \cup new \subseteq checks'
  BY <1>6
<1>9. Listed'
  BY <1>8 DEF Listed
<1>10. Begun'
  BY <1>6, <1>9 DEF Begun, Before, Probing, Calling
<1>11. Explained'
  BY <1>2, <1>3, <1>8 DEF Explained, Bad, Cause, Problem
<1>12. Settled'
  <2>1. CASE phase' = "validate" /\ left' = {} /\ checks' = checks \cup new
    BY <1>4, <2>1 DEF Settled
  <2>2. CASE phase' \in {"list", "done"} /\ checks' = checks \cup new \cup told /\ left' = Targets \ lost
    <3>1. ASSUME NEW c \in checks', c.name = "target" PROVE Verdict(c)'
      <4>1. PICK alias \in lost : c = Problem("target", alias, reason(alias))
        BY <1>4, <2>2, <3>1
      <4>2. c.about = alias /\ c.code = reason(alias)
        BY <4>1 DEF Problem
      <4>3. reason(alias) # "ok"
        <5>1. SessionOf(alias) \in uniqueSessions \ usable
          BY DEF uniqueSessions
        <5> QED BY <5>1 DEF Cause
      <4> QED BY <1>2, <1>3, <1>9, <2>2, <4>2, <4>3 DEF Verdict
    <3>2. \A alias \in left' : alias \in Targets' /\ SessionOf(alias)' \in endpoints'
      BY <1>2, <1>3, <2>2
    <3>3. ASSUME NEW alias \in Targets, alias \notin left'
          PROVE  \E c \in checks' : c.name = "target" /\ c.about = alias
      <4>1. Problem("target", alias, reason(alias)) \in checks'
        BY <2>2, <3>3
      <4> QED BY <4>1 DEF Problem
    <3> QED BY <1>2, <3>1, <3>2, <3>3 DEF Settled
  <2> QED BY <1>6, <2>1, <2>2
<1> QED BY <1>7, <1>10, <1>11, <1>12 DEF Inv

-----------------------------------------------------------------------------
LEMMA PassSays ==
  ASSUME NEW name, NEW about
  PROVE  Pass(name, about).name = name /\ Pass(name, about).about = about /\ Pass(name, about).code = "ok"
BY DEF Pass

LEMMA ProblemSays ==
  ASSUME NEW name, NEW about, NEW code
  PROVE  /\ Problem(name, about, code).name = name /\ Problem(name, about, code).about = about
         /\ Problem(name, about, code).code = code
BY DEF Problem

(* What stays as it is while only the report, the phase and the world move. *)
LEMMA FrameKept ==
  ASSUME UNCHANGED config
  PROVE  /\ Targets' = Targets /\ uniqueSessions' = uniqueSessions
         /\ \A alias : SessionOf(alias)' = SessionOf(alias)
         /\ \A alias, w : Reachable(alias, w)' = Reachable(alias, w)
BY DEF Targets, uniqueSessions, SessionOf, Reachable

LEMMA SessionsAreKnown == ASSUME Inv PROVE uniqueSessions \subseteq Session
<1> SUFFICES ASSUME NEW alias \in Targets PROVE SessionOf(alias) \in Session
  BY DEF uniqueSessions
<1>1. config \in [Alias -> TargetConfig(Session) \cup {NotConfigured}]
  BY DoctorAssumption DEF Inv, Types
<1>2. config[alias] \in TargetConfig(Session)
  BY <1>1 DEF Targets
<1> QED BY <1>2 DEF TargetConfig, SessionOf

(* A call that goes well on the way through one session.                   *)
LEMMA ProbingContinues ==
  ASSUME Inv, phase \in Probing, phase' \in Calling, current' \in Session, todo' \subseteq Session,
         checks \subseteq checks', \A c \in checks' \ checks : c.name # "target",
         UNCHANGED <<world, left, endpoints, failure, discovery, spoke, seen>>
  PROVE  Inv'
<1>1. Types'
  BY DEF Inv, Types, world, Snapshot, Probing, Calling
<1>2. Listed /\ Listed' /\ checks \subseteq checks'
  BY DEF Inv, Begun, Listed
<1>3. Begun'
  BY <1>2 DEF Begun, Before, Probing, Calling
<1>4. UNCHANGED config
  BY DEF world
<1>5. Explained'
  BY <1>2, <1>4, FrameKept DEF Inv, Explained, Bad, Cause
<1>6. phase \notin {"list", "done"} /\ phase' \notin {"list", "done"}
  BY DEF Probing, Calling
<1>7. \A c \in checks' : c.name # "target"
  BY <1>6 DEF Inv, Settled, Verdict
<1>8. Settled'
  BY <1>4, <1>6, <1>7, FrameKept DEF Inv, Settled
<1> QED BY <1>1, <1>3, <1>5, <1>8 DEF Inv

(* A session that fails.                                                   *)
LEMMA DropPreserves ==
  ASSUME Inv, phase \in Probing, NEW s \in Session, NEW code, NEW remaining, remaining \subseteq Session,
         code # "ok", Drop(s, code, remaining), UNCHANGED <<world, discovery, seen>>
  PROVE  Inv'
<1> DEFINE new == {Problem("socket", s, code)}
           why == [failure EXCEPT ![s] = code]
<1>1. Proceed(new, remaining, endpoints \ {s}, why)
  BY DEF Drop
<1>2. Listed /\ phase \notin Before
  BY DEF Inv, Begun, Probing, Calling, Before
<1>3. failure = [t \in Session |-> failure[t]]
  BY DEF Inv, Types
<1>4. why = [t \in Session |-> why[t]] /\ \A t \in Session : why[t] = IF t = s THEN code ELSE failure[t]
  BY <1>3
<1>5. ASSUME NEW t \in uniqueSessions \ (endpoints \ {s})
      PROVE  Cause(t, why[t], checks \cup new)
  <2>1. CASE t = s
    <3>1. Problem("socket", s, code) \in checks \cup new /\ why[s] = code
      BY <1>4
    <3> HIDE DEF new, why
    <3> QED BY <2>1, <3>1, ProblemSays DEF Cause
  <2>2. CASE t # s
    <3>1. t \in Session
      BY SessionsAreKnown
    <3>2. Cause(t, failure[t], checks)
      BY <1>2, <2>2 DEF Inv, Explained
    <3> QED BY <1>4, <2>2, <3>1, <3>2 DEF Cause
  <2> QED BY <2>1, <2>2
<1>6. \E c \in checks \cup new : c.name = "executable" /\ c.code = "ok"
  BY <1>2 DEF Listed
<1>7. \A c \in new : c.name # "target"
  BY DEF Problem
<1>8. \E c \in checks \cup new : c.code # "ok"
  <2>1. Problem("socket", s, code) \in checks \cup new
    OBVIOUS
  <2> HIDE DEF new
  <2> QED BY <2>1, ProblemSays
<1>9. discovery' # "none" => discovery' # "ok" /\ Problem("session", Nobody, discovery') \in checks \cup new
  BY DEF Inv, Explained
<1> HIDE DEF new, why
<1> QED BY <1>1, <1>4, <1>5, <1>6, <1>7, <1>8, <1>9, ProceedPreserves

-----------------------------------------------------------------------------
(* Each step.                                                              *)
LEMMA LoadFailsPreserves == ASSUME Inv, LoadFails PROVE Inv'
<1>1. /\ phase = "config" /\ phase' = "done" /\ spoke = {} /\ discovery = "none"
      /\ checks \subseteq {Pass("configuration", Nobody)}
  BY DEF Inv, Begun, LoadFails, Before
<1>2. PICK code \in {"CONFIG_NOT_FOUND", "CONFIG_INVALID"} :
        checks' = checks \cup {Problem("configuration", Nobody, code)}
  BY DEF LoadFails, Push
<1>3. \A c \in checks' : c.name = "configuration"
  BY <1>1, <1>2 DEF Pass, Problem
<1>4. Bad' /\ ~Listed'
  BY <1>2, <1>3, ProblemSays DEF Bad, Listed
<1>5. Types'
  BY <1>1 DEF Inv, Types, LoadFails, world, Snapshot, Calling
<1>6. Begun' /\ Explained'
  BY <1>1, <1>4 DEF Begun, Explained, LoadFails, Before, Probing, Calling
<1>7. Settled'
  BY <1>1, <1>3, <1>4 DEF Inv, Types, Settled, LoadFails
<1> QED BY <1>5, <1>6, <1>7 DEF Inv

LEMMA LoadPreserves == ASSUME Inv, Load PROVE Inv'
<1>1. /\ phase = "config" /\ phase' = "discover" /\ spoke = {} /\ discovery = "none"
      /\ checks' \subseteq {Pass("configuration", Nobody)}
  BY DEF Inv, Begun, Load, Push, Before
<1>2. \A c \in checks' : c.name = "configuration"
  BY <1>1 DEF Pass
<1>3. ~Listed'
  BY <1>2 DEF Listed
<1>4. Types'
  BY <1>1 DEF Inv, Types, Load, world, Snapshot, Calling, Before
<1>5. Begun' /\ Explained'
  BY <1>1, <1>3 DEF Begun, Explained, Load, Before, Probing, Calling
<1>6. Settled'
  BY <1>1, <1>2, <1>3 DEF Inv, Types, Settled, Load
<1> QED BY <1>4, <1>5, <1>6 DEF Inv

LEMMA DiscoverFailsPreserves == ASSUME Inv, DiscoverFails PROVE Inv'
<1>1. /\ phase = "discover" /\ phase' = "done" /\ spoke = {} /\ discovery = "none"
      /\ checks \subseteq {Pass("configuration", Nobody)}
  BY DEF Inv, Begun, DiscoverFails, Before
<1>2. PICK code \in {"HERDR_NOT_FOUND", "HERDR_UNAVAILABLE"} :
        checks' = checks \cup {Problem("executable", Nobody, code)}
  BY DEF DiscoverFails, Push
<1>3. \A c \in checks' : c.name = "configuration" \/ (c.name = "executable" /\ c.code # "ok")
  BY <1>1, <1>2 DEF Pass, Problem
<1>4. Bad' /\ ~Listed'
  BY <1>2, <1>3, ProblemSays DEF Bad, Listed
<1>5. Types'
  BY <1>1 DEF Inv, Types, DiscoverFails, world, Snapshot, Calling
<1>6. Begun' /\ Explained'
  BY <1>1, <1>4 DEF Begun, Explained, DiscoverFails, Before, Probing, Calling
<1>7. Settled'
  BY <1>1, <1>3, <1>4 DEF Inv, Types, Settled, DiscoverFails
<1> QED BY <1>5, <1>6, <1>7 DEF Inv

(* The list of sessions: every session that is not in it, or does not run, *)
(* is reported.                                                            *)
LEMMA ExaminePreserves ==
  ASSUME Inv, phase = "discover", NEW states, Examine(states),
         discovery' \in {"none", "HERDR_INCOMPATIBLE"}, UNCHANGED <<world, spoke, seen>>
  PROVE  Inv'
<1> DEFINE code == [s \in Session |-> getSessionFromDiscovery(states[s])]
           found == {s \in uniqueSessions : code[s] = "ok"}
           verdicts == {[name |-> "session", about |-> s, code |-> code[s]] : s \in uniqueSessions}
           garbled == IF discovery' = "none" THEN {} ELSE {Problem("session", Nobody, discovery')}
           new == {Pass("executable", Nobody)} \cup verdicts \cup garbled
<1>1. Proceed(new, found, found, code)
  BY DEF Examine
<1>2. spoke = {}
  BY DEF Inv, Begun, Before
<1>3. found \subseteq Session
  BY SessionsAreKnown
<1>4. code = [s \in Session |-> code[s]]
  OBVIOUS
<1>5. \A s \in uniqueSessions \ found : Cause(s, code[s], checks \cup new)
  <2> TAKE s \in uniqueSessions \ found
  <2>1. code[s] # "ok"
    OBVIOUS
  <2> DEFINE c == [name |-> "session", about |-> s, code |-> code[s]]
  <2>2. c \in checks \cup new
    OBVIOUS
  <2>3. c.name = "session" /\ c.about = s /\ c.code = code[s]
    OBVIOUS
  <2> HIDE DEF c, new, code
  <2> QED BY <2>1, <2>2, <2>3 DEF Cause
<1>6. \E c \in checks \cup new : c.name = "executable" /\ c.code = "ok"
  <2>1. Pass("executable", Nobody) \in checks \cup new
    OBVIOUS
  <2> HIDE DEF new
  <2> QED BY <2>1, PassSays
<1>7. \A c \in new : c.name # "target"
  <2>1. \A c \in verdicts : c.name = "session"
    <3> HIDE DEF code
    <3> QED OBVIOUS
  <2>2. \A c \in garbled : c.name = "session"
    BY ProblemSays
  <2> HIDE DEF verdicts, garbled
  <2> QED BY <2>1, <2>2, PassSays
<1>8. discovery' # "none" => discovery' # "ok" /\ Problem("session", Nobody, discovery') \in checks \cup new
  OBVIOUS
<1>9. phase \in Before \cup Probing
  BY DEF Before
<1> HIDE DEF new, code, found
<1> QED BY <1>1, <1>2, <1>3, <1>4, <1>5, <1>6, <1>7, <1>8, <1>9, ProceedPreserves

LEMMA DiscoverPreserves == ASSUME Inv, Discover PROVE Inv'
BY ExaminePreserves DEF Inv, Begun, Before, Discover

LEMMA DiscoverGarbledPreserves == ASSUME Inv, DiscoverGarbled PROVE Inv'
BY ExaminePreserves DEF DiscoverGarbled

LEMMA ValidateFailsPreserves == ASSUME Inv, ValidateFails PROVE Inv'
<1>1. PICK s \in todo : Drop(s, "HERDR_UNAVAILABLE", todo \ {s}) /\ UNCHANGED discovery
  BY DEF ValidateFails
<1>2. todo \subseteq Session /\ phase \in Probing
  BY DEF Inv, Types, ValidateFails, Probing
<1> QED BY <1>1, <1>2, DropPreserves DEF ValidateFails

LEMMA ValidatePreserves == ASSUME Inv, Validate PROVE Inv'
<1>1. /\ todo \subseteq Session /\ phase \in Probing /\ phase' \in Calling
      /\ current' \in Session /\ todo' \subseteq Session
  BY DEF Inv, Types, Validate, Probing, Calling
<1>2. UNCHANGED <<world, left, endpoints, failure, discovery, checks, spoke, seen>>
  BY DEF Validate
<1> QED BY <1>1, <1>2, ProbingContinues

LEMMA PingPreserves == ASSUME Inv, Ping PROVE Inv'
<1>1. PICK class \in Class :
        /\ Heard(current, class)
        /\ \/ /\ class = "pong"
              /\ Push({Pass("socket", current)})
              /\ phase' = "ping again"
              /\ UNCHANGED <<todo, left, endpoints, failure>>
           \/ /\ class # "pong"
              /\ Drop(current, mapHerdrError(class), todo)
  BY DEF Ping
<1>2. /\ current \in Session /\ todo \subseteq Session /\ phase \in Probing
      /\ UNCHANGED <<world, current, seen, discovery>>
  BY DEF Inv, Types, Ping, Probing, Calling
<1>3. CASE class = "pong"
  <2>1. checks' = checks \cup {Pass("socket", current)} /\ phase' \in Calling /\ UNCHANGED spoke
    BY <1>1, <1>3 DEF Push, Calling, Heard
  <2>2. checks \subseteq checks' /\ \A c \in checks' \ checks : c.name # "target"
    BY <2>1, PassSays
  <2> QED BY <1>1, <1>2, <1>3, <2>1, <2>2, ProbingContinues
<1>4. CASE class # "pong"
  <2>1. mapHerdrError(class) # "ok"
    BY DEF mapHerdrError
  <2> QED BY <1>1, <1>2, <1>4, <2>1, DropPreserves
<1> QED BY <1>3, <1>4

(* A call of the probe that is not accepted is reported, whatever it heard. *)
LEMMA ProbePreserves == ASSUME Inv, Probe PROVE Inv'
<1>1. PICK i \in DOMAIN ProbeStep, class \in Class :
        /\ phase = ProbeStep[i]
        /\ Heard(current, class)
        /\ \/ /\ class \in Accepted
              /\ i < Len(ProbeStep)
              /\ phase' = ProbeStep[i + 1]
              /\ UNCHANGED <<todo, left, endpoints, failure, checks>>
           \/ /\ class \in Accepted
              /\ i = Len(ProbeStep)
              /\ Proceed({Pass("protocol", current)}, todo, endpoints, failure)
           \/ /\ class \notin Accepted
              /\ Proceed({Problem("protocol", current, probeCode(ProbeStep[i], class))},
                         todo, endpoints, failure)
  BY DEF Probe
<1>2. UNCHANGED <<world, current, seen, discovery>>
  BY DEF Probe
<1>3. DOMAIN ProbeStep = 1..4 /\ Len(ProbeStep) = 4 /\ \A j \in 1..4 : ProbeStep[j] \in Calling
  BY DEF ProbeStep, Calling
<1>4. phase \in Calling /\ phase \in Probing /\ current \in Session /\ todo \subseteq Session
  BY <1>1, <1>3 DEF Inv, Types, Probing
<1>5. ASSUME NEW c, c.name # "target", c.name # "executable",
             Proceed({c}, todo, endpoints, failure), spoke' # {} => spoke # {} \/ c.code # "ok"
      PROVE  Inv'
  <2>1. Listed /\ phase \notin Before /\ phase \in Before \cup Probing
    BY <1>4 DEF Inv, Begun, Before, Probing, Calling
  <2>2. \E d \in checks \cup {c} : d.name = "executable" /\ d.code = "ok"
    BY <2>1 DEF Listed
  <2>3. \A s \in uniqueSessions \ endpoints : Cause(s, failure[s], checks \cup {c})
    BY <2>1 DEF Inv, Explained, Cause
  <2>4. failure = [s \in Session |-> failure[s]]
    BY DEF Inv, Types
  <2>5. discovery' # "none" => discovery' # "ok" /\ Problem("session", Nobody, discovery') \in checks \cup {c}
    BY <1>2 DEF Inv, Explained
  <2>6. spoke' # {} => \E d \in checks \cup {c} : d.code # "ok"
    BY <1>5 DEF Inv, Explained, Bad
  <2>7. \A d \in {c} : d.name # "target"
    BY <1>5
  <2> QED BY <1>2, <1>4, <1>5, <2>1, <2>2, <2>3, <2>4, <2>5, <2>6, <2>7, ProceedPreserves
<1>6. class \in Accepted => UNCHANGED spoke
  BY <1>1 DEF Accepted, Heard
<1>7. CASE class \in Accepted /\ i < Len(ProbeStep) /\ phase' = ProbeStep[i + 1]
           /\ UNCHANGED <<todo, left, endpoints, failure, checks>>
  <2>1. phase' \in Calling
    <3>1. i + 1 \in 1..4
      BY <1>3, <1>7
    <3> QED BY <1>3, <1>7, <3>1
  <2>2. checks \subseteq checks' /\ \A c \in checks' \ checks : c.name # "target"
    BY <1>7
  <2> QED BY <1>2, <1>4, <1>6, <1>7, <2>1, <2>2, ProbingContinues
<1>8. CASE class \in Accepted /\ Proceed({Pass("protocol", current)}, todo, endpoints, failure)
  BY <1>5, <1>6, <1>8, PassSays
<1>9. CASE /\ class \notin Accepted
           /\ Proceed({Problem("protocol", current, probeCode(ProbeStep[i], class))}, todo, endpoints, failure)
  <2>1. probeCode(ProbeStep[i], class) # "ok"
    BY DEF probeCode, mapHerdrError
  <2> QED BY <1>5, <1>9, <2>1, ProblemSays
<1> QED BY <1>1, <1>7, <1>8, <1>9

(* A target's verdict is ok only if it is reachable at that moment.        *)
LEMMA VerdictIsEarned ==
  ASSUME NEW alias, NEW class, Ends(SessionOf(alias), class, "agents"), verdict(alias, class) = "ok"
  PROVE  Reachable(alias, Snapshot)
<1> DEFINE found == resolveTarget(config[alias], agents[SessionOf(alias)])
<1>1. class = "agents"
  BY DEF verdict, mapHerdrError
<1>2. session[SessionOf(alias)] = "running"
  BY <1>1 DEF Ends, Upset
<1>3. ~ found.ok => found.code # "ok"
  BY DEF resolveTarget, Resolved, Unresolved
<1>4. found.ok
  BY <1>1, <1>3 DEF verdict
<1>5. Snapshot.session = session /\ Snapshot.agents = agents
  BY DEF Snapshot
<1> QED BY <1>2, <1>4, <1>5 DEF Reachable

LEMMA ResolvePreserves == ASSUME Inv, Resolve PROVE Inv'
<1>1. PICK alias \in left, class \in Class :
        /\ Ends(SessionOf(alias), class, "agents")
        /\ Heard(SessionOf(alias), class)
        /\ Push({[name |-> "target", about |-> alias, code |-> verdict(alias, class)]})
        /\ left' = left \ {alias}
        /\ phase' = IF left' = {} THEN "done" ELSE "list"
  BY DEF Resolve
<1>2. PICK c : checks' = checks \cup {c} /\ c.name = "target" /\ c.about = alias /\ c.code = verdict(alias, class)
  <2>1. checks' = checks \cup {Problem("target", alias, verdict(alias, class))}
    BY <1>1 DEF Push, Problem
  <2> QED BY <2>1, ProblemSays
<1>3. /\ phase = "list" /\ phase' \in {"list", "done"} /\ (phase' # "list" => left' = {})
      /\ UNCHANGED <<world, current, todo, endpoints, failure, discovery, seen>>
  BY <1>1 DEF Resolve
<1>4. UNCHANGED config
  BY <1>3 DEF world
<1>5. Listed /\ Listed'
  BY <1>2, <1>3 DEF Inv, Begun, Listed
<1>6. Types'
  BY <1>3 DEF Inv, Types, world, Snapshot, Probing, Calling, Before
<1>7. Begun'
  BY <1>3, <1>5 DEF Begun, Before, Probing, Calling
<1>8. Explained'
  <2>1. spoke' # spoke => c.code # "ok"
    <3>1. spoke' # spoke => class \in {"malformed", "error", "missing", "old"}
      BY <1>1 DEF Heard
    <3>2. class \in {"malformed", "error", "missing", "old"} => verdict(alias, class) = "HERDR_INCOMPATIBLE"
      BY DEF verdict, mapHerdrError
    <3> QED BY <1>2, <3>1, <3>2
  <2>2. spoke' # {} => Bad'
    BY <1>2, <2>1 DEF Inv, Explained, Bad
  <2> QED BY <1>2, <1>3, <1>4, <1>5, <2>2, FrameKept DEF Inv, Explained, Cause
<1>9. Settled'
  <2>1. alias \in Targets /\ SessionOf(alias) \in endpoints
    BY DEF Inv, Settled
  <2>2. c.code = "ok" => \E w \in seen : Reachable(alias, w)
    BY <1>1, <1>2, VerdictIsEarned DEF Inv, Types
  <2>3. Verdict(c)'
    BY <1>2, <1>3, <1>4, <1>5, <2>1, <2>2, FrameKept DEF Verdict
  <2>4. ASSUME NEW d \in checks, d.name = "target" PROVE Verdict(d)'
    <3>1. Verdict(d)
      BY <2>4 DEF Inv, Settled
    <3> QED BY <1>3, <1>4, <1>5, <3>1, FrameKept DEF Verdict
  <2>5. \A d \in checks' : d.name = "target" => Verdict(d)'
    BY <1>2, <2>3, <2>4
  <2>6. left' \subseteq Targets' /\ \A a \in left' : SessionOf(a)' \in endpoints'
    BY <1>1, <1>3, <1>4, FrameKept DEF Inv, Settled
  <2>7. \A a \in Targets : a \in left' \/ \E d \in checks' : d.name = "target" /\ d.about = a
    BY <1>1, <1>2, <1>3, <1>5 DEF Inv, Settled
  <2> QED BY <1>4, <2>5, <2>6, <2>7, FrameKept DEF Settled
<1> QED BY <1>6, <1>7, <1>8, <1>9 DEF Inv

(* The world moves: what was reachable remains a state it was in.          *)
LEMMA WorldChangePreserves == ASSUME Inv, WorldChange PROVE Inv'
<1>1. /\ UNCHANGED <<config, phase, current, todo, left, endpoints, failure, discovery, checks, spoke>>
      /\ seen' = seen \cup {Snapshot'}
  BY DEF WorldChange
<1>2. Types'
  BY <1>1 DEF Inv, Types
<1>3. Begun'
  BY <1>1 DEF Inv, Begun, Listed, Bad
<1>4. Explained'
  BY <1>1, FrameKept DEF Inv, Explained, Listed, Bad, Cause
<1>5. ASSUME NEW c, Verdict(c) PROVE Verdict(c)'
  BY <1>1, <1>5, FrameKept DEF Verdict, Listed
<1>6. Settled'
  BY <1>1, <1>5, FrameKept DEF Inv, Settled, Listed
<1> QED BY <1>2, <1>3, <1>4, <1>6 DEF Inv

LEMMA StutterPreserves == ASSUME Inv, UNCHANGED vars PROVE Inv'
<1>1. /\ UNCHANGED <<config, phase, current, todo, left, endpoints, failure, discovery, checks, spoke, seen>>
      /\ Snapshot' = Snapshot
  BY DEF vars, world, Snapshot
<1>2. Types' /\ Begun'
  BY <1>1 DEF Inv, Types, Begun, Listed, Bad
<1>3. Explained'
  BY <1>1, FrameKept DEF Inv, Explained, Listed, Bad, Cause
<1>4. ASSUME NEW c, Verdict(c) PROVE Verdict(c)'
  BY <1>1, <1>4, FrameKept DEF Verdict, Listed
<1>5. Settled'
  BY <1>1, <1>4, FrameKept DEF Inv, Settled, Listed
<1> QED BY <1>2, <1>3, <1>5 DEF Inv

-----------------------------------------------------------------------------
LEMMA InvInit == Init => Inv
<1> SUFFICES ASSUME Init PROVE Inv
  OBVIOUS
<1>1. Types
  BY DEF Init, Types, Before, Calling
<1>2. ~Listed
  BY DEF Init, Listed
<1>3. Begun /\ Explained /\ Settled
  BY <1>2 DEF Init, Begun, Explained, Settled, Before, Probing, Calling
<1> QED BY <1>1, <1>3 DEF Inv

LEMMA InvNext == Inv /\ [Next]_vars => Inv'
BY LoadFailsPreserves, LoadPreserves, DiscoverFailsPreserves, DiscoverPreserves,
   DiscoverGarbledPreserves, ValidateFailsPreserves, ValidatePreserves, PingPreserves,
   ProbePreserves, ResolvePreserves, WorldChangePreserves, StutterPreserves
   DEF Next, doctorStep

(* What is known of every report, whatever happened while it was made.     *)
THEOREM ReportsAreFounded == Spec => []Inv
BY InvInit, InvNext, PTL DEF Spec

(* A clean report of doctor (ok only if every check is ok) was earned,     *)
(* with any number of changes and failures meanwhile: each target was      *)
(* reachable at some moment of the run, and Herdr gave no answer that is   *)
(* not acceptable.                                                         *)
THEOREM HealthIsEarnedAlways == Spec => []HealthIsEarned
<1>1. Inv => HealthIsEarned
  <2> SUFFICES ASSUME Inv, Done, Healthy PROVE HealthIsEarned
    BY DEF HealthIsEarned
  <2>1. phase = "done" /\ ~Bad /\ left = {}
    BY DEF Inv, Types, Done, Healthy, Bad
  <2>2. Listed
    BY <2>1 DEF Inv, Begun
  <2>3. ASSUME NEW alias \in Targets PROVE \E w \in seen : Reachable(alias, w)
    <3>1. PICK c \in checks : c.name = "target" /\ c.about = alias
      BY <2>1, <2>2 DEF Inv, Settled
    <3> QED BY <3>1 DEF Inv, Settled, Verdict, Healthy
  <2> QED BY <2>1, <2>3 DEF Inv, Explained, HealthIsEarned
<1> QED BY <1>1, ReportsAreFounded, PTL

(* A target that could not be checked is reported with the reason that     *)
(* belongs to its own session, or to the list of sessions (sessionFailures,*)
(* runtimeFailures and discoveryFailure of doctorOperation), for any       *)
(* number of sessions, in any order of their failures.                     *)
THEOREM BlameIsRightAlways == Spec => []BlameIsRight
<1>1. Inv => BlameIsRight
  <2> SUFFICES ASSUME Inv, Done, NEW alias \in Targets, NEW c \in About("target", alias),
                      SessionOf(alias) \notin endpoints
               PROVE  \E cause \in checks :
                        /\ cause.code = c.code
                        /\ c.code # "ok"
                        /\ cause.name \in {"session", "socket"}
                        /\ cause.about = IF discovery = "none" THEN SessionOf(alias) ELSE Nobody
    BY DEF BlameIsRight
  <2>1. c \in checks /\ c.name = "target" /\ c.about = alias
    BY DEF About
  <2>2. Listed /\ c.code = IF discovery # "none" THEN discovery ELSE failure[SessionOf(alias)]
    BY <2>1 DEF Inv, Settled, Verdict
  <2>3. CASE discovery = "none"
    <3>1. SessionOf(alias) \in uniqueSessions \ endpoints
      BY DEF uniqueSessions
    <3> QED BY <2>2, <2>3, <3>1 DEF Inv, Explained, Cause
  <2>4. CASE discovery # "none"
    <3>1. discovery # "ok" /\ Problem("session", Nobody, discovery) \in checks
      BY <2>4 DEF Inv, Explained
    <3> QED BY <2>2, <2>4, <3>1, ProblemSays
  <2> QED BY <2>3, <2>4
<1> QED BY <1>1, ReportsAreFounded, PTL

-----------------------------------------------------------------------------
(* How many checks there are of what.                                      *)
Single(name, about) == \E c : About(name, about) = {c}
None(name, about) == About(name, about) = {}

Waiting(s) == s \in todo \/ (phase = "ping" /\ current = s)
Probed(s) == phase \in Calling \ {"ping"} /\ current = s

(* A check of the second kind follows a good check of the first, only.     *)
Follows(name, s, next) == IF Pass(name, s) \in checks THEN Single(next, s) ELSE None(next, s)

SessionCounted(s) ==
  /\ Single("session", s)
  /\ Waiting(s) => Pass("session", s) \in checks /\ None("socket", s) /\ None("protocol", s)
  /\ ~Waiting(s) => Follows("session", s, "socket")
  /\ Probed(s) => Pass("socket", s) \in checks /\ None("protocol", s)
  /\ ~Waiting(s) /\ ~Probed(s) => Follows("socket", s, "protocol")

TargetCounted(alias) ==
  IF phase \in {"list", "done"} /\ alias \notin left THEN Single("target", alias) ELSE None("target", alias)

Counted ==
  /\ todo \subseteq uniqueSessions
  /\ phase \in Calling => current \in uniqueSessions \ todo
  /\ phase \in Before \cup {"list", "done"} => todo = {}
  /\ Listed => (\A s \in uniqueSessions : SessionCounted(s)) /\ (\A alias \in Targets : TargetCounted(alias))

(* A report that grows.                                                    *)
LEMMA AboutGrows ==
  ASSUME NEW new, checks' = checks \cup new
  PROVE  \A name, about : About(name, about)' = About(name, about) \cup {c \in new : c.name = name /\ c.about = about}
BY DEF About

(* What a turn of the loops adds: its own checks and, after the last       *)
(* session, one on each target that is lost.                               *)
LEMMA ProceedTells ==
  ASSUME Inv, phase \in Before \cup Probing, NEW new, NEW remaining, NEW usable, NEW why,
         Proceed(new, remaining, usable, why), UNCHANGED config, \A c \in new : c.name # "target"
  PROVE  /\ \A alias \in Targets : TargetCounted(alias)'
         /\ \A name, about : name # "target" =>
              /\ About(name, about)' = About(name, about) \cup {c \in new : c.name = name /\ c.about = about}
              /\ Pass(name, about) \in checks' <=> Pass(name, about) \in checks \cup new
         /\ todo' = remaining
         /\ phase' \in {"validate", "list", "done"} /\ (phase' # "validate" => remaining = {})
<1> DEFINE lost == {alias \in Targets : SessionOf(alias) \notin usable}
           reason(alias) == IF discovery' # "none" THEN discovery' ELSE why[SessionOf(alias)]
           told == {Problem("target", alias, reason(alias)) : alias \in lost}
<1>1. todo' = remaining /\ left = {}
  BY DEF Inv, Types, Before, Probing, Calling, Proceed
<1>2. \A c \in checks \cup new : c.name # "target"
  BY DEF Inv, Settled, Verdict, Before, Probing, Calling
<1>3. CASE remaining # {} /\ phase' = "validate" /\ checks' = checks \cup new
  <2>1. \A alias : None("target", alias)'
    BY <1>2, <1>3 DEF None, About
  <2> QED BY <1>1, <1>3, <2>1, AboutGrows DEF TargetCounted
<1>4. CASE /\ remaining = {} /\ phase' \in {"list", "done"}
           /\ checks' = checks \cup (new \cup told) /\ left' = Targets \ lost
  <2>1. \A c \in told : c.name = "target" /\ c.about \in lost /\ c = Problem("target", c.about, reason(c.about))
    <3> SUFFICES ASSUME NEW alias \in lost
                 PROVE  LET c == Problem("target", alias, reason(alias))
                        IN c.name = "target" /\ c.about \in lost /\ c = Problem("target", c.about, reason(c.about))
      OBVIOUS
    <3> HIDE DEF reason, lost
    <3> QED BY ProblemSays
  <2>2. \A alias \in lost : Problem("target", alias, reason(alias)) \in told
    OBVIOUS
  <2> HIDE DEF told, reason
  <2>3. ASSUME NEW alias \in Targets PROVE TargetCounted(alias)'
    <3>1. CASE alias \in lost
      <4>1. About("target", alias)' = {Problem("target", alias, reason(alias))}
        BY <1>2, <1>4, <2>1, <2>2, <3>1, ProblemSays DEF About
      <4>2. PICK c : About("target", alias)' = {c}
        BY <4>1
      <4> QED BY <1>4, <3>1, <4>2 DEF TargetCounted, Single
    <3>2. CASE alias \notin lost
      <4>1. About("target", alias)' = {}
        BY <1>2, <1>4, <2>1, <3>2 DEF About
      <4> QED BY <1>4, <3>2, <4>1 DEF TargetCounted, None
    <3> QED BY <3>1, <3>2
  <2>4. ASSUME NEW name, NEW about, name # "target"
        PROVE  /\ About(name, about)' = About(name, about) \cup {c \in new : c.name = name /\ c.about = about}
               /\ Pass(name, about) \in checks' <=> Pass(name, about) \in checks \cup new
    <3>1. Pass(name, about) \notin told
      BY <2>1, <2>4, PassSays
    <3> QED BY <1>4, <2>1, <2>4, <3>1 DEF About
  <2> QED BY <1>1, <1>4, <2>3, <2>4
<1>5. \/ remaining # {} /\ phase' = "validate" /\ checks' = checks \cup new
      \/ /\ remaining = {} /\ phase' \in {"list", "done"}
         /\ checks' = checks \cup (new \cup told) /\ left' = Targets \ lost
  BY DEF Proceed, Push
<1> QED BY <1>3, <1>4, <1>5

(* A session of which nothing new is said.                                 *)
LEMMA Unmoved ==
  ASSUME NEW s, SessionCounted(s),
         \A name \in {"session", "socket", "protocol"} :
           About(name, s)' = About(name, s) /\ (Pass(name, s) \in checks' <=> Pass(name, s) \in checks),
         Waiting(s)' <=> Waiting(s), Probed(s)' <=> Probed(s)
  PROVE  SessionCounted(s)'
BY DEF SessionCounted, Follows, Single, None

(* The last check of a session: its socket failed, or its protocol has a   *)
(* verdict.                                                                *)
LEMMA CheckEnds ==
  ASSUME Inv, Counted, phase \in Probing, UNCHANGED config, NEW s \in uniqueSessions, NEW x, x.about = s,
         NEW usable, NEW why, Proceed({x}, todo \ {s}, usable, why),
         phase \in Calling => current = s,
         \/ x.name = "socket" /\ x.code # "ok" /\ Waiting(s)
         \/ x.name = "protocol" /\ Probed(s)
  PROVE  Counted'
<1>1. Targets' = Targets /\ uniqueSessions' = uniqueSessions
  BY FrameKept
<1>2. /\ \A alias \in Targets : TargetCounted(alias)'
      /\ \A name, about : name # "target" =>
           /\ About(name, about)' = About(name, about) \cup {c \in {x} : c.name = name /\ c.about = about}
           /\ Pass(name, about) \in checks' <=> Pass(name, about) \in checks \cup {x}
      /\ todo' = todo \ {s}
      /\ phase' \in {"validate", "list", "done"} /\ (phase' # "validate" => todo \ {s} = {})
  <2>1. \A c \in {x} : c.name # "target"
    OBVIOUS
  <2> QED BY <2>1, ProceedTells
<1>3. ASSUME NEW name, NEW about, name # "target", ~(x.name = name /\ x.about = about)
      PROVE  About(name, about)' = About(name, about) /\ (Pass(name, about) \in checks' <=> Pass(name, about) \in checks)
  <2>1. {c \in {x} : c.name = name /\ c.about = about} = {}
    BY <1>3
  <2>2. Pass(name, about) # x
    BY <1>3, PassSays
  <2>3. About(name, about)' = About(name, about) \cup {c \in {x} : c.name = name /\ c.about = about}
    BY <1>2, <1>3
  <2>4. About(name, about)' = About(name, about)
    BY <2>1, <2>3
  <2> QED BY <1>2, <1>3, <2>2, <2>4
<1>4. Listed
  BY DEF Inv, Begun
<1>5. \A t : ~Probed(t)' /\ (Waiting(t)' <=> t \in todo \ {s})
  BY <1>2 DEF Waiting, Probed, Calling
<1>6. \A t : t # s => ~Probed(t) /\ (Waiting(t) <=> t \in todo)
  BY DEF Waiting, Probed, Calling
<1>7. ASSUME NEW t \in uniqueSessions, t # s PROVE SessionCounted(t)'
  <2>1. \A name \in {"session", "socket", "protocol"} :
          About(name, t)' = About(name, t) /\ (Pass(name, t) \in checks' <=> Pass(name, t) \in checks)
    BY <1>7, <1>3
  <2> QED BY <1>4, <1>5, <1>6, <1>7, <2>1, Unmoved DEF Counted
<1>8. SessionCounted(s)'
  <2>1. SessionCounted(s)
    BY <1>4 DEF Counted
  <2>2. About("session", s)' = About("session", s) /\ (Pass("session", s) \in checks' <=> Pass("session", s) \in checks)
    BY <1>3
  <2>3. CASE x.name = "socket" /\ x.code # "ok" /\ Waiting(s)
    <3>1. About("socket", s) = {} /\ About("protocol", s) = {} /\ Pass("session", s) \in checks
      BY <2>1, <2>3 DEF SessionCounted, None
    <3>2. About("socket", s)' = {x} /\ About("protocol", s)' = {}
      BY <1>2, <2>3, <3>1
    <3>3. Pass("socket", s) \notin checks'
      BY <1>2, <2>3, <3>1, PassSays DEF About
    <3>4. Single("socket", s)' /\ None("protocol", s)'
      BY <3>2 DEF Single, None
    <3> QED BY <1>5, <2>1, <2>2, <3>1, <3>3, <3>4 DEF SessionCounted, Follows, Single
  <2>4. CASE x.name = "protocol" /\ Probed(s)
    <3>1. About("protocol", s) = {} /\ Pass("socket", s) \in checks
      BY <2>1, <2>4 DEF SessionCounted, None
    <3>2. About("socket", s)' = About("socket", s) /\ About("protocol", s)' = {x}
      <4>1. {c \in {x} : c.name = "protocol" /\ c.about = s} = {x}
        BY <2>4
      <4> QED BY <1>2, <1>3, <2>4, <3>1, <4>1
    <3>3. Pass("socket", s) \in checks'
      BY <1>2, <3>1
    <3>4. ~Waiting(s)
      BY <2>4 DEF Counted, Waiting, Probed
    <3>5. Single("protocol", s)'
      BY <3>2 DEF Single
    <3> QED BY <1>5, <2>1, <2>2, <3>2, <3>3, <3>4, <3>5 DEF SessionCounted, Follows, Single, None
  <2> QED BY <2>3, <2>4
<1>9. todo' \subseteq uniqueSessions' /\ phase' \notin Calling /\ (phase' \in Before \cup {"list", "done"} => todo' = {})
  BY <1>1, <1>2 DEF Counted, Calling, Before
<1> QED BY <1>1, <1>2, <1>7, <1>8, <1>9 DEF Counted

(* Before the list of sessions.                                            *)
LEMMA FailureCounted ==
  ASSUME Inv, Counted, phase \in Before, phase' \in {"done", "discover"}, UNCHANGED <<config, todo>>,
         NEW x, checks' = checks \cup {x}, x.name = "configuration" \/ x.code # "ok"
  PROVE  Counted'
<1>1. \A c \in checks : c.name = "configuration"
  BY PassSays DEF Inv, Begun
<1>2. ~Listed'
  BY <1>1 DEF Listed
<1> QED BY <1>2, FrameKept DEF Counted, Before, Calling

LEMMA ExamineCounted ==
  ASSUME Inv, phase = "discover", NEW states, Examine(states),
         discovery' \in {"none", "HERDR_INCOMPATIBLE"}, UNCHANGED config
  PROVE  Counted'
<1> DEFINE code == [s \in Session |-> getSessionFromDiscovery(states[s])]
           found == {s \in uniqueSessions : code[s] = "ok"}
           judged(s) == Problem("session", s, code[s])
           verdicts == {judged(s) : s \in uniqueSessions}
           garbled == IF discovery' = "none" THEN {} ELSE {Problem("session", Nobody, discovery')}
           new == {Pass("executable", Nobody)} \cup verdicts \cup garbled
<1>1. Proceed(new, found, found, code)
  BY DEF Examine, Problem
<1>2. Nobody \notin uniqueSessions
  BY SessionsAreKnown, DoctorAssumption
<1>3. \A c \in checks : c.name = "configuration"
  BY PassSays DEF Inv, Begun, Before
<1>4. phase \in Before \cup Probing
  BY DEF Before
<1> HIDE DEF code
<1>5. \A s : judged(s).name = "session" /\ judged(s).about = s /\ judged(s).code = code[s]
  BY ProblemSays
<1>6. \A s \in uniqueSessions : code[s] = "ok" => judged(s) = Pass("session", s)
  BY DEF Problem, Pass
<1> HIDE DEF judged
<1>7. \A c \in verdicts : c.name = "session" /\ c.about \in uniqueSessions /\ c = judged(c.about)
  BY <1>5
<1>8. \A s \in uniqueSessions : judged(s) \in verdicts
  OBVIOUS
<1>9. \A c \in garbled : c.name = "session" /\ c.about = Nobody
  BY ProblemSays
<1> HIDE DEF verdicts, garbled
<1>10. \A c \in new : c.name # "target"
  BY <1>7, <1>9, PassSays
<1>11. \A s \in uniqueSessions : {c \in new : c.name = "session" /\ c.about = s} = {judged(s)}
  BY <1>2, <1>5, <1>7, <1>8, <1>9, PassSays
<1>12. \A c \in new : c.name \notin {"socket", "protocol"}
  BY <1>7, <1>9, PassSays
<1> HIDE DEF new
<1>13. /\ \A alias \in Targets : TargetCounted(alias)'
       /\ \A name, about : name # "target" =>
            /\ About(name, about)' = About(name, about) \cup {c \in new : c.name = name /\ c.about = about}
            /\ Pass(name, about) \in checks' <=> Pass(name, about) \in checks \cup new
       /\ todo' = found
       /\ phase' \in {"validate", "list", "done"} /\ (phase' # "validate" => found = {})
  BY <1>1, <1>4, <1>10, ProceedTells
<1>14. \A s : ~Probed(s)' /\ (Waiting(s)' <=> s \in found)
  BY <1>13 DEF Waiting, Probed, Calling
<1>15. ASSUME NEW s \in uniqueSessions PROVE SessionCounted(s)'
  <2>1. \A name : name # "configuration" => About(name, s) = {}
    BY <1>3 DEF About
  <2>2. About("session", s)' = {judged(s)}
    <3>1. About("session", s)' = About("session", s) \cup {c \in new : c.name = "session" /\ c.about = s}
      BY <1>13
    <3> QED BY <1>11, <2>1, <3>1
  <2>3. About("socket", s)' = {} /\ About("protocol", s)' = {}
    <3>1. /\ About("socket", s)' = About("socket", s) \cup {c \in new : c.name = "socket" /\ c.about = s}
          /\ About("protocol", s)' = About("protocol", s) \cup {c \in new : c.name = "protocol" /\ c.about = s}
      BY <1>13
    <3> QED BY <1>12, <2>1, <3>1
  <2>4. Pass("session", s) \in checks' <=> code[s] = "ok"
    <3>1. Pass("session", s) \in checks' => Pass("session", s) \in About("session", s)'
      BY PassSays DEF About
    <3>2. code[s] = "ok" => Pass("session", s) \in About("session", s)'
      BY <1>6, <2>2
    <3>3. Pass("session", s) \in About("session", s)' => Pass("session", s) \in checks'
      BY DEF About
    <3> QED BY <1>5, <2>2, <3>1, <3>2, <3>3, PassSays
  <2>5. Pass("socket", s) \notin checks'
    BY <2>3, PassSays DEF About
  <2>6. Single("session", s)' /\ None("socket", s)' /\ None("protocol", s)'
    BY <2>2, <2>3 DEF Single, None
  <2>7. s \in found <=> code[s] = "ok"
    OBVIOUS
  <2> QED BY <1>14, <2>4, <2>5, <2>6, <2>7 DEF SessionCounted, Follows
<1>16. found \subseteq uniqueSessions
  OBVIOUS
<1>17. Targets' = Targets /\ uniqueSessions' = uniqueSessions
  BY FrameKept
<1> HIDE DEF found
<1> QED BY <1>13, <1>15, <1>16, <1>17 DEF Counted, Calling, Before

LEMMA ValidateFailsCounted == ASSUME Inv, Counted, ValidateFails PROVE Counted'
<1>1. PICK s \in todo : Drop(s, "HERDR_UNAVAILABLE", todo \ {s})
  BY DEF ValidateFails
<1>2. /\ s \in uniqueSessions /\ Waiting(s) /\ phase \in Probing /\ phase \notin Calling /\ UNCHANGED config
  BY DEF Counted, Waiting, ValidateFails, Probing, Calling, world
<1> DEFINE x == Problem("socket", s, "HERDR_UNAVAILABLE")
<1>3. x.name = "socket" /\ x.about = s /\ x.code # "ok"
  BY ProblemSays
<1>4. Proceed({x}, todo \ {s}, endpoints \ {s}, [failure EXCEPT ![s] = "HERDR_UNAVAILABLE"])
  BY <1>1 DEF Drop
<1> HIDE DEF x
<1> QED BY <1>2, <1>3, <1>4, CheckEnds

(* A session is taken from the list: it still waits for its first check.   *)
LEMMA ValidateCounted == ASSUME Inv, Counted, Validate PROVE Counted'
<1>1. PICK s \in todo : current' = s /\ todo' = todo \ {s}
  BY DEF Validate
<1>2. phase = "validate" /\ phase' = "ping" /\ UNCHANGED <<config, left, checks>>
  BY DEF Validate, world
<1>3. \A t : (Waiting(t)' <=> Waiting(t)) /\ ~Probed(t) /\ ~Probed(t)'
  BY <1>1, <1>2 DEF Waiting, Probed, Calling
<1>4. \A name, about : About(name, about)' = About(name, about)
  BY <1>2 DEF About
<1>5. Listed
  BY <1>2 DEF Inv, Begun, Probing
<1>6. \A t \in uniqueSessions : SessionCounted(t)'
  BY <1>2, <1>3, <1>4, <1>5, Unmoved DEF Counted
<1>7. \A alias \in Targets : TargetCounted(alias)'
  BY <1>2, <1>4, <1>5 DEF Counted, TargetCounted, None
<1> QED BY <1>1, <1>2, <1>6, <1>7, FrameKept DEF Counted, Calling, Before

(* The socket answers: its protocol is next.                               *)
LEMMA PongCounted ==
  ASSUME Inv, Counted, phase = "ping", phase' = "ping again", Push({Pass("socket", current)}),
         UNCHANGED <<config, current, todo, left>>
  PROVE  Counted'
<1>1. PICK s \in uniqueSessions : s = current /\ s \notin todo
  BY DEF Counted, Calling
<1>2. PICK x : x = Pass("socket", s) /\ checks' = checks \cup {x} /\ x.name = "socket" /\ x.about = s
  <2>1. /\ checks' = checks \cup {Pass("socket", s)}
        /\ Pass("socket", s).name = "socket" /\ Pass("socket", s).about = s
    BY <1>1, PassSays DEF Push
  <2> QED BY <2>1
<1>3. \A t : (Waiting(t)' <=> t \in todo) /\ (Probed(t)' <=> t = s) /\ ~Probed(t) /\ (Waiting(t) <=> t \in todo \cup {s})
  BY <1>1 DEF Waiting, Probed, Calling
<1>4. Listed
  BY DEF Inv, Begun, Probing, Calling
<1>5. ASSUME NEW name, NEW about, ~(x.name = name /\ x.about = about)
      PROVE  About(name, about)' = About(name, about) /\ (Pass(name, about) \in checks' <=> Pass(name, about) \in checks)
  <2>1. Pass(name, about) # x
    <3>1. Pass(name, about).name = name /\ Pass(name, about).about = about
      BY PassSays
    <3> QED BY <1>5, <3>1
  <2>2. About(name, about)' = About(name, about)
    BY <1>2, <1>5 DEF About
  <2> QED BY <1>2, <2>1, <2>2
<1>6. ASSUME NEW t \in uniqueSessions, t # s PROVE SessionCounted(t)'
  <2>1. \A name \in {"session", "socket", "protocol"} :
          About(name, t)' = About(name, t) /\ (Pass(name, t) \in checks' <=> Pass(name, t) \in checks)
    BY <1>2, <1>5, <1>6
  <2> QED BY <1>3, <1>4, <1>6, <2>1, Unmoved DEF Counted
<1>7. SessionCounted(s)'
  <2>1. SessionCounted(s) /\ Waiting(s) /\ Probed(s)' /\ ~Waiting(s)'
    BY <1>1, <1>3, <1>4 DEF Counted
  <2>2. About("socket", s) = {} /\ About("protocol", s) = {} /\ Pass("session", s) \in checks
    BY <2>1 DEF SessionCounted, None
  <2>3. About("socket", s)' = {x}
    BY <1>2, <2>2 DEF About
  <2>4. Single("socket", s)' /\ None("protocol", s)' /\ Pass("socket", s) \in checks'
    BY <1>2, <1>5, <2>2, <2>3 DEF Single, None
  <2> QED BY <1>5, <2>1, <2>2, <2>4 DEF SessionCounted, Follows, Single
<1>8. \A alias \in Targets : TargetCounted(alias)'
  <2>1. \A alias : About("target", alias)' = About("target", alias)
    BY <1>2, <1>5
  <2> QED BY <1>4, <2>1 DEF Counted, TargetCounted, None
<1> QED BY <1>1, <1>6, <1>7, <1>8, FrameKept DEF Counted, Calling, Before

LEMMA PingCounted == ASSUME Inv, Counted, Ping PROVE Counted'
<1>1. PICK class \in Class :
        \/ /\ class = "pong"
           /\ Push({Pass("socket", current)})
           /\ phase' = "ping again"
           /\ UNCHANGED <<todo, left, endpoints, failure>>
        \/ /\ class # "pong"
           /\ Drop(current, mapHerdrError(class), todo)
  BY DEF Ping
<1>2. phase = "ping" /\ UNCHANGED <<config, current>>
  BY DEF Ping, world
<1>3. CASE class # "pong" /\ Drop(current, mapHerdrError(class), todo)
  <2>1. PICK s \in uniqueSessions : s = current /\ s \notin todo /\ Waiting(s)
    BY <1>2 DEF Counted, Calling, Waiting
  <2> DEFINE x == Problem("socket", s, mapHerdrError(class))
  <2>2. x.name = "socket" /\ x.about = s /\ x.code # "ok"
    BY ProblemSays DEF mapHerdrError
  <2>3. todo \ {s} = todo
    BY <2>1
  <2>4. Proceed({x}, todo \ {s}, endpoints \ {s}, [failure EXCEPT ![s] = mapHerdrError(class)])
    BY <1>3, <2>1, <2>3 DEF Drop
  <2>5. phase \in Probing
    BY <1>2 DEF Probing, Calling
  <2> HIDE DEF x
  <2> QED BY <1>2, <2>1, <2>2, <2>4, <2>5, CheckEnds
<1> QED BY <1>1, <1>2, <1>3, PongCounted

LEMMA ProbeCounted == ASSUME Inv, Counted, Probe PROVE Counted'
<1>1. PICK i \in DOMAIN ProbeStep, class \in Class :
        /\ phase = ProbeStep[i]
        /\ \/ /\ class \in Accepted
              /\ i < Len(ProbeStep)
              /\ phase' = ProbeStep[i + 1]
              /\ UNCHANGED <<todo, left, endpoints, failure, checks>>
           \/ /\ class \in Accepted
              /\ i = Len(ProbeStep)
              /\ Proceed({Pass("protocol", current)}, todo, endpoints, failure)
           \/ /\ class \notin Accepted
              /\ Proceed({Problem("protocol", current, probeCode(ProbeStep[i], class))},
                         todo, endpoints, failure)
  BY DEF Probe
<1>2. UNCHANGED <<config, current>>
  BY DEF Probe, world
<1>3. DOMAIN ProbeStep = 1..4 /\ Len(ProbeStep) = 4 /\ \A j \in 1..4 : ProbeStep[j] \in Calling \ {"ping"}
  BY DEF ProbeStep, Calling
<1>4. phase \in Calling \ {"ping"} /\ phase \in Probing
  BY <1>1, <1>3 DEF Probing
<1>5. PICK s \in uniqueSessions : s = current /\ s \notin todo /\ Probed(s)
  BY <1>4 DEF Counted, Probed
<1>6. ASSUME NEW x, x.name = "protocol", x.about = s, Proceed({x}, todo, endpoints, failure) PROVE Counted'
  <2>1. todo \ {s} = todo
    BY <1>5
  <2>2. Proceed({x}, todo \ {s}, endpoints, failure)
    BY <1>6, <2>1
  <2> QED BY <1>2, <1>4, <1>5, <1>6, <2>2, CheckEnds
<1>7. CASE i < Len(ProbeStep) /\ phase' = ProbeStep[i + 1] /\ UNCHANGED <<todo, left, checks>>
  <2>1. phase' \in Calling \ {"ping"}
    <3>1. i + 1 \in 1..4
      BY <1>3, <1>7
    <3> QED BY <1>3, <1>7, <3>1
  <2>2. \A t : (Waiting(t)' <=> Waiting(t)) /\ (Probed(t)' <=> Probed(t))
    BY <1>2, <1>4, <1>7, <2>1 DEF Waiting, Probed
  <2>3. \A name, about : About(name, about)' = About(name, about)
    BY <1>7 DEF About
  <2>4. Listed
    BY <1>4 DEF Inv, Begun
  <2>5. \A t \in uniqueSessions : SessionCounted(t)'
    BY <1>7, <2>2, <2>3, <2>4, Unmoved DEF Counted
  <2>6. \A alias \in Targets : TargetCounted(alias)'
    BY <1>4, <1>7, <2>1, <2>3, <2>4 DEF Counted, TargetCounted, None, Calling
  <2> QED BY <1>2, <1>4, <1>7, <2>1, <2>5, <2>6, FrameKept DEF Counted, Calling, Before
<1>8. CASE Proceed({Pass("protocol", current)}, todo, endpoints, failure)
  <2>1. Pass("protocol", s).name = "protocol" /\ Pass("protocol", s).about = s
    BY PassSays
  <2> QED BY <1>5, <1>6, <1>8, <2>1
<1>9. CASE Proceed({Problem("protocol", current, probeCode(ProbeStep[i], class))}, todo, endpoints, failure)
  <2> DEFINE x == Problem("protocol", s, probeCode(ProbeStep[i], class))
  <2>1. x.name = "protocol" /\ x.about = s /\ Proceed({x}, todo, endpoints, failure)
    BY <1>5, <1>9, ProblemSays
  <2> HIDE DEF x
  <2> QED BY <1>6, <2>1
<1> QED BY <1>1, <1>7, <1>8, <1>9

(* A target is taken from the list with its one verdict.                   *)
LEMMA ResolveCounted == ASSUME Inv, Counted, Resolve PROVE Counted'
<1>1. PICK alias \in left, class \in Class :
        /\ Push({[name |-> "target", about |-> alias, code |-> verdict(alias, class)]})
        /\ left' = left \ {alias}
        /\ phase' = IF left' = {} THEN "done" ELSE "list"
  BY DEF Resolve
<1>2. phase = "list" /\ phase' \in {"list", "done"} /\ UNCHANGED <<config, current, todo>>
  BY <1>1 DEF Resolve, world
<1>3. PICK x : checks' = checks \cup {x} /\ x.name = "target" /\ x.about = alias
  <2>1. checks' = checks \cup {Problem("target", alias, verdict(alias, class))}
    BY <1>1 DEF Push, Problem
  <2> QED BY <2>1, ProblemSays
<1>4. Listed
  BY <1>2 DEF Inv, Begun
<1>5. \A name, about : ~(name = "target" /\ about = alias) => About(name, about)' = About(name, about)
  BY <1>3 DEF About
<1>6. \A name, about : name # "target" => (Pass(name, about) \in checks' <=> Pass(name, about) \in checks)
  BY <1>3, PassSays
<1>7. \A t : (Waiting(t)' <=> Waiting(t)) /\ (Probed(t)' <=> Probed(t))
  BY <1>2 DEF Waiting, Probed, Calling
<1>8. \A t \in uniqueSessions : SessionCounted(t)'
  BY <1>4, <1>5, <1>6, <1>7, Unmoved DEF Counted
<1>9. ASSUME NEW a \in Targets PROVE TargetCounted(a)'
  <2>1. TargetCounted(a)
    BY <1>4 DEF Counted
  <2>2. CASE a = alias
    <3>1. About("target", alias)' = {x}
      BY <1>2, <1>3, <2>1, <2>2 DEF TargetCounted, None, About
    <3> QED BY <1>1, <2>2, <3>1 DEF TargetCounted, Single
  <2>3. CASE a # alias
    BY <1>1, <1>2, <1>5, <2>1, <2>3 DEF TargetCounted, Single, None
  <2> QED BY <2>2, <2>3
<1> QED BY <1>2, <1>8, <1>9, FrameKept DEF Counted, Calling, Before

LEMMA RestCounted ==
  ASSUME Counted, UNCHANGED <<config, phase, current, todo, left, checks>>
  PROVE  Counted'
<1>1. \A name, about : About(name, about)' = About(name, about)
  BY DEF About
<1>2. \A t : (Waiting(t)' <=> Waiting(t)) /\ (Probed(t)' <=> Probed(t))
  BY DEF Waiting, Probed
<1>3. \A t : SessionCounted(t) => SessionCounted(t)'
  BY <1>1, <1>2, Unmoved
<1>4. \A alias : TargetCounted(alias) => TargetCounted(alias)'
  BY <1>1 DEF TargetCounted, Single, None
<1> QED BY <1>3, <1>4, FrameKept DEF Counted, Listed

LEMMA CountedInit == Init => Counted
BY DEF Init, Counted, Listed, Calling, Before

LEMMA CountedNext == Inv /\ Counted /\ [Next]_vars => Counted'
<1> SUFFICES ASSUME Inv, Counted, [Next]_vars PROVE Counted'
  OBVIOUS
<1>1. CASE LoadFails
  <2>1. PICK code \in {"CONFIG_NOT_FOUND", "CONFIG_INVALID"} :
          checks' = checks \cup {Problem("configuration", Nobody, code)}
    BY <1>1 DEF LoadFails, Push
  <2>2. Problem("configuration", Nobody, code).name = "configuration"
    BY ProblemSays
  <2> QED BY <1>1, <2>1, <2>2, FailureCounted DEF LoadFails, Before, world
<1>2. CASE Load
  <2>1. checks' = checks \cup {Pass("configuration", Nobody)}
    BY <1>2 DEF Load, Push
  <2>2. Pass("configuration", Nobody).name = "configuration"
    BY PassSays
  <2> QED BY <1>2, <2>1, <2>2, FailureCounted DEF Load, Before, world
<1>3. CASE DiscoverFails
  <2>1. PICK code \in {"HERDR_NOT_FOUND", "HERDR_UNAVAILABLE"} :
          checks' = checks \cup {Problem("executable", Nobody, code)}
    BY <1>3 DEF DiscoverFails, Push
  <2>2. Problem("executable", Nobody, code).code # "ok"
    BY ProblemSays
  <2> QED BY <1>3, <2>1, <2>2, FailureCounted DEF DiscoverFails, Before, world
<1>4. CASE Discover
  BY <1>4, ExamineCounted DEF Discover, world, Inv, Begun, Before
<1>5. CASE DiscoverGarbled
  BY <1>5, ExamineCounted DEF DiscoverGarbled, world
<1>6. CASE WorldChange
  BY <1>6, RestCounted DEF WorldChange
<1>7. CASE UNCHANGED vars
  BY <1>7, RestCounted DEF vars, world
<1> QED BY <1>1, <1>2, <1>3, <1>4, <1>5, <1>6, <1>7, ValidateFailsCounted, ValidateCounted, PingCounted,
           ProbeCounted, ResolveCounted DEF Next, doctorStep

(* Nothing is passed over: a report that got as far as the sessions has    *)
(* exactly one verdict on each session and target, one on each socket it   *)
(* found and one on the protocol of each socket that answered, although    *)
(* the loops of doctorOperation delete from the map they walk.             *)
THEOREM NothingIsSkippedAlways == Spec => []NothingIsSkipped
<1>1. Inv /\ Counted => NothingIsSkipped
  <2> SUFFICES ASSUME Inv, Counted, Done, Listed PROVE NothingIsSkipped
    BY DEF NothingIsSkipped
  <2>1. phase = "done" /\ left = {} /\ todo = {}
    BY DEF Done, Inv, Types, Counted
  <2>2. \A s : ~Waiting(s) /\ ~Probed(s)
    BY <2>1 DEF Waiting, Probed, Calling
  <2>3. \A name, about : Single(name, about) => Cardinality(About(name, about)) = 1
    BY FS_Singleton DEF Single
  <2>4. \A name, about : None(name, about) => Cardinality(About(name, about)) # 1
    BY FS_EmptySet DEF None
  <2>5. \A s \in uniqueSessions :
          /\ Cardinality(About("session", s)) = 1
          /\ Pass("session", s) \in checks <=> Cardinality(About("socket", s)) = 1
          /\ Pass("socket", s) \in checks <=> Cardinality(About("protocol", s)) = 1
    BY <2>2, <2>3, <2>4 DEF Counted, SessionCounted, Follows
  <2>6. \A alias \in Targets : Cardinality(About("target", alias)) = 1
    BY <2>1, <2>3 DEF Counted, TargetCounted
  <2> QED BY <2>5, <2>6 DEF NothingIsSkipped
<1>2. Spec => []Counted
  BY CountedInit, CountedNext, ReportsAreFounded, PTL DEF Spec
<1> QED BY <1>1, <1>2, ReportsAreFounded, PTL

-----------------------------------------------------------------------------
(* A run in which nothing changes and no call fails by itself.             *)
Quiet == changes = 0 /\ upsets = 0

Running == {s \in uniqueSessions : session[s] = "running"}

(* What a check is about holds of the world as it is.                      *)
Holds(c) ==
  /\ c.name = "session" => session[c.about] = "running"
  /\ c.name = "protocol" => server[c.about] = "current"
  /\ c.name = "target" => Reachable(c.about, Snapshot)

Honest(c) ==
  /\ c = Problem(c.name, c.about, c.code)
  /\ c.name \in {"session", "socket", "protocol"} => c.about \in uniqueSessions
  /\ c.name = "target" => c.about \in Targets
  /\ c.code = "ok" <=> Holds(c)

(* A quiet run has only honest checks, and it has the endpoints of exactly *)
(* the sessions that run; past its ping a probe has seen the version.      *)
StillWorld ==
  /\ changes \in Nat /\ upsets \in Nat
  /\ session \in [Session -> SessionState] /\ server \in [Session -> ServerState]

VersionSeen == {"list again", "probe prompt", "probe read"}

StillReport ==
  /\ discovery = "none"
  /\ \A c \in checks : Honest(c)
  /\ phase = "done" => Listed
  /\ phase \notin Before => endpoints = Running
  /\ todo \subseteq Running
  /\ phase \in Calling => current \in Running
  /\ phase \in VersionSeen => server[current] # "old"

Still == StillWorld /\ (Quiet => StillReport)

LEMMA WorldStands ==
  ASSUME UNCHANGED world
  PROVE  /\ Targets' = Targets /\ uniqueSessions' = uniqueSessions /\ Running' = Running
         /\ \A c : Honest(c) => Honest(c)'
<1>1. /\ config' = config /\ session' = session /\ server' = server /\ agents' = agents
      /\ Snapshot' = Snapshot
  BY DEF world, Snapshot
<1>2. /\ Targets' = Targets /\ uniqueSessions' = uniqueSessions
      /\ \A alias : Reachable(alias, Snapshot)' <=> Reachable(alias, Snapshot)
  BY <1>1, FrameKept
<1>3. Running' = Running
  BY <1>1, <1>2 DEF Running
<1>4. \A c : Holds(c)' <=> Holds(c)
  BY <1>1, <1>2 DEF Holds
<1> QED BY <1>2, <1>3, <1>4 DEF Honest

(* A target that runs nowhere is not reachable, and says so.               *)
LEMMA LostIsHonest ==
  ASSUME NEW alias \in Targets, SessionOf(alias) \notin Running, NEW code, code # "ok"
  PROVE  Honest(Problem("target", alias, code))
<1>1. session[SessionOf(alias)] # "running"
  BY DEF Running, uniqueSessions
<1>2. ~ Reachable(alias, Snapshot)
  BY <1>1 DEF Reachable, Snapshot
<1> DEFINE c == Problem("target", alias, code)
<1>3. c.name = "target" /\ c.about = alias /\ c.code = code
  BY ProblemSays
<1>4. c = Problem(c.name, c.about, c.code)
  BY <1>3
<1> HIDE DEF c
<1> QED BY <1>2, <1>3, <1>4 DEF Honest, Holds

LEMMA ProceedStill ==
  ASSUME Inv, StillReport, NEW new, NEW remaining, NEW why,
         Proceed(new, remaining, Running, why), UNCHANGED <<world, discovery>>,
         \A c \in new : Honest(c), remaining \subseteq Running,
         \A s \in uniqueSessions \ Running : why[s] # "ok",
         \E c \in checks \cup new : c.name = "executable" /\ c.code = "ok"
  PROVE  StillReport'
<1> DEFINE lost == {alias \in Targets : SessionOf(alias) \notin Running}
           reason(alias) == IF discovery' # "none" THEN discovery' ELSE why[SessionOf(alias)]
           told == {Problem("target", alias, reason(alias)) : alias \in lost}
<1>1. /\ todo' = remaining /\ endpoints' = Running
      /\ phase' \in {"validate", "list", "done"}
      /\ \/ checks' = checks \cup new
         \/ checks' = checks \cup (new \cup told)
  BY DEF Proceed, Push
<1>2. discovery' = "none" /\ discovery = "none"
  BY DEF StillReport
<1>3. \A c \in told : Honest(c)
  <2> SUFFICES ASSUME NEW alias \in lost PROVE Honest(Problem("target", alias, reason(alias)))
    OBVIOUS
  <2>1. reason(alias) # "ok"
    <3>1. SessionOf(alias) \in uniqueSessions \ Running
      BY DEF uniqueSessions
    <3> QED BY <1>2, <3>1
  <2> HIDE DEF reason
  <2> QED BY <2>1, LostIsHonest
<1> HIDE DEF told
<1>4. \A c \in checks' : Honest(c)
  BY <1>1, <1>3 DEF StillReport
<1>5. \A c \in checks' : Honest(c)'
  BY <1>4, WorldStands
<1>6. Listed'
  BY <1>1 DEF Listed
<1>7. Running' = Running
  BY WorldStands
<1>8. phase' \notin Calling /\ phase' \notin VersionSeen
  <2>1. phase' \in {"validate", "list", "done"}
    BY <1>1
  <2> QED BY <2>1 DEF Calling, VersionSeen
<1> QED BY <1>1, <1>2, <1>5, <1>6, <1>7, <1>8 DEF StillReport

-----------------------------------------------------------------------------
(* The steps of a quiet run.                                               *)
LEMMA HonestPass ==
  ASSUME NEW name \in {"configuration", "executable", "socket"}, NEW about,
         name = "socket" => about \in uniqueSessions
  PROVE  Honest(Pass(name, about))
<1>1. PICK c : c = Pass(name, about)
  OBVIOUS
<1>2. c.name = name /\ c.about = about /\ c.code = "ok"
  BY <1>1, PassSays
<1>3. c = Problem(c.name, c.about, c.code)
  BY <1>1, <1>2 DEF Pass, Problem
<1>4. Honest(c)
  BY <1>2, <1>3 DEF Honest, Holds
<1> QED BY <1>1, <1>4

LEMMA HonestProtocol ==
  ASSUME NEW s \in uniqueSessions, NEW code, code = "ok" <=> server[s] = "current"
  PROVE  Honest(Problem("protocol", s, code))
<1> DEFINE c == Problem("protocol", s, code)
<1>1. c.name = "protocol" /\ c.about = s /\ c.code = code
  BY ProblemSays
<1>2. c = Problem(c.name, c.about, c.code)
  BY <1>1
<1> HIDE DEF c
<1> QED BY <1>1, <1>2 DEF Honest, Holds

LEMMA HonestTarget ==
  ASSUME NEW alias \in Targets, NEW code, code = "ok" <=> Reachable(alias, Snapshot)
  PROVE  Honest(Problem("target", alias, code))
<1> DEFINE c == Problem("target", alias, code)
<1>1. c.name = "target" /\ c.about = alias /\ c.code = code
  BY ProblemSays
<1>2. c = Problem(c.name, c.about, c.code)
  BY <1>1
<1> HIDE DEF c
<1> QED BY <1>1, <1>2 DEF Honest, Holds

LEMMA HonestSession ==
  ASSUME NEW s \in uniqueSessions, NEW code, code = "ok" <=> session[s] = "running"
  PROVE  Honest(Problem("session", s, code))
<1> DEFINE c == Problem("session", s, code)
<1>1. c.name = "session" /\ c.about = s /\ c.code = code
  BY ProblemSays
<1>2. c = Problem(c.name, c.about, c.code)
  BY <1>1
<1> HIDE DEF c
<1> QED BY <1>1, <1>2 DEF Honest, Holds

LEMMA LoadStill == ASSUME StillReport, Load PROVE StillReport'
<1>1. /\ phase = "config" /\ phase' = "discover" /\ checks' = checks \cup {Pass("configuration", Nobody)}
      /\ UNCHANGED <<world, todo, discovery>>
  BY DEF Load, Push
<1>2. \A c \in checks' : Honest(c)'
  <2>1. Honest(Pass("configuration", Nobody))
    BY HonestPass
  <2>2. \A c \in checks' : Honest(c)
    BY <1>1, <2>1 DEF StillReport
  <2> QED BY <1>1, <2>2, WorldStands
<1>3. phase' \in Before /\ phase' # "done" /\ phase' \notin Calling /\ phase' \notin VersionSeen
  <2>1. phase' = "discover"
    BY <1>1
  <2> QED BY <2>1 DEF Before, Calling, VersionSeen
<1> QED BY <1>1, <1>2, <1>3, WorldStands DEF StillReport

LEMMA DiscoverStill == ASSUME Inv, StillWorld, StillReport, Discover PROVE StillReport'
<1> DEFINE code == [s \in Session |-> getSessionFromDiscovery(session[s])]
           found == {s \in uniqueSessions : code[s] = "ok"}
           judged(s) == Problem("session", s, code[s])
           new == {Pass("executable", Nobody)} \cup {judged(s) : s \in uniqueSessions}
<1>1. discovery' = "none" /\ UNCHANGED <<world, discovery>>
  BY DEF Discover, StillReport
<1>2. Proceed(new, found, found, code)
  <2>1. Proceed(new \cup {}, found, found, code)
    BY <1>1 DEF Discover, Examine, Problem
  <2>2. new \cup {} = new
    OBVIOUS
  <2> HIDE DEF new
  <2> QED BY <2>1, <2>2
<1>3. \A s \in uniqueSessions : code[s] = "ok" <=> session[s] = "running"
  BY SessionsAreKnown DEF getSessionFromDiscovery, StillWorld, SessionState
<1>4. found = Running
  BY <1>3 DEF Running
<1>5. Proceed(new, Running, Running, code)
  BY <1>2, <1>4
<1>6. \A c \in new : Honest(c)
  <2>1. Honest(Pass("executable", Nobody))
    BY HonestPass
  <2>2. \A s \in uniqueSessions : Honest(judged(s))
    BY <1>3, HonestSession
  <2> HIDE DEF judged
  <2> QED BY <2>1, <2>2
<1>7. \A s \in uniqueSessions \ Running : code[s] # "ok"
  BY <1>3 DEF Running
<1>8. \E c \in checks \cup new : c.name = "executable" /\ c.code = "ok"
  <2>1. Pass("executable", Nobody) \in checks \cup new
    OBVIOUS
  <2> HIDE DEF new
  <2> QED BY <2>1, PassSays
<1> HIDE DEF new, code
<1> QED BY <1>1, <1>5, <1>6, <1>7, <1>8, ProceedStill

LEMMA QuietEnds ==
  ASSUME StillWorld, UNCHANGED upsets, NEW s \in Running, NEW class, NEW natural, Ends(s, class, natural)
  PROVE  class = natural
BY DEF StillWorld, Running, Ends, Upset

LEMMA ValidateStill == ASSUME StillReport, Validate PROVE StillReport'
<1>1. PICK s \in todo : current' = s /\ todo' = todo \ {s}
  BY DEF Validate
<1>2. phase = "validate" /\ phase' = "ping" /\ UNCHANGED <<world, endpoints, discovery, checks>>
  BY DEF Validate
<1>3. /\ phase \notin Before /\ phase' # "done" /\ phase' \in Calling /\ phase' \notin VersionSeen
  <2>1. phase = "validate" /\ phase' = "ping"
    BY <1>2
  <2> QED BY <2>1 DEF Before, Calling, VersionSeen
<1> QED BY <1>1, <1>2, <1>3, WorldStands DEF StillReport

(* A running session always has a socket that answers.                     *)
LEMMA PingStill == ASSUME Inv, Counted, StillWorld, StillReport, UNCHANGED upsets, Ping PROVE StillReport'
<1>1. phase = "ping" /\ phase \in Calling /\ phase \notin Before
  <2>1. phase = "ping"
    BY DEF Ping
  <2> QED BY <2>1 DEF Calling, Before
<1>2. PICK s : s = current /\ s \in Running /\ s \in uniqueSessions
  BY <1>1 DEF StillReport, Running
<1>3. PICK class \in Class :
        /\ Ends(current, class, "pong")
        /\ \/ class = "pong" /\ Push({Pass("socket", current)}) /\ phase' = "ping again"
              /\ UNCHANGED <<todo, left, endpoints, failure>>
           \/ class # "pong"
  BY DEF Ping
<1>4. class = "pong"
  BY <1>2, <1>3, QuietEnds
<1>5. /\ checks' = checks \cup {Pass("socket", s)} /\ UNCHANGED <<world, current, todo, endpoints, discovery>>
  BY <1>2, <1>3, <1>4 DEF Push, Ping
<1>6. \A c \in checks' : Honest(c)'
  <2>1. Honest(Pass("socket", s))
    BY <1>2, HonestPass
  <2>2. \A c \in checks' : Honest(c)
    BY <1>5, <2>1 DEF StillReport
  <2> QED BY <1>5, <2>2, WorldStands
<1>7. phase' # "done" /\ phase' \notin VersionSeen
  <2>1. phase' = "ping again"
    BY <1>3, <1>4
  <2> QED BY <2>1 DEF VersionSeen
<1> QED BY <1>1, <1>2, <1>5, <1>6, <1>7, WorldStands DEF StillReport

(* The calls of the probe, on each kind of server.                         *)
LEMMA ProbeSteps ==
  /\ DOMAIN ProbeStep = 1..4 /\ Len(ProbeStep) = 4
  /\ \A i \in 1..4 : ProbeStep[i] \in Calling /\ (ProbeStep[i] \in VersionSeen <=> i # 1)
<1>1. DOMAIN ProbeStep = 1..4 /\ Len(ProbeStep) = 4
  BY DEF ProbeStep
<1>2. /\ ProbeStep[1] = "ping again" /\ ProbeStep[2] = "list again"
      /\ ProbeStep[3] = "probe prompt" /\ ProbeStep[4] = "probe read"
  BY DEF ProbeStep
<1>3. /\ ProbeStep[1] \in Calling /\ ProbeStep[2] \in Calling
      /\ ProbeStep[3] \in Calling /\ ProbeStep[4] \in Calling
  BY <1>2 DEF Calling
<1>4. /\ ProbeStep[1] \notin VersionSeen /\ ProbeStep[2] \in VersionSeen
      /\ ProbeStep[3] \in VersionSeen /\ ProbeStep[4] \in VersionSeen
  BY <1>2 DEF VersionSeen
<1>5. \A i \in 1..4 : i = 1 \/ i = 2 \/ i = 3 \/ i = 4
  OBVIOUS
<1> QED BY <1>1, <1>3, <1>4, <1>5

LEMMA NaturalEnds ==
  ASSUME NEW state \in ServerState
  PROVE  /\ Natural(ProbeStep[1], state) \in Accepted <=> state # "old"
         /\ Natural(ProbeStep[2], state) \in Accepted
         /\ Natural(ProbeStep[3], state) \in Accepted
         /\ Natural(ProbeStep[4], state) \in Accepted <=> state # "lacking"
<1>1. /\ ProbeStep[1] = "ping again" /\ ProbeStep[2] = "list again"
      /\ ProbeStep[3] = "probe prompt" /\ ProbeStep[4] = "probe read"
  BY DEF ProbeStep
<1>2. Natural("ping again", state) = IF state = "old" THEN "old" ELSE "pong"
  BY DEF Natural
<1>3. Natural("list again", state) = "agents" /\ Natural("probe prompt", state) = "not_found"
  BY DEF Natural
<1>4. Natural("probe read", state) = IF state = "lacking" THEN "missing" ELSE "not_found"
  BY DEF Natural
<1> QED BY <1>1, <1>2, <1>3, <1>4 DEF Accepted

(* A probe that ends has found out what the server is.                     *)
LEMMA ProbeStill == ASSUME Inv, Counted, StillWorld, StillReport, UNCHANGED upsets, Probe PROVE StillReport'
<1>1. PICK i \in 1..4, class \in Class :
        /\ phase = ProbeStep[i]
        /\ Ends(current, class, Natural(ProbeStep[i], server[current]))
        /\ \/ /\ class \in Accepted
              /\ i < 4
              /\ phase' = ProbeStep[i + 1]
              /\ UNCHANGED <<todo, left, endpoints, failure, checks>>
           \/ /\ class \in Accepted
              /\ i = 4
              /\ Proceed({Pass("protocol", current)}, todo, endpoints, failure)
           \/ /\ class \notin Accepted
              /\ Proceed({Problem("protocol", current, probeCode(ProbeStep[i], class))},
                         todo, endpoints, failure)
  <2>1. DOMAIN ProbeStep = 1..4 /\ Len(ProbeStep) = 4
    BY ProbeSteps
  <2> QED BY <2>1 DEF Probe
<1>2. UNCHANGED <<world, current, discovery>>
  BY DEF Probe
<1>3. phase \in Calling /\ (i # 1 => phase \in VersionSeen)
  BY <1>1, ProbeSteps
<1>4. phase \notin Before
  BY <1>3 DEF Calling, Before
<1>5. PICK s : s = current /\ s \in Running /\ s \in uniqueSessions /\ server[s] \in ServerState
  BY <1>3, SessionsAreKnown DEF StillReport, StillWorld, Running
<1>6. class = Natural(ProbeStep[i], server[s])
  BY <1>1, <1>5, QuietEnds
<1>7. i # 1 => server[s] # "old"
  BY <1>3, <1>5 DEF StillReport
<1>8. /\ i = 1 => (class \in Accepted <=> server[s] # "old")
      /\ i = 2 \/ i = 3 => class \in Accepted
      /\ i = 4 => (class \in Accepted <=> server[s] # "lacking")
  BY <1>5, <1>6, NaturalEnds
<1>9. CASE class \in Accepted /\ i < 4 /\ phase' = ProbeStep[i + 1] /\ UNCHANGED <<todo, endpoints, checks>>
  <2>1. i + 1 \in 1..4 /\ i + 1 # 1
    BY <1>9
  <2>2. phase' \in Calling /\ phase' \in VersionSeen
    BY <1>9, <2>1, ProbeSteps
  <2>3. phase' # "done"
    BY <2>2 DEF Calling
  <2>4. server[s] # "old"
    BY <1>7, <1>8, <1>9
  <2>5. UNCHANGED server
    BY <1>2 DEF world
  <2>6. \A c \in checks' : Honest(c)'
    BY <1>2, <1>9, WorldStands DEF StillReport
  <2> QED BY <1>2, <1>4, <1>5, <1>9, <2>2, <2>3, <2>4, <2>5, <2>6, WorldStands DEF StillReport
<1>10. ASSUME NEW code, code = "ok" <=> server[s] = "current",
              Proceed({Problem("protocol", s, code)}, todo, endpoints, failure)
       PROVE  StillReport'
  <2>1. PICK x : x = Problem("protocol", s, code) /\ Honest(x)
    BY <1>5, <1>10, HonestProtocol
  <2>2. Listed /\ endpoints = Running /\ todo \subseteq Running
    BY <1>3, <1>4 DEF Inv, Begun, StillReport, Probing
  <2>3. \A t \in uniqueSessions \ Running : failure[t] # "ok"
    BY <2>2 DEF Inv, Explained, Cause
  <2>4. \E c \in checks \cup {x} : c.name = "executable" /\ c.code = "ok"
    BY <2>2 DEF Listed
  <2>5. Proceed({x}, todo, Running, failure)
    BY <1>10, <2>1, <2>2
  <2>6. \A c \in {x} : Honest(c)
    BY <2>1
  <2> QED BY <1>2, <2>2, <2>3, <2>4, <2>5, <2>6, ProceedStill
<1>11. CASE class \in Accepted /\ i = 4 /\ Proceed({Pass("protocol", current)}, todo, endpoints, failure)
  <2>1. server[s] = "current"
    BY <1>5, <1>7, <1>8, <1>11 DEF ServerState
  <2>2. Pass("protocol", current) = Problem("protocol", s, "ok")
    BY <1>5 DEF Pass, Problem
  <2> QED BY <1>10, <1>11, <2>1, <2>2
<1>12. CASE /\ class \notin Accepted
            /\ Proceed({Problem("protocol", current, probeCode(ProbeStep[i], class))}, todo, endpoints, failure)
  <2>1. server[s] # "current"
    BY <1>8, <1>12
  <2>2. probeCode(ProbeStep[i], class) # "ok"
    BY DEF probeCode, mapHerdrError
  <2> QED BY <1>5, <1>10, <1>12, <2>1, <2>2
<1> QED BY <1>1, <1>9, <1>11, <1>12

(* A target is looked for in the list as it is.                            *)
LEMMA ResolveStill == ASSUME Inv, StillWorld, StillReport, UNCHANGED upsets, Resolve PROVE StillReport'
<1>1. PICK alias \in left, class \in Class :
        /\ Ends(SessionOf(alias), class, "agents")
        /\ Push({[name |-> "target", about |-> alias, code |-> verdict(alias, class)]})
        /\ left' = left \ {alias}
        /\ phase' = IF left' = {} THEN "done" ELSE "list"
  BY DEF Resolve
<1>2. phase = "list" /\ phase' \in {"list", "done"} /\ UNCHANGED <<world, current, todo, endpoints, discovery>>
  BY <1>1 DEF Resolve
<1>3. phase \notin Before /\ phase' \notin Before /\ phase' \notin Calling /\ phase' \notin VersionSeen
  <2>1. phase = "list" /\ phase' \in {"list", "done"}
    BY <1>2
  <2> QED BY <2>1 DEF Before, Calling, VersionSeen
<1>4. alias \in Targets /\ SessionOf(alias) \in Running
  BY <1>3 DEF Inv, Settled, StillReport
<1>5. class = "agents" /\ session[SessionOf(alias)] = "running"
  BY <1>1, <1>4, QuietEnds DEF Running
<1>6. verdict(alias, class) = "ok" <=> Reachable(alias, Snapshot)
  <2> DEFINE found == resolveTarget(config[alias], agents[SessionOf(alias)])
  <2>1. ~ found.ok => found.code # "ok"
    BY DEF resolveTarget, Resolved, Unresolved
  <2>2. verdict(alias, class) = IF found.ok THEN "ok" ELSE found.code
    BY <1>5 DEF verdict
  <2>3. Reachable(alias, Snapshot) <=> found.ok
    BY <1>5 DEF Reachable, Snapshot
  <2> HIDE DEF found
  <2> QED BY <2>1, <2>2, <2>3
<1>7. PICK c : checks' = checks \cup {c} /\ Honest(c)
  <2>1. checks' = checks \cup {Problem("target", alias, verdict(alias, class))}
    BY <1>1 DEF Push, Problem
  <2> QED BY <1>4, <1>6, <2>1, HonestTarget
<1>8. \A d \in checks' : Honest(d)'
  <2>1. \A d \in checks' : Honest(d)
    BY <1>7 DEF StillReport
  <2> QED BY <1>2, <2>1, WorldStands
<1>9. Listed'
  BY <1>2, <1>7 DEF Inv, Begun, Listed
<1> QED BY <1>2, <1>3, <1>8, <1>9, WorldStands DEF StillReport

LEMMA StutterStill == ASSUME StillReport, UNCHANGED vars PROVE StillReport'
<1>1. UNCHANGED <<world, phase, current, todo, endpoints, discovery, checks>>
  BY DEF vars
<1>2. UNCHANGED server
  BY <1>1 DEF world
<1>3. \A c \in checks' : Honest(c)'
  BY <1>1, WorldStands DEF StillReport
<1> QED BY <1>1, <1>2, <1>3, WorldStands DEF StillReport, Listed

(* What has once changed or failed stays counted.                          *)
LEMMA DisturbancesCount ==
  ASSUME StillWorld, [Next]_vars
  PROVE  StillWorld' /\ (Quiet' => Quiet /\ UNCHANGED <<changes, upsets>>)
<1>1. CASE WorldChange
  BY <1>1 DEF WorldChange, StillWorld, Quiet
<1>2. CASE UNCHANGED world /\ (UNCHANGED upsets \/ upsets' = upsets + 1)
  BY <1>2 DEF world, StillWorld, Quiet
<1>3. CASE UNCHANGED vars
  BY <1>2, <1>3 DEF vars
<1>4. CASE doctorStep
  <2>1. UNCHANGED world
    BY <1>4 DEF doctorStep, LoadFails, Load, DiscoverFails, Discover, DiscoverGarbled,
                ValidateFails, Validate, Ping, Probe, Resolve
  <2>2. \A s, class, natural : Ends(s, class, natural) => UNCHANGED upsets \/ upsets' = upsets + 1
    BY DEF Ends, Upset
  <2>3. UNCHANGED upsets \/ upsets' = upsets + 1
    <3>1. CASE Ping
      BY <2>2, <3>1 DEF Ping
    <3>2. CASE Probe
      BY <2>2, <3>2 DEF Probe
    <3>3. CASE Resolve
      BY <2>2, <3>3 DEF Resolve
    <3>4. CASE LoadFails \/ Load \/ DiscoverFails \/ Discover \/ DiscoverGarbled \/ ValidateFails \/ Validate
      BY <3>4 DEF LoadFails, Load, DiscoverFails, Discover, DiscoverGarbled, ValidateFails, Validate, Upset
    <3> QED BY <1>4, <3>1, <3>2, <3>3, <3>4 DEF doctorStep
  <2> QED BY <1>2, <2>1, <2>3
<1> QED BY <1>1, <1>3, <1>4 DEF Next

LEMMA StillInit == Init => Still
<1> SUFFICES ASSUME Init PROVE Still
  OBVIOUS
<1>1. phase = "config"
  BY DEF Init
<1>2. phase \in Before /\ phase \notin Calling /\ phase \notin VersionSeen /\ phase # "done"
  BY <1>1 DEF Before, Calling, VersionSeen
<1>3. StillWorld
  BY DEF Init, StillWorld
<1>4. StillReport
  BY <1>2 DEF Init, StillReport
<1> QED BY <1>3, <1>4 DEF Still

LEMMA StillNext == Inv /\ Counted /\ Still /\ [Next]_vars => Still'
<1> SUFFICES ASSUME Inv, Counted, Still, [Next]_vars PROVE StillWorld' /\ (Quiet' => StillReport')
  BY DEF Still
<1>1. StillWorld'
  BY DisturbancesCount DEF Still
<1>2. ASSUME Quiet' PROVE StillReport'
  <2>1. StillWorld /\ StillReport /\ UNCHANGED <<changes, upsets>>
    BY <1>2, DisturbancesCount DEF Still
  <2>2. changes \in Nat /\ upsets \in Nat
    BY <2>1 DEF StillWorld
  <2>3. ~ WorldChange /\ ~ LoadFails /\ ~ DiscoverFails /\ ~ DiscoverGarbled
    BY <2>1, <2>2 DEF WorldChange, LoadFails, DiscoverFails, DiscoverGarbled
  <2>4. ~ ValidateFails
    <3>1. \A s \in todo : session[s] = "running"
      BY <2>1 DEF StillReport, Running
    <3>2. ~ Upset("transport", {"transport"})
      BY <2>1, <2>2 DEF Upset
    <3> QED BY <3>1, <3>2 DEF ValidateFails
  <2> QED BY <2>1, <2>3, <2>4, LoadStill, DiscoverStill, ValidateStill, PingStill, ProbeStill, ResolveStill,
             StutterStill DEF Next, doctorStep
<1> QED BY <1>1, <1>2

(* When nothing changes and no call fails by itself, doctor's report is    *)
(* right in both directions: every check is ok exactly if every target is  *)
(* reachable on a server that is new enough and has every method           *)
(* (doctorOperation with probeCompatibility), for any configuration.       *)
THEOREM RightWhenStillAlways == Spec => []RightWhenStill
<1>1. Inv /\ Counted /\ Still => RightWhenStill
  <2> SUFFICES ASSUME Inv, Counted, StillReport, Done
               PROVE  Healthy <=> \A alias \in Targets :
                        Reachable(alias, Snapshot) /\ server[SessionOf(alias)] = "current"
    BY DEF RightWhenStill, Still, Quiet
  <2>1. phase = "done" /\ left = {} /\ Listed
    BY DEF Done, Inv, Types, StillReport
  <2>2. ASSUME Healthy, NEW alias \in Targets
        PROVE  Reachable(alias, Snapshot) /\ server[SessionOf(alias)] = "current"
    <3>1. PICK s \in uniqueSessions : s = SessionOf(alias)
      BY DEF uniqueSessions
    <3>2. ~Waiting(s) /\ ~Probed(s) /\ SessionCounted(s)
      <4>1. phase \notin Calling /\ todo = {}
        BY <2>1 DEF Counted, Calling
      <4> QED BY <2>1, <4>1 DEF Counted, Waiting, Probed, Calling
    <3>3. ASSUME NEW name, Single(name, s) PROVE Pass(name, s) \in checks
      <4>1. PICK c \in checks : c.name = name /\ c.about = s
        BY <3>3 DEF Single, About
      <4>2. c.code = "ok" /\ c = Problem(name, s, c.code)
        BY <2>2, <4>1 DEF Healthy, StillReport, Honest
      <4>3. c = Pass(name, s)
        BY <4>2 DEF Problem, Pass
      <4> QED BY <4>3
    <3>4. Single("session", s) /\ Follows("session", s, "socket") /\ Follows("socket", s, "protocol")
      BY <3>2 DEF SessionCounted
    <3>5. Pass("session", s) \in checks
      BY <3>3, <3>4
    <3>6. Pass("socket", s) \in checks
      BY <3>3, <3>4, <3>5 DEF Follows
    <3>7. Pass("protocol", s) \in checks
      BY <3>3, <3>4, <3>6 DEF Follows
    <3>8. server[s] = "current"
      BY <3>7, PassSays DEF StillReport, Honest, Holds
    <3>9. PICK c \in checks : c.name = "target" /\ c.about = alias
      BY <2>1 DEF Inv, Settled
    <3>10. Reachable(alias, Snapshot)
      BY <2>2, <3>9 DEF Healthy, StillReport, Honest, Holds
    <3> QED BY <3>1, <3>8, <3>10
  <2>3. ASSUME \A alias \in Targets : Reachable(alias, Snapshot) /\ server[SessionOf(alias)] = "current",
               NEW c \in checks
        PROVE  c.code = "ok"
    <3>1. \A s \in uniqueSessions : session[s] = "running" /\ server[s] = "current"
      BY <2>3 DEF uniqueSessions, Reachable, Snapshot
    <3>2. Holds(c)
      BY <2>3, <3>1 DEF StillReport, Honest, Holds
    <3> QED BY <3>2 DEF StillReport, Honest
  <2> QED BY <2>2, <2>3 DEF Healthy
<1>2. Spec => [](Inv /\ Counted /\ Still)
  BY InvInit, InvNext, CountedInit, CountedNext, StillInit, StillNext, PTL DEF Spec
<1> QED BY <1>1, <1>2, PTL

-----------------------------------------------------------------------------
(* Why a report comes: every step of doctor leaves less to be done.        *)
Stage(p) ==
  IF p = "config" THEN 0 ELSE IF p = "discover" THEN 1
  ELSE IF p \in Probing THEN 2 ELSE IF p = "list" THEN 3 ELSE 4

Call(p) ==
  IF p = "validate" THEN 0 ELSE IF p = "ping" THEN 1 ELSE IF p = "ping again" THEN 2
  ELSE IF p = "list again" THEN 3 ELSE IF p = "probe prompt" THEN 4 ELSE 5

(* The sessions that are not finished, the one at hand included.           *)
Pending == todo \cup {s \in Session : phase \in Calling /\ s = current}

Shrinks(new, old) == new \subseteq old /\ new # old

(* The order is lexicographic, and well founded when there are finitely    *)
(* many sessions and targets.                                              *)
Advances ==
  \/ Stage(phase) < Stage(phase')
  \/ /\ Stage(phase) = Stage(phase')
     /\ \/ phase = "list" /\ Shrinks(left', left)
        \/ phase \in Probing /\ Shrinks(Pending', Pending)
        \/ phase \in Probing /\ Pending' = Pending /\ Call(phase) < Call(phase')

LEMMA Stages ==
  /\ Stage("config") = 0 /\ Stage("discover") = 1 /\ Stage("list") = 3 /\ Stage("done") = 4
  /\ \A p \in Probing : Stage(p) = 2
  /\ "validate" \in Probing /\ "validate" \notin Calling
<1>1. Stage("config") = 0 /\ Stage("discover") = 1
  BY DEF Stage
<1>2. "list" \notin Probing /\ "done" \notin Probing /\ "config" \notin Probing /\ "discover" \notin Probing
  BY DEF Probing, Calling
<1>3. "validate" \in Probing /\ "validate" \notin Calling
  BY DEF Probing, Calling
<1>4. \A p \in Probing : p # "config" /\ p # "discover"
  BY <1>2
<1> HIDE DEF Probing, Calling
<1> QED BY <1>1, <1>2, <1>3, <1>4 DEF Stage

LEMMA Calls == Call("validate") = 0 /\ Call("ping") = 1
BY DEF Call

LEMMA ProbeCalls == \A i \in 1..4 : Call(ProbeStep[i]) = i + 1
<1>1. Call("ping again") = 2
  BY DEF Call
<1>2. Call("list again") = 3 /\ Call("probe prompt") = 4 /\ Call("probe read") = 5
  BY DEF Call
<1>3. /\ ProbeStep[1] = "ping again" /\ ProbeStep[2] = "list again"
      /\ ProbeStep[3] = "probe prompt" /\ ProbeStep[4] = "probe read"
  BY DEF ProbeStep
<1>4. /\ Call(ProbeStep[1]) = 2 /\ Call(ProbeStep[2]) = 3
      /\ Call(ProbeStep[3]) = 4 /\ Call(ProbeStep[4]) = 5
  BY <1>1, <1>2, <1>3
<1>5. \A i \in 1..4 : i = 1 \/ i = 2 \/ i = 3 \/ i = 4
  OBVIOUS
<1> QED BY <1>4, <1>5

(* A session is done with.                                                 *)
LEMMA ProceedAdvances ==
  ASSUME phase \in Probing, NEW new, NEW remaining, NEW usable, NEW why,
         Proceed(new, remaining, usable, why), Shrinks(remaining, Pending)
  PROVE  Advances
<1>1. todo' = remaining /\ phase' \in {"validate", "list", "done"}
  BY DEF Proceed
<1>2. CASE phase' = "validate"
  <2>1. Pending' = remaining
    BY <1>1, <1>2, Stages DEF Pending
  <2> QED BY <1>2, <2>1, Stages DEF Advances
<1>3. CASE phase' \in {"list", "done"}
  BY <1>3, Stages DEF Advances
<1> QED BY <1>1, <1>2, <1>3

LEMMA PendingHere ==
  ASSUME Inv, Counted, phase \in Calling
  PROVE  /\ phase \in Probing /\ current \in Session /\ current \notin todo
         /\ Pending = todo \cup {current} /\ Shrinks(todo, Pending)
<1>1. phase \in Probing /\ current \in Session /\ current \notin todo
  BY DEF Inv, Types, Counted, Probing
<1>2. Pending = todo \cup {current}
  BY <1>1 DEF Pending
<1> QED BY <1>1, <1>2 DEF Shrinks

LEMMA ValidateFailsAdvances == ASSUME Inv, Counted, ValidateFails PROVE Advances
<1>1. PICK s \in todo : Drop(s, "HERDR_UNAVAILABLE", todo \ {s})
  BY DEF ValidateFails
<1>2. phase = "validate"
  BY DEF ValidateFails
<1>3. Pending = todo /\ Shrinks(todo \ {s}, Pending)
  BY <1>2, Stages DEF Pending, Shrinks
<1> QED BY <1>1, <1>2, <1>3, ProceedAdvances, Stages DEF Drop

LEMMA ValidateAdvances == ASSUME Inv, Counted, Validate PROVE Advances
<1>1. PICK s \in todo : current' = s /\ todo' = todo \ {s}
  BY DEF Validate
<1>2. phase = "validate" /\ phase' = "ping"
  BY DEF Validate
<1>3. "ping" \in Calling /\ "ping" \in Probing
  BY DEF Calling, Probing
<1>4. todo \subseteq Session
  BY DEF Inv, Types
<1>5. Pending = todo /\ Pending' = todo
  BY <1>1, <1>2, <1>3, <1>4, Stages DEF Pending
<1> QED BY <1>2, <1>3, <1>5, Stages, Calls DEF Advances

LEMMA PingAdvances == ASSUME Inv, Counted, Ping PROVE Advances
<1>1. "ping" \in Calling /\ "ping again" \in Calling
  BY DEF Calling
<1>2. phase = "ping" /\ UNCHANGED current
  BY DEF Ping
<1>3. /\ phase \in Probing /\ current \in Session /\ Pending = todo \cup {current}
      /\ Shrinks(todo, Pending)
  BY <1>1, <1>2, PendingHere
<1>4. CASE phase' = "ping again" /\ UNCHANGED todo
  <2>1. phase' \in Calling /\ Call(phase') = 2 /\ Call(phase) = 1
    <3>1. Call("ping again") = 2
      BY DEF Call
    <3> QED BY <1>1, <1>2, <1>4, <3>1, Calls
  <2>2. phase' \in Probing
    BY <2>1 DEF Probing
  <2>3. Pending' = Pending
    BY <1>2, <1>3, <1>4, <2>1 DEF Pending
  <2> QED BY <1>3, <2>1, <2>2, <2>3, Stages DEF Advances
<1>5. ASSUME NEW code, Drop(current, code, todo) PROVE Advances
  BY <1>3, <1>5, ProceedAdvances DEF Drop
<1>6. (phase' = "ping again" /\ UNCHANGED todo) \/ \E code : Drop(current, code, todo)
  BY DEF Ping
<1> QED BY <1>4, <1>5, <1>6

LEMMA ProbeAdvances == ASSUME Inv, Counted, Probe PROVE Advances
<1>1. PICK i \in 1..4 :
        /\ phase = ProbeStep[i]
        /\ \/ i < 4 /\ phase' = ProbeStep[i + 1] /\ UNCHANGED todo
           \/ \E new : Proceed(new, todo, endpoints, failure)
  BY ProbeSteps DEF Probe
<1>2. UNCHANGED current
  BY DEF Probe
<1>3. /\ phase \in Probing /\ phase \in Calling /\ current \in Session
      /\ Pending = todo \cup {current} /\ Shrinks(todo, Pending)
  BY <1>1, ProbeSteps, PendingHere
<1>4. CASE i < 4 /\ phase' = ProbeStep[i + 1] /\ UNCHANGED todo
  <2>1. i + 1 \in 1..4
    BY <1>4
  <2>2. phase' \in Calling /\ Call(phase) = i + 1 /\ Call(phase') = i + 2
    <3>1. Call(ProbeStep[i + 1]) = (i + 1) + 1 /\ ProbeStep[i + 1] \in Calling
      BY <2>1, ProbeCalls, ProbeSteps
    <3> QED BY <1>1, <1>4, <3>1, ProbeCalls
  <2>3. phase' \in Probing
    BY <2>2 DEF Probing
  <2>4. Pending' = Pending
    BY <1>2, <1>3, <1>4, <2>2 DEF Pending
  <2>5. Call(phase) < Call(phase')
    BY <2>2
  <2> QED BY <1>3, <2>3, <2>4, <2>5, Stages DEF Advances
<1> QED BY <1>1, <1>3, <1>4, ProceedAdvances

(* Every step of doctor leaves less to be done: it passes to a later part  *)
(* of the report, resolves a target, is done with a session, or goes on to *)
(* the next call of the session at hand.  So no session is probed twice    *)
(* and no loop goes round for ever, although the loops of doctorOperation  *)
(* delete from the map they walk: what remains for a report to come is     *)
(* that each await ends.                                                   *)
THEOREM DoctorAdvances == Spec => [][doctorStep => Advances]_vars
<1>1. Inv /\ Counted /\ [Next]_vars => [doctorStep => Advances]_vars
  <2> SUFFICES ASSUME Inv, Counted, doctorStep PROVE Advances
    OBVIOUS
  <2>1. CASE LoadFails \/ Load \/ DiscoverFails
    <3>1. \/ phase = "config" /\ phase' \in {"done", "discover"}
          \/ phase = "discover" /\ phase' = "done"
      <4>1. LoadFails => phase = "config" /\ phase' = "done"
        BY DEF LoadFails
      <4>2. Load => phase = "config" /\ phase' = "discover"
        BY DEF Load
      <4>3. DiscoverFails => phase = "discover" /\ phase' = "done"
        BY DEF DiscoverFails
      <4> QED BY <2>1, <4>1, <4>2, <4>3
    <3> QED BY <3>1, Stages DEF Advances
  <2>2. CASE Discover \/ DiscoverGarbled
    <3>1. phase = "discover" /\ phase' \in {"validate", "list", "done"}
      BY <2>2 DEF Discover, DiscoverGarbled, Examine, Proceed
    <3> QED BY <3>1, Stages DEF Advances
  <2>3. CASE Resolve
    <3>1. PICK alias \in left : phase = "list" /\ left' = left \ {alias} /\ phase' \in {"list", "done"}
      BY <2>3 DEF Resolve
    <3>2. Shrinks(left', left)
      BY <3>1 DEF Shrinks
    <3> QED BY <3>1, <3>2, Stages DEF Advances
  <2> QED BY <2>1, <2>2, <2>3, ValidateFailsAdvances, ValidateAdvances, PingAdvances, ProbeAdvances
          DEF doctorStep
<1>2. Spec => [](Inv /\ Counted)
  BY InvInit, InvNext, CountedInit, CountedNext, PTL DEF Spec
<1> QED BY <1>1, <1>2, PTL DEF Spec

-----------------------------------------------------------------------------
(* Types.                                                                  *)
Typed ==
  /\ config \in Config
  /\ session \in [Session -> SessionState]
  /\ server \in [Session -> ServerState]
  /\ agents \in [Session -> AgentList]
  /\ changes \in 0..MaxChanges
  /\ upsets \in 0..MaxUpsets
  /\ current \in Session \cup {Nobody}
  /\ todo \subseteq Session
  /\ left \subseteq Alias
  /\ endpoints \subseteq Session
  /\ failure \in [Session -> Code]
  /\ discovery \in {"none", "HERDR_INCOMPATIBLE"}
  /\ checks \subseteq Check
  /\ spoke \subseteq Session

LEMMA PhaseTyped ==
  ASSUME Inv
  PROVE  phase \in {"config", "discover", "validate", "ping", "list", "done"} \cup {ProbeStep[i] : i \in 1..4}
<1>1. /\ ProbeStep[1] = "ping again" /\ ProbeStep[2] = "list again"
      /\ ProbeStep[3] = "probe prompt" /\ ProbeStep[4] = "probe read"
  BY DEF ProbeStep
<1>2. 1 \in 1..4 /\ 2 \in 1..4 /\ 3 \in 1..4 /\ 4 \in 1..4
  OBVIOUS
<1> DEFINE probing == {ProbeStep[i] : i \in 1..4}
<1>3. {"ping again", "list again", "probe prompt", "probe read"} \subseteq probing
  <2>1. ProbeStep[1] \in probing /\ ProbeStep[2] \in probing /\ ProbeStep[3] \in probing /\ ProbeStep[4] \in probing
    BY <1>2
  <2> HIDE DEF probing
  <2> QED BY <1>1, <2>1
<1> HIDE DEF probing
<1>4. phase \in Before \cup Probing \cup {"list", "done"}
  BY DEF Inv, Types
<1>5. phase \in {"config", "discover", "validate", "ping", "list", "done"} \cup probing
  BY <1>3, <1>4 DEF Before, Probing, Calling
<1> QED BY <1>5 DEF probing

LEMMA CheckTyped ==
  ASSUME NEW name \in {"configuration", "executable", "session", "socket", "protocol", "target"},
         NEW about \in Alias \cup Session \cup {Nobody}, NEW code \in Code
  PROVE  Problem(name, about, code) \in Check
BY DEF Problem, Check

LEMMA TargetsTyped == Targets \subseteq Alias
BY DEF Targets

(* What is left alone by whatever is about the report.                     *)
LEMMA ProceedTyped ==
  ASSUME Inv, Typed, UNCHANGED world, upsets' \in 0..MaxUpsets, current' \in Session \cup {Nobody},
         spoke' \subseteq Session, discovery' \in {"none", "HERDR_INCOMPATIBLE"},
         NEW new, NEW remaining, NEW usable, NEW why, Proceed(new, remaining, usable, why),
         new \subseteq Check, remaining \subseteq Session, usable \subseteq Session,
         why \in [Session -> Code]
  PROVE  Typed'
<1> DEFINE lost == {alias \in Targets : SessionOf(alias) \notin usable}
           reason(alias) == IF discovery' # "none" THEN discovery' ELSE why[SessionOf(alias)]
           told == {Problem("target", alias, reason(alias)) : alias \in lost}
<1>1. told \subseteq Check
  <2> SUFFICES ASSUME NEW alias \in lost PROVE Problem("target", alias, reason(alias)) \in Check
    OBVIOUS
  <2>1. reason(alias) \in Code
    <3>1. SessionOf(alias) \in Session
      BY SessionsAreKnown DEF uniqueSessions
    <3>2. "HERDR_INCOMPATIBLE" \in Code
      BY DEF Code
    <3> QED BY <3>1, <3>2
  <2>2. alias \in Alias \cup Session \cup {Nobody}
    BY TargetsTyped
  <2> HIDE DEF reason, lost
  <2> QED BY <2>1, <2>2, CheckTyped
<1>2. todo' = remaining /\ endpoints' = usable /\ failure' = why
  BY DEF Proceed
<1>3. \/ checks' = checks \cup new /\ left' = left
      \/ checks' = checks \cup (new \cup told) /\ left' = Targets \ lost
  BY DEF Proceed, Push
<1> HIDE DEF told, lost
<1>4. checks' \subseteq Check /\ left' \subseteq Alias
  BY <1>1, <1>3, TargetsTyped DEF Typed
<1> QED BY <1>2, <1>4 DEF Typed, world

LEMMA UpsetTyped ==
  ASSUME Typed, upsets < MaxUpsets, upsets' = upsets + 1
  PROVE  upsets' \in 0..MaxUpsets
BY DoctorAssumption DEF Typed

LEMMA EndsTyped ==
  ASSUME Typed, NEW s, NEW class, NEW natural, Ends(s, class, natural)
  PROVE  upsets' \in 0..MaxUpsets
BY DoctorAssumption DEF Typed, Ends, Upset

LEMMA CodesTyped ==
  /\ \A class : mapHerdrError(class) \in Code
  /\ \A step, class : probeCode(step, class) \in Code
  /\ \A state : getSessionFromDiscovery(state) \in Code
<1>1. \A class : mapHerdrError(class) \in Code
  BY DEF mapHerdrError, Code
<1>2. \A step, class : probeCode(step, class) \in Code
  <2>1. "HERDR_INCOMPATIBLE" \in Code
    BY DEF Code
  <2>2. \A step, class : probeCode(step, class) = mapHerdrError(class) \/ probeCode(step, class) = "HERDR_INCOMPATIBLE"
    BY DEF probeCode
  <2> QED BY <1>1, <2>1, <2>2
<1>3. \A state : getSessionFromDiscovery(state) \in Code
  BY DEF getSessionFromDiscovery, Code
<1> QED BY <1>1, <1>2, <1>3

LEMMA VerdictTyped == ASSUME NEW alias, NEW class PROVE verdict(alias, class) \in Code
<1> DEFINE found == resolveTarget(config[alias], agents[SessionOf(alias)])
<1>1. ~ found.ok => found.code \in Code
  BY DEF resolveTarget, Resolved, Unresolved, Code
<1>2. "ok" \in Code
  BY DEF Code
<1>3. verdict(alias, class) \in {mapHerdrError(class), "ok"} \/ (~ found.ok /\ verdict(alias, class) = found.code)
  BY DEF verdict
<1> HIDE DEF found
<1> QED BY <1>1, <1>2, <1>3, CodesTyped

LEMMA ExamineTyped ==
  ASSUME Inv, Typed, UNCHANGED <<world, current, spoke>>, upsets' \in 0..MaxUpsets,
         discovery' \in {"none", "HERDR_INCOMPATIBLE"}, NEW states, Examine(states)
  PROVE  Typed'
<1> DEFINE code == [s \in Session |-> getSessionFromDiscovery(states[s])]
           found == {s \in uniqueSessions : code[s] = "ok"}
           verdicts == {Problem("session", s, code[s]) : s \in uniqueSessions}
           garbled == IF discovery' = "none" THEN {} ELSE {Problem("session", Nobody, discovery')}
           new == {Pass("executable", Nobody)} \cup verdicts \cup garbled
<1>1. Proceed(new, found, found, code)
  BY DEF Examine, Problem
<1>2. code \in [Session -> Code]
  BY CodesTyped
<1>3. Nobody \in Alias \cup Session \cup {Nobody} /\ "ok" \in Code /\ "HERDR_INCOMPATIBLE" \in Code
  BY DEF Code
<1>4. Pass("executable", Nobody) \in Check
  <2>1. Pass("executable", Nobody) = Problem("executable", Nobody, "ok")
    BY DEF Pass, Problem
  <2> QED BY <1>3, <2>1, CheckTyped
<1>5. verdicts \subseteq Check
  <2> SUFFICES ASSUME NEW s \in uniqueSessions PROVE Problem("session", s, code[s]) \in Check
    OBVIOUS
  <2>1. s \in Session /\ code[s] \in Code
    BY <1>2, SessionsAreKnown
  <2> HIDE DEF code
  <2> QED BY <2>1, CheckTyped
<1>6. garbled \subseteq Check
  BY <1>3, CheckTyped
<1>7. found \subseteq Session
  BY SessionsAreKnown
<1>8. new \subseteq Check
  <2> HIDE DEF verdicts, garbled
  <2> QED BY <1>4, <1>5, <1>6
<1>9. current' \in Session \cup {Nobody} /\ spoke' \subseteq Session
  BY DEF Typed
<1> HIDE DEF new, code, found
<1> QED BY <1>1, <1>2, <1>7, <1>8, <1>9, ProceedTyped

(* A session at hand.                                                      *)
LEMMA DropTyped ==
  ASSUME Inv, Typed, UNCHANGED <<world, discovery>>, upsets' \in 0..MaxUpsets, current' \in Session \cup {Nobody},
         spoke' \subseteq Session, NEW s \in Session, NEW code \in Code, NEW remaining \in SUBSET Session,
         Drop(s, code, remaining)
  PROVE  Typed'
<1>1. Problem("socket", s, code) \in Check
  BY CheckTyped
<1>2. [failure EXCEPT ![s] = code] \in [Session -> Code]
  BY DEF Typed
<1>3. endpoints \ {s} \subseteq Session /\ discovery' \in {"none", "HERDR_INCOMPATIBLE"}
  BY DEF Typed
<1>4. {Problem("socket", s, code)} \subseteq Check
  BY <1>1
<1>5. PICK new, why : /\ new \subseteq Check /\ why \in [Session -> Code]
                      /\ Proceed(new, remaining, endpoints \ {s}, why)
  BY <1>2, <1>4 DEF Drop
<1> QED BY <1>3, <1>5, ProceedTyped

LEMMA HeardTyped ==
  ASSUME Typed, NEW s \in Session, NEW class, Heard(s, class)
  PROVE  spoke' \subseteq Session
BY DEF Typed, Heard

LEMMA PingTyped == ASSUME Inv, Typed, Ping PROVE Typed'
<1>1. PICK class \in Class :
        /\ Ends(current, class, "pong")
        /\ Heard(current, class)
        /\ \/ Push({Pass("socket", current)}) /\ UNCHANGED <<todo, left, endpoints, failure>>
           \/ Drop(current, mapHerdrError(class), todo)
  BY DEF Ping
<1>2. current \in Session /\ UNCHANGED <<world, current, discovery>> /\ todo \in SUBSET Session
  BY DEF Inv, Types, Ping, Calling
<1>3. upsets' \in 0..MaxUpsets /\ spoke' \subseteq Session
  BY <1>1, <1>2, EndsTyped, HeardTyped
<1>4. CASE Push({Pass("socket", current)}) /\ UNCHANGED <<todo, left, endpoints, failure>>
  <2>1. Pass("socket", current) = Problem("socket", current, "ok") /\ "ok" \in Code
    BY DEF Pass, Problem, Code
  <2>2. Pass("socket", current) \in Check
    BY <1>2, <2>1, CheckTyped
  <2> QED BY <1>2, <1>3, <1>4, <2>2 DEF Typed, world, Push
<1>5. CASE Drop(current, mapHerdrError(class), todo)
  BY <1>2, <1>3, <1>5, CodesTyped, DropTyped
<1> QED BY <1>1, <1>4, <1>5

LEMMA ProbeTyped == ASSUME Inv, Typed, Probe PROVE Typed'
<1>1. PICK i \in 1..4, class \in Class :
        /\ phase = ProbeStep[i]
        /\ Ends(current, class, Natural(ProbeStep[i], server[current]))
        /\ Heard(current, class)
        /\ \/ UNCHANGED <<todo, left, endpoints, failure, checks>>
           \/ Proceed({Pass("protocol", current)}, todo, endpoints, failure)
           \/ Proceed({Problem("protocol", current, probeCode(ProbeStep[i], class))},
                      todo, endpoints, failure)
  BY ProbeSteps DEF Probe
<1>2. current \in Session /\ UNCHANGED <<world, current, discovery>>
  BY <1>1, ProbeSteps DEF Inv, Types, Probe
<1>3. upsets' \in 0..MaxUpsets /\ spoke' \subseteq Session
  BY <1>1, <1>2, EndsTyped, HeardTyped
<1>4. ASSUME NEW code \in Code, Proceed({Problem("protocol", current, code)}, todo, endpoints, failure)
      PROVE  Typed'
  <2>1. {Problem("protocol", current, code)} \subseteq Check
    BY <1>2, CheckTyped
  <2> QED BY <1>2, <1>3, <1>4, <2>1, ProceedTyped DEF Typed
<1>5. CASE UNCHANGED <<todo, left, endpoints, failure, checks>>
  BY <1>2, <1>3, <1>5 DEF Typed, world
<1>6. Pass("protocol", current) = Problem("protocol", current, "ok") /\ "ok" \in Code
  BY DEF Pass, Problem, Code
<1>7. probeCode(ProbeStep[i], class) \in Code
  BY CodesTyped
<1> QED BY <1>1, <1>4, <1>5, <1>6, <1>7

LEMMA ResolveTyped == ASSUME Inv, Typed, Resolve PROVE Typed'
<1>1. PICK alias \in left, class \in Class :
        /\ Ends(SessionOf(alias), class, "agents")
        /\ Heard(SessionOf(alias), class)
        /\ Push({[name |-> "target", about |-> alias, code |-> verdict(alias, class)]})
        /\ left' = left \ {alias}
  BY DEF Resolve
<1>2. alias \in Targets /\ SessionOf(alias) \in Session /\ alias \in Alias
  BY SessionsAreKnown, TargetsTyped DEF Inv, Settled, uniqueSessions
<1>3. upsets' \in 0..MaxUpsets /\ spoke' \subseteq Session
  BY <1>1, <1>2, EndsTyped, HeardTyped
<1>4. checks' = checks \cup {Problem("target", alias, verdict(alias, class))}
  BY <1>1 DEF Push, Problem
<1>5. Problem("target", alias, verdict(alias, class)) \in Check
  BY <1>2, CheckTyped, VerdictTyped
<1> QED BY <1>1, <1>3, <1>4, <1>5 DEF Typed, Resolve, world

LEMMA FailureTyped ==
  ASSUME Typed, NEW name \in {"configuration", "executable"}, NEW code \in Code, upsets' \in 0..MaxUpsets,
         Push({Problem(name, Nobody, code)}),
         UNCHANGED <<world, current, todo, left, endpoints, failure, discovery, spoke>>
  PROVE  Typed'
<1>1. Problem(name, Nobody, code) \in Check
  BY CheckTyped
<1> QED BY <1>1 DEF Typed, world, Push

LEMMA TypedNext == Inv /\ Typed /\ [Next]_vars => Typed'
<1> SUFFICES ASSUME Inv, Typed, [Next]_vars PROVE Typed'
  OBVIOUS
<1>1. CASE LoadFails
  <2>1. PICK code \in {"CONFIG_NOT_FOUND", "CONFIG_INVALID"} : Push({Problem("configuration", Nobody, code)})
    BY <1>1 DEF LoadFails
  <2>2. code \in Code /\ upsets' \in 0..MaxUpsets
    BY <1>1, UpsetTyped DEF LoadFails, Code
  <2> QED BY <1>1, <2>1, <2>2, FailureTyped DEF LoadFails
<1>2. CASE DiscoverFails
  <2>1. PICK code \in {"HERDR_NOT_FOUND", "HERDR_UNAVAILABLE"} : Push({Problem("executable", Nobody, code)})
    BY <1>2 DEF DiscoverFails
  <2>2. code \in Code /\ upsets' \in 0..MaxUpsets
    BY <1>2, UpsetTyped DEF DiscoverFails, Code
  <2> QED BY <1>2, <2>1, <2>2, FailureTyped DEF DiscoverFails
<1>3. CASE Load
  <2>1. Pass("configuration", Nobody) = Problem("configuration", Nobody, "ok") /\ "ok" \in Code
    BY DEF Pass, Problem, Code
  <2>2. upsets' \in 0..MaxUpsets
    BY <1>3 DEF Load, Typed
  <2> QED BY <1>3, <2>1, <2>2, FailureTyped DEF Load
<1>4. CASE Discover
  <2>1. upsets' \in 0..MaxUpsets /\ discovery' \in {"none", "HERDR_INCOMPATIBLE"}
    BY <1>4 DEF Discover, Typed
  <2> QED BY <1>4, <2>1, ExamineTyped DEF Discover
<1>5. CASE DiscoverGarbled
  <2>1. upsets' \in 0..MaxUpsets /\ discovery' \in {"none", "HERDR_INCOMPATIBLE"}
    BY <1>5, UpsetTyped DEF DiscoverGarbled
  <2> QED BY <1>5, <2>1, ExamineTyped DEF DiscoverGarbled
<1>6. CASE ValidateFails
  <2>1. PICK s \in todo : Drop(s, "HERDR_UNAVAILABLE", todo \ {s})
    BY <1>6 DEF ValidateFails
  <2>2. upsets' \in 0..MaxUpsets
    BY <1>6, UpsetTyped DEF ValidateFails, Upset, Typed
  <2>3. "HERDR_UNAVAILABLE" \in Code /\ s \in Session /\ todo \ {s} \in SUBSET Session
    BY DEF Code, Typed
  <2>4. current' \in Session \cup {Nobody} /\ spoke' \subseteq Session /\ UNCHANGED <<world, discovery>>
    BY <1>6 DEF ValidateFails, Typed
  <2> QED BY <2>1, <2>2, <2>3, <2>4, DropTyped
<1>7. CASE Validate
  BY <1>7 DEF Validate, Typed, world
<1>8. CASE WorldChange
  <2>1. session' \in [Session -> SessionState] /\ server' \in [Session -> ServerState]
          /\ agents' \in [Session -> AgentList]
    BY <1>8 DEF WorldChange, Typed
  <2>2. changes' \in 0..MaxChanges
    BY <1>8, DoctorAssumption DEF WorldChange, Typed
  <2> QED BY <1>8, <2>1, <2>2 DEF WorldChange, Typed
<1>9. CASE UNCHANGED vars
  BY <1>9 DEF vars, world, Typed
<1> QED BY <1>1, <1>2, <1>3, <1>4, <1>5, <1>6, <1>7, <1>8, <1>9, PingTyped, ProbeTyped, ResolveTyped
        DEF Next, doctorStep

(* Every variable of Doctor keeps its type: the phase and the codes of     *)
(* every check of the report are among those doctorOperation knows.        *)
THEOREM TypeCorrectness == Spec => []TypeOK
<1>1. Init => Typed
  BY DoctorAssumption DEF Init, Typed, Code
<1>2. Inv /\ Typed => TypeOK
  BY PhaseTyped DEF Typed, TypeOK
<1> QED BY <1>1, <1>2, InvInit, InvNext, TypedNext, PTL DEF Spec

=============================================================================
