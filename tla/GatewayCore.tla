---------------------------- MODULE GatewayCore ----------------------------
(***************************************************************************)
(* Gateway Core (src/src/gateway.ts) at work: any number of concurrent     *)
(* operations, started by the CLI, the local MCP server or the remote MCP  *)
(* server, possibly in different processes.  The Gateway keeps no state    *)
(* between operations; each one reads the configuration, asks the Herdr    *)
(* executable for its sessions, probes the session's socket, asks the      *)
(* session's server for its agents, resolves the target and only then      *)
(* prompts or reads.  What the operations share is outside the Gateway and *)
(* changes under them: the configuration file, the sessions, the agents.   *)
(*                                                                         *)
(* One action is one turn of the operation's promise chain: everything the *)
(* code does between two awaits.  Each remote call is in two halves, what  *)
(* Herdr does with the request and what the Gateway makes of the answer,   *)
(* because the caller may give up while Herdr still holds the request.     *)
(***************************************************************************)
EXTENDS TargetResolution

CONSTANTS
  Op,              \* operations; one operation is one call of the Gateway
  Alias,           \* target aliases
  Session,         \* names of Herdr sessions
  Config,          \* contents the configuration file may have
  MissingConfig,   \* there is no configuration file
  InvalidConfig,   \* the file cannot be read or its contents do not validate
  NotConfigured,   \* an alias the configuration does not define
  AgentList,       \* agent lists a Herdr server may report
  RemoteCode,      \* error codes Herdr may answer with, in lower case
  MayHaveTyped,    \* the codes it may answer with after typing a prompt
  Request,         \* the calls the clients may make
  HasProvider,     \* aliases some semantic provider supports
  MaxChanges       \* bound: how often the world outside may change

ReadSource == {"visible", "recent", "recent-unwrapped", "detection"}

Target == TargetConfig(Session)
TargetTable == [Alias -> Target \cup {NotConfigured}]

(* Codes by which Herdr says it blocked the prompt, and codes by which it  *)
(* says it does not know what became of it.                                *)
BlockedRemoteCodes == {"blocked", "target_blocked", "agent_blocked", "pane_blocked"}

UncertainRemoteCodes ==
  {"timeout", "timed_out", "request_timeout",
   "delivery_uncertain", "uncertain_delivery", "agent_prompt_stalled"}

ASSUME ConfigAssumption ==
  /\ Config \subseteq TargetTable \cup {MissingConfig, InvalidConfig}
  /\ {MissingConfig, InvalidConfig} \cap TargetTable = {}
  /\ NotConfigured \notin Target

(* A pane has one occupant: Herdr lists no pane twice.                     *)
ASSUME AgentListAssumption ==
  /\ AgentList \subseteq Seq(HerdrAgent)
  /\ \A list \in AgentList : \A i, j \in DOMAIN list : list[i].paneId = list[j].paneId => i = j

ASSUME RequestAssumption ==
  Request \subseteq [kind : {"list", "status", "send", "read", "semantic"},
                     alias : Alias,
                     input : {"valid", "invalid", "oversized"},
                     source : ReadSource]

ASSUME BoundAssumption == MaxChanges \in Nat

(* What the Gateway takes on trust from Herdr: when its answer to          *)
(* agent.prompt is an error that is not one of the uncertain ones, the     *)
(* prompt was not typed and will not be.                                   *)
ASSUME HerdrIsTruthful == MayHaveTyped \subseteq RemoteCode \cap UncertainRemoteCodes

VARIABLES
  config,        \* contents of the configuration file
  session,       \* state of each Herdr session
  agents,        \* agents of each session, in the order Herdr lists them
  changes,       \* how often the world has changed
  phase,         \* the await each operation is at
  request,       \* what each operation was asked to do
  target,        \* the target it read from the configuration
  call,          \* its current remote call: the method and the pane it names
  reply,         \* Herdr's answer to that call, as far as it has come
  pending,       \* Herdr holds its agent.prompt and may still type it
  answer,        \* its result: "ok" or an error code
  typed,         \* how many times its prompt was typed into an agent
  landed,        \* the agent that occupied the pane when it was typed
  listed,        \* the agents it was given
  seen           \* configurations and agents there were since it was called

world == <<config, session, agents, changes>>
vars == <<config, session, agents, changes, phase, request, target, call,
          reply, pending, answer, typed, landed, listed, seen>>

(* What a step leaves alone that only moves an operation on, and what one  *)
(* of Herdr's leaves alone.                                                *)
aside == <<world, request, target, call, pending, typed, landed, listed, seen>>
operation == <<world, phase, request, target, call, answer, listed, seen>>

Phase == {"idle", "config", "discover", "validate", "list", "act", "provide", "done"}

SessionState == {"absent", "stopped", "socketless", "running"}

NoReply == [class |-> "none"]

Reply == [class : {"none", "prompted", "malformed"}]
         \cup [class : {"agents"}, agents : AgentList]
         \cup [class : {"read"}, source : ReadSource]
         \cup [class : {"error"}, code : RemoteCode]

NoCall == [method |-> "none", pane |-> NoPane]

Call == [method : {"none", "agent.list", "agent.prompt", "agent.read"},
         pane : Pane \cup {NoPane}]

Code == {"none", "ok", "INVALID_ARGUMENT", "PROMPT_TOO_LARGE", "CONFIG_NOT_FOUND", "CONFIG_INVALID",
         "TARGET_NOT_CONFIGURED", "SEMANTIC_OUTPUT_UNAVAILABLE", "HERDR_NOT_FOUND",
         "HERDR_UNAVAILABLE", "HERDR_INCOMPATIBLE", "HERDR_SESSION_NOT_FOUND",
         "HERDR_SESSION_NOT_RUNNING", "TARGET_NOT_FOUND", "TARGET_AMBIGUOUS",
         "TARGET_BLOCKED", "PROMPT_DELIVERY_FAILED", "PROMPT_DELIVERY_UNCERTAIN",
         "READ_FAILED"}

NoTarget == NotConfigured
NoRequest == [kind |-> "none"]
NoAgent == [paneId |-> NoPane]

-----------------------------------------------------------------------------
(* The error mappings.  The client raises an error of one of four classes: *)
(* "transport" (no answer), "malformed" (an answer that does not parse),   *)
(* "error" (Herdr's own error answer, with its code) and "incompatible"    *)
(* (the client refused to send).                                           *)

(* Mutant: the client's own code reaches the caller unmapped.              *)
mapHerdrErrorLeaks(class) ==
  IF class = "transport" THEN "HERDR_TRANSPORT_ERROR" ELSE "HERDR_INCOMPATIBLE"

mapHerdrError(class) == IF class = "transport" THEN "HERDR_UNAVAILABLE" ELSE "HERDR_INCOMPATIBLE"

(* Mutant: an answer that cannot be parsed counts as a failed delivery.    *)
mapPromptErrorTrustsGarbage(class, remoteCode) ==
  IF class = "error" /\ remoteCode \in BlockedRemoteCodes
  THEN "TARGET_BLOCKED"
  ELSE IF \/ class = "error" /\ remoteCode \in UncertainRemoteCodes
          \/ class = "transport"
  THEN "PROMPT_DELIVERY_UNCERTAIN"
  ELSE "PROMPT_DELIVERY_FAILED"

(* Mutant: a stalled prompt is taken for a rejected one.                   *)
mapPromptErrorIgnoresStalls(class, remoteCode) ==
  IF class = "error" /\ remoteCode \in BlockedRemoteCodes
  THEN "TARGET_BLOCKED"
  ELSE IF \/ class = "error" /\ remoteCode \in UncertainRemoteCodes \ {"agent_prompt_stalled"}
          \/ class \in {"transport", "malformed"}
  THEN "PROMPT_DELIVERY_UNCERTAIN"
  ELSE "PROMPT_DELIVERY_FAILED"

mapPromptError(class, remoteCode) ==
  IF class = "error" /\ remoteCode \in BlockedRemoteCodes
  THEN "TARGET_BLOCKED"
  ELSE IF \/ class = "error" /\ remoteCode \in UncertainRemoteCodes
          \/ class \in {"transport", "malformed"}
  THEN "PROMPT_DELIVERY_UNCERTAIN"
  ELSE "PROMPT_DELIVERY_FAILED"

mapReadError(class) == IF class = "incompatible" THEN "HERDR_INCOMPATIBLE" ELSE "READ_FAILED"

-----------------------------------------------------------------------------
Init ==
  /\ config \in Config
  /\ session \in [Session -> SessionState]
  /\ agents \in [Session -> AgentList]
  /\ changes = 0
  /\ phase = [op \in Op |-> "idle"]
  /\ request = [op \in Op |-> NoRequest]
  /\ target = [op \in Op |-> NoTarget]
  /\ call = [op \in Op |-> NoCall]
  /\ reply = [op \in Op |-> NoReply]
  /\ pending = [op \in Op |-> FALSE]
  /\ answer = [op \in Op |-> "none"]
  /\ typed = [op \in Op |-> 0]
  /\ landed = [op \in Op |-> NoAgent]
  /\ listed = [op \in Op |-> <<>>]
  /\ seen = [op \in Op |-> [configs |-> {}, agents |-> {}]]

Advance(op, next) ==
  /\ phase' = [phase EXCEPT ![op] = next]
  /\ UNCHANGED answer

(* The operation's promise settles; an answer Herdr may still send to the  *)
(* call it gave up on has nowhere to go.                                   *)
Finish(op, code) ==
  /\ phase' = [phase EXCEPT ![op] = "done"]
  /\ answer' = [answer EXCEPT ![op] = code]
  /\ reply' = [reply EXCEPT ![op] = NoReply]

Issue(op, method, pane) ==
  /\ call' = [call EXCEPT ![op] = [method |-> method, pane |-> pane]]
  /\ reply' = [reply EXCEPT ![op] = NoReply]

-----------------------------------------------------------------------------
(* The operation up to the agent list.                                     *)

Start(op, r) ==
  /\ phase[op] = "idle"
  /\ request' = [request EXCEPT ![op] = r]
  /\ seen' = [seen EXCEPT ![op] = [configs |-> {config}, agents |-> {agents}]]
  /\ \/ /\ r.input = "valid"
        /\ Advance(op, "config")
        /\ UNCHANGED reply
     \/ /\ r.input = "invalid"
        /\ Finish(op, "INVALID_ARGUMENT")
     \/ /\ r.input = "oversized"
        /\ Finish(op, "PROMPT_TOO_LARGE")
  /\ UNCHANGED <<world, target, call, pending, typed, landed, listed>>

LoadFails(op) ==
  /\ phase[op] = "config"
  /\ \/ config = MissingConfig /\ Finish(op, "CONFIG_NOT_FOUND")
     \/ config = InvalidConfig /\ Finish(op, "CONFIG_INVALID")
  /\ UNCHANGED aside

ListTargets(op) ==
  /\ phase[op] = "config"
  /\ config \in TargetTable
  /\ request[op].kind = "list"
  /\ Finish(op, "ok")
  /\ UNCHANGED aside

(* A semantic read looks for a provider before it resolves anything.       *)
LoadTarget(op) ==
  LET alias == request[op].alias
      found == config[alias]
      unavailable == request[op].kind = "semantic" /\ alias \notin HasProvider
  IN /\ phase[op] = "config"
     /\ config \in TargetTable
     /\ request[op].kind # "list"
     /\ \/ /\ found = NotConfigured
           /\ Finish(op, "TARGET_NOT_CONFIGURED")
           /\ UNCHANGED target
        \/ /\ found # NotConfigured
           /\ unavailable
           /\ Finish(op, "SEMANTIC_OUTPUT_UNAVAILABLE")
           /\ UNCHANGED target
        \/ /\ found # NotConfigured
           /\ ~unavailable
           /\ Advance(op, "discover")
           /\ target' = [target EXCEPT ![op] = found]
           /\ UNCHANGED reply
     /\ UNCHANGED <<world, request, call, pending, typed, landed, listed, seen>>

(* `herdr session list --json` cannot be run, fails or times out, or       *)
(* answers with something that is not a session list.                      *)
DiscoverFails(op) ==
  /\ phase[op] = "discover"
  /\ \E code \in {"HERDR_NOT_FOUND", "HERDR_UNAVAILABLE", "HERDR_INCOMPATIBLE"} : Finish(op, code)
  /\ UNCHANGED aside

getSessionFromDiscovery(state) ==
  IF state = "absent" THEN "HERDR_SESSION_NOT_FOUND"
  ELSE IF state = "stopped" THEN "HERDR_SESSION_NOT_RUNNING"
  ELSE IF state = "socketless" THEN "HERDR_INCOMPATIBLE"
  ELSE "ok"

Discover(op) ==
  LET found == getSessionFromDiscovery(session[target[op].herdrSession])
  IN /\ phase[op] = "discover"
     /\ \/ found = "ok" /\ Advance(op, "validate") /\ UNCHANGED reply
        \/ found # "ok" /\ Finish(op, found)
     /\ UNCHANGED aside

ValidateFails(op) ==
  /\ phase[op] = "validate"
  /\ Finish(op, "HERDR_UNAVAILABLE")
  /\ UNCHANGED aside

(* The socket accepted a connection; agent.list is sent on a new one.      *)
Validate(op) ==
  /\ phase[op] = "validate"
  /\ session[target[op].herdrSession] = "running"
  /\ Advance(op, "list")
  /\ Issue(op, "agent.list", NoPane)
  /\ UNCHANGED <<world, request, target, pending, typed, landed, listed, seen>>

-----------------------------------------------------------------------------
(* What Herdr does with a request.  It serves a session only while it      *)
(* runs, in any order and at any speed; an answer counts only while the    *)
(* operation still waits for it.                                           *)

Serving(op) == session[target[op].herdrSession] = "running"

Awaiting(op, method) ==
  /\ phase[op] \in {"list", "act"}
  /\ call[op].method = method
  /\ reply[op].class = "none"

Answer(op, r) == reply' = [reply EXCEPT ![op] = r]

Malformed == [class |-> "malformed"]
ErrorReply(codes) == [class : {"error"}, code : codes]
NoSuccess == {Malformed} \cup ErrorReply(RemoteCode)

HerdrLists(op) ==
  /\ Awaiting(op, "agent.list")
  /\ Serving(op)
  /\ \E r \in {[class |-> "agents", agents |-> agents[target[op].herdrSession]]} \cup NoSuccess :
       Answer(op, r)
  /\ UNCHANGED <<operation, pending, typed, landed>>

(* The prompt is typed into whatever agent now occupies the pane.          *)
HerdrTypes(op) ==
  /\ pending[op]
  /\ Serving(op)
  /\ \E i \in DOMAIN agents[target[op].herdrSession] :
       LET occupant == agents[target[op].herdrSession][i]
       IN /\ occupant.paneId = call[op].pane
          /\ landed' = [landed EXCEPT ![op] = occupant]
  /\ typed' = [typed EXCEPT ![op] = @ + 1]
  /\ pending' = [pending EXCEPT ![op] = FALSE]
  /\ IF Awaiting(op, "agent.prompt")
     THEN \E r \in {[class |-> "prompted"], Malformed} \cup ErrorReply(MayHaveTyped) :
            Answer(op, r)
     ELSE UNCHANGED reply
  /\ UNCHANGED operation

(* Herdr answers without knowing what will become of the prompt.           *)
HerdrStalls(op) ==
  /\ pending[op]
  /\ Serving(op)
  /\ Awaiting(op, "agent.prompt")
  /\ \E r \in {Malformed} \cup ErrorReply(MayHaveTyped) : Answer(op, r)
  /\ UNCHANGED <<operation, pending, typed, landed>>

HerdrRejects(op) ==
  /\ pending[op]
  /\ Serving(op)
  /\ pending' = [pending EXCEPT ![op] = FALSE]
  /\ IF Awaiting(op, "agent.prompt")
     THEN \E r \in NoSuccess : Answer(op, r)
     ELSE UNCHANGED reply
  /\ UNCHANGED <<operation, typed, landed>>

(* The request never reaches Herdr, or is lost with its connection.        *)
PromptIsLost(op) ==
  /\ pending[op]
  /\ pending' = [pending EXCEPT ![op] = FALSE]
  /\ UNCHANGED <<operation, reply, typed, landed>>

HerdrReads(op) ==
  /\ Awaiting(op, "agent.read")
  /\ Serving(op)
  /\ \E r \in [class : {"read"}, source : ReadSource] \cup NoSuccess : Answer(op, r)
  /\ UNCHANGED <<operation, pending, typed, landed>>

-----------------------------------------------------------------------------
(* The operation from the agent list on.                                   *)

(* How the client's promise rejects: the answer it has is no success, or   *)
(* there is no answer it will ever take, because the connection failed,    *)
(* closed or outlasted the five-second timer.                              *)
(* Mutant: without the timer and the socket's own events.                  *)
CallFailureUnbounded(op) == {reply[op].class} \cap {"malformed", "error"}

CallFailure(op) ==
  {"transport"} \cup ({reply[op].class} \cap {"malformed", "error"})

RemoteCodeOf(r) == IF r.class = "error" THEN r.code ELSE "none"

ListFails(op) ==
  /\ phase[op] = "list"
  /\ \E class \in CallFailure(op) : Finish(op, mapHerdrError(class))
  /\ UNCHANGED aside

(* The agent list arrives.  Resolution and the decision that follows it    *)
(* happen in the same turn; the pane goes into the next request at once.   *)
TakeList(op) ==
  /\ phase[op] = "list"
  /\ reply[op].class = "agents"
  /\ listed' = [listed EXCEPT ![op] = reply[op].agents]
  /\ UNCHANGED <<world, request, target, typed, landed, seen>>

Resolution(op) == resolveTarget(target[op], reply[op].agents)

FailToResolve(op) ==
  /\ TakeList(op)
  /\ ~Resolution(op).ok
  /\ Finish(op, Resolution(op).code)
  /\ UNCHANGED <<call, pending>>

ReportStatus(op) ==
  /\ TakeList(op)
  /\ Resolution(op).ok
  /\ request[op].kind = "status"
  /\ Finish(op, "ok")
  /\ UNCHANGED <<call, pending>>

RefuseBlocked(op) ==
  /\ TakeList(op)
  /\ Resolution(op).ok
  /\ request[op].kind = "send"
  /\ Resolution(op).agent.agentStatus = "blocked"
  /\ Finish(op, "TARGET_BLOCKED")
  /\ UNCHANGED <<call, pending>>

(* Mutant: the status of the resolved agent is not looked at.              *)
SendPromptUnchecked(op) ==
  /\ TakeList(op)
  /\ Resolution(op).ok
  /\ request[op].kind = "send"
  /\ Advance(op, "act")
  /\ Issue(op, "agent.prompt", Resolution(op).agent.paneId)
  /\ pending' = [pending EXCEPT ![op] = TRUE]

(* The client refuses a pane id that is empty before it sends anything.    *)
SendPrompt(op) ==
  LET found == Resolution(op)
  IN /\ TakeList(op)
     /\ found.ok
     /\ request[op].kind = "send"
     /\ found.agent.agentStatus # "blocked"
     /\ \/ /\ found.agent.paneId = EmptyPane
           /\ Finish(op, mapPromptError("incompatible", "none"))
           /\ UNCHANGED <<call, pending>>
        \/ /\ found.agent.paneId # EmptyPane
           /\ Advance(op, "act")
           /\ Issue(op, "agent.prompt", found.agent.paneId)
           /\ pending' = [pending EXCEPT ![op] = TRUE]

SendRead(op) ==
  LET found == Resolution(op)
  IN /\ TakeList(op)
     /\ found.ok
     /\ request[op].kind = "read"
     /\ \/ /\ found.agent.paneId = EmptyPane
           /\ Finish(op, mapReadError("incompatible"))
           /\ UNCHANGED call
        \/ /\ found.agent.paneId # EmptyPane
           /\ Advance(op, "act")
           /\ Issue(op, "agent.read", found.agent.paneId)
     /\ UNCHANGED pending

AskProvider(op) ==
  /\ TakeList(op)
  /\ Resolution(op).ok
  /\ request[op].kind = "semantic"
  /\ Advance(op, "provide")
  /\ UNCHANGED <<call, reply, pending>>

(* A provider may raise a GatewayError of its own, which is passed on.     *)
ProviderAnswers(op) ==
  /\ phase[op] = "provide"
  /\ \E code \in Code \ {"none"} : Finish(op, code)
  /\ UNCHANGED aside

PromptAccepted(op) ==
  /\ phase[op] = "act"
  /\ reply[op].class = "prompted"
  /\ Finish(op, "ok")
  /\ UNCHANGED aside

(* Mutant: when the connection fails, the prompt is sent once more.        *)
PromptRetried(op) ==
  /\ phase[op] = "act"
  /\ call[op].method = "agent.prompt"
  /\ pending' = [pending EXCEPT ![op] = TRUE]
  /\ reply' = [reply EXCEPT ![op] = NoReply]
  /\ UNCHANGED <<operation, typed, landed>>

PromptFails(op) ==
  /\ phase[op] = "act"
  /\ call[op].method = "agent.prompt"
  /\ \E class \in CallFailure(op) :
       Finish(op, mapPromptError(class, RemoteCodeOf(reply[op])))
  /\ UNCHANGED aside

(* Mutant: whatever source Herdr answers with is passed on.                *)
ReadAnsweredUnchecked(op) ==
  /\ phase[op] = "act"
  /\ reply[op].class = "read"
  /\ Finish(op, "ok")
  /\ UNCHANGED aside

ReadAnswered(op) ==
  /\ phase[op] = "act"
  /\ reply[op].class = "read"
  /\ \/ reply[op].source = request[op].source /\ Finish(op, "ok")
     \/ reply[op].source # request[op].source /\ Finish(op, "READ_FAILED")
  /\ UNCHANGED aside

ReadFails(op) ==
  /\ phase[op] = "act"
  /\ call[op].method = "agent.read"
  /\ \E class \in CallFailure(op) : Finish(op, mapReadError(class))
  /\ UNCHANGED aside

-----------------------------------------------------------------------------
(* The world outside: the operator edits the configuration, agents come,   *)
(* go, move and change status, sessions start and stop.  A request held by *)
(* a server that stops is lost with it.                                    *)

Running(op) == phase[op] \notin {"idle", "done"}

WorldChange ==
  /\ changes < MaxChanges
  /\ changes' = changes + 1
  /\ seen' = [op \in Op |->
       IF Running(op)
       THEN [configs |-> seen[op].configs \cup {config'}, agents |-> seen[op].agents \cup {agents'}]
       ELSE seen[op]]
  /\ UNCHANGED <<phase, request, target, call, reply, answer, typed, landed, listed>>

EditConfig ==
  /\ \E c \in Config \ {config} : config' = c
  /\ UNCHANGED <<session, agents, pending>>
  /\ WorldChange

ChangeAgents(s) ==
  /\ \E list \in AgentList \ {agents[s]} : agents' = [agents EXCEPT ![s] = list]
  /\ UNCHANGED <<config, session, pending>>
  /\ WorldChange

ChangeSession(s) ==
  /\ \E state \in SessionState \ {session[s]} : session' = [session EXCEPT ![s] = state]
  /\ pending' = [op \in Op |-> pending[op] /\ target[op].herdrSession # s]
  /\ UNCHANGED <<config, agents>>
  /\ WorldChange

-----------------------------------------------------------------------------
(* Steps the Gateway process takes by itself: every await ends, because    *)
(* each is bounded by a timer or by the file system.  A semantic provider  *)
(* is not bounded by anything.                                             *)
Gateway(op) ==
  \/ LoadFails(op) \/ ListTargets(op) \/ LoadTarget(op)
  \/ DiscoverFails(op) \/ Discover(op) \/ ValidateFails(op) \/ Validate(op)
  \/ ListFails(op) \/ FailToResolve(op) \/ ReportStatus(op)
  \/ RefuseBlocked(op) \/ SendPrompt(op) \/ SendRead(op) \/ AskProvider(op)
  \/ PromptAccepted(op) \/ PromptFails(op) \/ ReadAnswered(op) \/ ReadFails(op)

Herdr(op) ==
  \/ HerdrLists(op) \/ HerdrTypes(op) \/ HerdrStalls(op) \/ HerdrRejects(op)
  \/ PromptIsLost(op) \/ HerdrReads(op)

Environment == EditConfig \/ \E s \in Session : ChangeAgents(s) \/ ChangeSession(s)

Next ==
  \/ \E op \in Op : (\E r \in Request : Start(op, r)) \/ Gateway(op) \/ Herdr(op) \/ ProviderAnswers(op)
  \/ Environment

Spec == Init /\ [][Next]_vars

FairSpec == Spec /\ \A op \in Op : WF_vars(Gateway(op))

-----------------------------------------------------------------------------
(* Properties.                                                             *)

TypeOK ==
  /\ config \in Config
  /\ session \in [Session -> SessionState]
  /\ agents \in [Session -> AgentList]
  /\ changes \in 0 .. MaxChanges
  /\ phase \in [Op -> Phase]
  /\ request \in [Op -> Request \cup {NoRequest}]
  /\ target \in [Op -> Target \cup {NoTarget}]
  /\ call \in [Op -> Call]
  /\ reply \in [Op -> Reply]
  /\ pending \in [Op -> BOOLEAN]
  /\ answer \in [Op -> Code]
  /\ typed \in [Op -> Nat]
  /\ landed \in [Op -> HerdrAgent \cup {NoAgent}]
  /\ listed \in [Op -> Seq(HerdrAgent)]
  /\ seen \in [Op -> [configs : SUBSET Config, agents : SUBSET [Session -> AgentList]]]

IsSend(op) == request[op].kind = "send"

Refused(op) == phase[op] = "done" /\ answer[op] \notin {"ok", "PROMPT_DELIVERY_UNCERTAIN"}

(* What send answers is true of the prompt: an accepted one was typed      *)
(* exactly once, a refused one was not typed and Herdr no longer holds it. *)
(* Only an uncertain answer leaves the question open (mapPromptError).     *)
AnswersAreHonest ==
  \A op \in Op :
    IsSend(op) =>
      /\ phase[op] = "done" /\ answer[op] = "ok" => typed[op] = 1
      /\ Refused(op) => typed[op] = 0 /\ ~pending[op]

(* No operation types its prompt twice, whatever fails after the prompt    *)
(* left: the Gateway never sends a prompt again (sendPromptOperation).     *)
AtMostOnce == \A op \in Op : typed[op] + (IF pending[op] THEN 1 ELSE 0) <= 1

(* What is known of one operation's prompt at every moment, from which the *)
(* two properties above follow by induction.  A prompt exists only for a   *)
(* send that has its target; an answer that is not uncertain is Herdr's    *)
(* word that it is finished with the prompt (mapPromptError).              *)
Underway == {"discover", "validate", "list", "act", "provide"}

Untouched(op) == typed[op] = 0 /\ ~pending[op]

KnownOf(op) ==
  /\ phase[op] # "idle" => request[op] \in Request
  /\ phase[op] \in Underway \/ pending[op] => target[op] \in Target
  /\ ~IsSend(op) \/ phase[op] \notin {"act", "done"} => Untouched(op)
  /\ typed[op] \in {0, 1} /\ (pending[op] => typed[op] = 0)
  /\ phase[op] = "idle" => call[op] = NoCall
  /\ phase[op] = "provide" => request[op].kind = "semantic"
  /\ request[op].kind = "semantic" => call[op].method # "agent.read"
  /\ phase[op] = "act" => request[op].kind \in {"send", "read"} /\ (IsSend(op) <=> call[op].method = "agent.prompt")
  /\ phase[op] = "act" /\ IsSend(op) =>
       /\ reply[op].class \in {"none", "prompted", "malformed", "error"}
       /\ reply[op].class = "prompted" => typed[op] = 1
       /\ reply[op].class = "error" /\ reply[op].code \notin UncertainRemoteCodes => Untouched(op)
  /\ phase[op] = "act" /\ ~IsSend(op) => reply[op].class # "prompted"
  /\ phase[op] = "done" /\ IsSend(op) =>
       /\ answer[op] = "ok" => typed[op] = 1
       /\ answer[op] \notin {"ok", "PROMPT_DELIVERY_UNCERTAIN"} => Untouched(op)

PromptIsKnown == \A op \in Op : KnownOf(op)

(* A pane is prompted or read only if some configuration and some agents   *)
(* there were since the operation was called made that pane the one match  *)
(* of its alias, and not a blocked one for a prompt.  A pane remembered    *)
(* from an earlier operation, a target mixed from two configurations, or a *)
(* guess between two matches is none of them (resolveTarget).              *)
PaneWasTheTarget ==
  \A op \in Op : call[op].pane # NoPane =>
    \E c \in seen[op].configs, live \in seen[op].agents :
      /\ c \in TargetTable
      /\ c[request[op].alias] # NotConfigured
      /\ LET t == c[request[op].alias]
             list == live[t.herdrSession]
         IN \E i \in DOMAIN list :
              /\ matches(t, list) = {i}
              /\ list[i].paneId = call[op].pane
              /\ IsSend(op) => list[i].agentStatus # "blocked"

(* Between the agent list and the prompt the pane may change hands: Herdr  *)
(* addresses panes, not agents.  That is the only way a prompt can reach   *)
(* something other than the target: if the agent that got it is the agent  *)
(* the operation was shown in that pane, it is the target and was not      *)
(* blocked when it was shown.                                              *)
MisdeliveryNeedsARace ==
  \A op \in Op : typed[op] > 0 =>
    \/ \A i \in DOMAIN listed[op] : listed[op][i] # landed[op]
    \/ /\ isIdentityMatch(target[op], landed[op])
       /\ landed[op].agentStatus # "blocked"

(* Where a pane comes from, from which the two properties above follow by  *)
(* induction: the target was in a configuration, the list was a session's, *)
(* and the pane is that of the one match in the list (sendPromptOperation, *)
(* readOperation).                                                         *)
TracedOf(op) ==
  /\ Running(op) => config \in seen[op].configs /\ agents \in seen[op].agents
  /\ phase[op] \in Underway \/ call[op].pane # NoPane =>
       \E c \in seen[op].configs :
         c \in TargetTable /\ c[request[op].alias] = target[op] /\ target[op] # NotConfigured
  /\ phase[op] = "list" /\ reply[op].class = "agents" =>
       \E live \in seen[op].agents : reply[op].agents = live[target[op].herdrSession]
  /\ phase[op] \notin {"act", "done"} => call[op].pane = NoPane
  /\ call[op].pane # NoPane =>
       /\ \E live \in seen[op].agents : listed[op] = live[target[op].herdrSession]
       /\ listed[op] \in AgentList
       /\ \E i \in DOMAIN listed[op] :
            /\ matches(target[op], listed[op]) = {i}
            /\ listed[op][i].paneId = call[op].pane
            /\ IsSend(op) => listed[op][i].agentStatus # "blocked"
  /\ typed[op] > 0 => call[op].pane # NoPane /\ landed[op].paneId = call[op].pane

PaneIsTraced == \A op \in Op : TracedOf(op)

(* A successful raw read is one Herdr answered with the source asked for;  *)
(* a semantic read never falls back to agent.read.                         *)
ReadsAreWhatWasAsked ==
  [][\A op \in Op :
       /\ request[op].kind = "read" /\ answer[op] = "none" /\ answer'[op] = "ok" =>
            reply[op] = [class |-> "read", source |-> request[op].source]
       /\ request[op].kind = "semantic" => call'[op].method # "agent.read"]_vars

(* Every operation ends, though Herdr may never answer: each await is      *)
(* bounded by a timer.  Only a semantic provider can keep one waiting.     *)
OperationsSettle ==
  \A op \in Op : phase[op] = "config" ~> phase[op] \in {"done", "provide"}

(* Gateway Core keeps the promise of PromptDelivery.                       *)
Outcome(op) ==
  IF ~IsSend(op) \/ phase[op] # "done" THEN "open"
  ELSE IF answer[op] = "ok" THEN "accepted"
  ELSE IF answer[op] = "PROMPT_DELIVERY_UNCERTAIN" THEN "uncertain"
  ELSE "refused"

Delivery == INSTANCE PromptDelivery WITH outcome <- [op \in Op |-> Outcome(op)]

ImplementsPromptDelivery == Delivery!Spec

=============================================================================
