------------------------- MODULE GatewayCoreProofs -------------------------
(***************************************************************************)
(* Proofs about GatewayCore, for every set of operations, sessions,        *)
(* configurations, agent lists and requests.                               *)
(***************************************************************************)
EXTENDS GatewayCore, TLAPS

(* A resolution either names an agent of the list or carries one of the    *)
(* resolver's error codes (resolveTarget).                                 *)
LEMMA ResolutionType ==
  ASSUME NEW t, NEW list \in Seq(HerdrAgent)
  PROVE  LET r == resolveTarget(t, list)
         IN /\ r.ok \in BOOLEAN
            /\ r.ok => \E i \in DOMAIN list :
                         /\ r.agent = list[i]
                         /\ isIdentityMatch(t, list[i])
                         /\ matches(t, list) = {i}
            /\ ~r.ok => r.code \in {"CONFIG_INVALID", "TARGET_NOT_FOUND", "TARGET_AMBIGUOUS"}
<1> DEFINE found == matches(t, list)
<1>1. CASE canonicalAbsolutePath(t.firstmateHome) = NoDirectory \/ found = {} \/ \E i, j \in found : i # j
  BY <1>1 DEF resolveTarget, Unresolved
<1>2. CASE /\ canonicalAbsolutePath(t.firstmateHome) # NoDirectory
           /\ found # {}
           /\ ~ \E i, j \in found : i # j
  <2>1. PICK i \in found : found = {i}
    BY <1>2
  <2>2. (CHOOSE j \in found : TRUE) = i
    BY <2>1
  <2>3. i \in DOMAIN list /\ isIdentityMatch(t, list[i])
    BY <2>1 DEF matches
  <2>4. resolveTarget(t, list) = Resolved(list[i])
    BY <1>2, <2>2 DEF resolveTarget
  <2>5. QED
    BY <2>1, <2>3, <2>4 DEF Resolved
<1>3. QED
  BY <1>1, <1>2

LEMMA TypeInit == Init => TypeOK
BY BoundAssumption DEF Init, TypeOK, Phase, NoCall, Call, Reply, NoReply, NoRequest, Code, NoAgent, NoTarget

(* An answer leaves phase, answer and reply well typed, and so does a move *)
(* to another await (Finish, Advance).                                     *)
LEMMA FinishType ==
  ASSUME NEW op \in Op, NEW code \in Code, TypeOK, Finish(op, code)
  PROVE  phase' \in [Op -> Phase] /\ answer' \in [Op -> Code] /\ reply' \in [Op -> Reply]
BY DEF TypeOK, Finish, Phase, Reply, NoReply

LEMMA AdvanceType ==
  ASSUME NEW op \in Op, NEW next \in Phase, TypeOK, Advance(op, next)
  PROVE  phase' \in [Op -> Phase] /\ answer' \in [Op -> Code]
BY DEF TypeOK, Advance

LEMMA IssueType ==
  ASSUME NEW op \in Op, NEW method \in {"agent.list", "agent.prompt", "agent.read"},
         NEW pane \in Pane \cup {NoPane}, TypeOK, Issue(op, method, pane)
  PROVE  call' \in [Op -> Call] /\ reply' \in [Op -> Reply]
BY DEF TypeOK, Issue, Call, Reply, NoReply

LEMMA AnswerType ==
  ASSUME NEW op \in Op, NEW r \in Reply, TypeOK, Answer(op, r)
  PROVE  reply' \in [Op -> Reply]
BY DEF TypeOK, Answer

(* Steps that only move the operation on (aside), and steps of Herdr's     *)
(* that leave the operation alone (operation).                             *)
LEMMA AsideType ==
  ASSUME TypeOK, UNCHANGED aside,
         phase' \in [Op -> Phase], answer' \in [Op -> Code], reply' \in [Op -> Reply]
  PROVE  TypeOK'
BY DEF TypeOK, aside, world

LEMMA OperationType ==
  ASSUME TypeOK, UNCHANGED operation, reply' \in [Op -> Reply], pending' \in [Op -> BOOLEAN],
         typed' \in [Op -> Nat], landed' \in [Op -> HerdrAgent \cup {NoAgent}]
  PROVE  TypeOK'
BY DEF TypeOK, operation, world

(* Taking the agent list, and the type of the pane it resolves to.         *)
LEMMA TakeListType ==
  ASSUME NEW op \in Op, TypeOK, TakeList(op),
         phase' \in [Op -> Phase], answer' \in [Op -> Code], reply' \in [Op -> Reply],
         call' \in [Op -> Call], pending' \in [Op -> BOOLEAN]
  PROVE  TypeOK'
<1>1. reply[op].agents \in AgentList
  BY DEF TypeOK, TakeList, Reply
<1>2. listed' \in [Op -> Seq(HerdrAgent)]
  BY <1>1, AgentListAssumption DEF TypeOK, TakeList
<1>3. QED
  BY <1>2 DEF TypeOK, TakeList, world

(* What an operation resolves to is one of the agents it was just given.   *)
LEMMA TakenResolution ==
  ASSUME NEW op \in Op, TypeOK, TakeList(op)
  PROVE  /\ Resolution(op).ok \in BOOLEAN
         /\ Resolution(op).ok =>
              \E i \in DOMAIN reply[op].agents :
                /\ Resolution(op).agent = reply[op].agents[i]
                /\ matches(target[op], reply[op].agents) = {i}
                /\ isIdentityMatch(target[op], reply[op].agents[i])
                /\ Resolution(op).agent \in HerdrAgent
         /\ ~Resolution(op).ok =>
              Resolution(op).code \in {"CONFIG_INVALID", "TARGET_NOT_FOUND", "TARGET_AMBIGUOUS"}
<1>1. reply[op].agents \in Seq(HerdrAgent)
  BY AgentListAssumption DEF TypeOK, TakeList, Reply
<1>2. \A i \in DOMAIN reply[op].agents : reply[op].agents[i] \in HerdrAgent
  BY <1>1
<1>3. QED
  BY <1>1, <1>2, ResolutionType DEF Resolution

LEMMA TypeNext == TypeOK /\ PromptIsKnown /\ [Next]_vars => TypeOK'
<1> SUFFICES ASSUME TypeOK, PromptIsKnown, [Next]_vars PROVE TypeOK'
  OBVIOUS
<1>1. ASSUME NEW op \in Op, NEW r \in Request, Start(op, r) PROVE TypeOK'
  <2>1. \/ Advance(op, "config") /\ UNCHANGED reply
        \/ \E code \in Code : Finish(op, code)
    BY <1>1 DEF Start, Code
  <2>2. phase' \in [Op -> Phase] /\ answer' \in [Op -> Code] /\ reply' \in [Op -> Reply]
    BY <2>1, FinishType, AdvanceType DEF TypeOK, Phase
  <2>3. request' \in [Op -> Request \cup {NoRequest}]
    BY <1>1 DEF Start, TypeOK
  <2>4. seen' \in [Op -> [configs : SUBSET Config, agents : SUBSET [Session -> AgentList]]]
    BY <1>1 DEF Start, TypeOK
  <2>5. QED
    BY <1>1, <2>2, <2>3, <2>4 DEF Start, TypeOK, world
<1>2. ASSUME NEW op \in Op, LoadFails(op) PROVE TypeOK'
  <2>1. \E code \in Code : Finish(op, code)
    BY <1>2 DEF LoadFails, Code
  <2>2. QED
    BY <1>2, <2>1, FinishType, AsideType DEF LoadFails
<1>3. ASSUME NEW op \in Op, ListTargets(op) PROVE TypeOK'
  <2>1. \E code \in Code : Finish(op, code)
    BY <1>3 DEF ListTargets, Code
  <2>2. QED
    BY <1>3, <2>1, FinishType, AsideType DEF ListTargets
<1>4. ASSUME NEW op \in Op, LoadTarget(op) PROVE TypeOK'
  <2>1. \/ Advance(op, "discover") /\ UNCHANGED reply
        \/ \E code \in Code : Finish(op, code)
    BY <1>4 DEF LoadTarget, Code
  <2>2. phase' \in [Op -> Phase] /\ answer' \in [Op -> Code] /\ reply' \in [Op -> Reply]
    BY <2>1, FinishType, AdvanceType DEF TypeOK, Phase
  <2>3. request[op] \in Request => config[request[op].alias] \in Target \cup {NotConfigured}
    BY <1>4, RequestAssumption DEF LoadTarget, TargetTable
  <2>4. request[op] \in Request
    BY <1>4 DEF LoadTarget, PromptIsKnown, KnownOf
  <2>5. target' \in [Op -> Target \cup {NoTarget}]
    BY <1>4, <2>3, <2>4 DEF LoadTarget, TypeOK
  <2>6. QED
    BY <1>4, <2>2, <2>5 DEF LoadTarget, TypeOK, world
<1>5. ASSUME NEW op \in Op, DiscoverFails(op) PROVE TypeOK'
  <2>1. \E code \in Code : Finish(op, code)
    BY <1>5 DEF DiscoverFails, Code
  <2>2. QED
    BY <1>5, <2>1, FinishType, AsideType DEF DiscoverFails
<1>6. ASSUME NEW op \in Op, Discover(op) PROVE TypeOK'
  <2>1. \/ Advance(op, "validate") /\ UNCHANGED reply
        \/ \E code \in Code : Finish(op, code)
    BY <1>6 DEF Discover, Code, getSessionFromDiscovery
  <2>2. QED
    BY <1>6, <2>1, FinishType, AdvanceType, AsideType DEF Discover, Phase, TypeOK
<1>7. ASSUME NEW op \in Op, ValidateFails(op) PROVE TypeOK'
  <2>1. \E code \in Code : Finish(op, code)
    BY <1>7 DEF ValidateFails, Code
  <2>2. QED
    BY <1>7, <2>1, FinishType, AsideType DEF ValidateFails
<1>8. ASSUME NEW op \in Op, Validate(op) PROVE TypeOK'
  BY <1>8, AdvanceType, IssueType DEF Validate, TypeOK, Phase, world
<1>9. ASSUME NEW op \in Op, ListFails(op) PROVE TypeOK'
  <2>1. \E code \in Code : Finish(op, code)
    BY <1>9 DEF ListFails, Code, mapHerdrError
  <2>2. QED
    BY <1>9, <2>1, FinishType, AsideType DEF ListFails
<1>10. ASSUME NEW op \in Op, FailToResolve(op) PROVE TypeOK'
  <2>1. \E code \in Code : Finish(op, code)
    BY <1>10, TakenResolution DEF FailToResolve, Code
  <2>2. QED
    BY <1>10, <2>1, FinishType, TakeListType DEF FailToResolve, TypeOK
<1>11. ASSUME NEW op \in Op, ReportStatus(op) PROVE TypeOK'
  <2>1. \E code \in Code : Finish(op, code)
    BY <1>11 DEF ReportStatus, Code
  <2>2. QED
    BY <1>11, <2>1, FinishType, TakeListType DEF ReportStatus, TypeOK
<1>12. ASSUME NEW op \in Op, RefuseBlocked(op) PROVE TypeOK'
  <2>1. \E code \in Code : Finish(op, code)
    BY <1>12 DEF RefuseBlocked, Code
  <2>2. QED
    BY <1>12, <2>1, FinishType, TakeListType DEF RefuseBlocked, TypeOK
<1>13. ASSUME NEW op \in Op, SendPrompt(op) PROVE TypeOK'
  <2>1. Resolution(op).agent.paneId \in Pane
    BY <1>13, TakenResolution DEF SendPrompt, HerdrAgent
  <2>2. pending' \in [Op -> BOOLEAN]
    BY <1>13 DEF SendPrompt, TypeOK
  <2>3. CASE Resolution(op).agent.paneId = EmptyPane
    <3>1. \E code \in Code : Finish(op, code)
      BY <1>13, <2>3 DEF SendPrompt, mapPromptError, Code
    <3>2. UNCHANGED call
      BY <1>13, <2>3 DEF SendPrompt
    <3>3. QED
      BY <1>13, <2>2, <3>1, <3>2, FinishType, TakeListType DEF SendPrompt, TypeOK
  <2>4. CASE Resolution(op).agent.paneId # EmptyPane
    <3>1. Advance(op, "act") /\ Issue(op, "agent.prompt", Resolution(op).agent.paneId)
      BY <1>13, <2>4 DEF SendPrompt
    <3>2. QED
      BY <1>13, <2>1, <2>2, <3>1, AdvanceType, IssueType, TakeListType DEF SendPrompt, Phase
  <2>5. QED
    BY <2>3, <2>4
<1>14. ASSUME NEW op \in Op, SendRead(op) PROVE TypeOK'
  <2>1. Resolution(op).agent.paneId \in Pane
    BY <1>14, TakenResolution DEF SendRead, HerdrAgent
  <2>2. pending' \in [Op -> BOOLEAN]
    BY <1>14 DEF SendRead, TypeOK
  <2>3. CASE Resolution(op).agent.paneId = EmptyPane
    <3>1. \E code \in Code : Finish(op, code)
      BY <1>14, <2>3 DEF SendRead, mapReadError, Code
    <3>2. UNCHANGED call
      BY <1>14, <2>3 DEF SendRead
    <3>3. QED
      BY <1>14, <2>2, <3>1, <3>2, FinishType, TakeListType DEF SendRead, TypeOK
  <2>4. CASE Resolution(op).agent.paneId # EmptyPane
    <3>1. Advance(op, "act") /\ Issue(op, "agent.read", Resolution(op).agent.paneId)
      BY <1>14, <2>4 DEF SendRead
    <3>2. QED
      BY <1>14, <2>1, <2>2, <3>1, AdvanceType, IssueType, TakeListType DEF SendRead, Phase
  <2>5. QED
    BY <2>3, <2>4
<1>15. ASSUME NEW op \in Op, AskProvider(op) PROVE TypeOK'
  BY <1>15, AdvanceType, TakeListType DEF AskProvider, TypeOK, Phase
<1>16. ASSUME NEW op \in Op, PromptAccepted(op) PROVE TypeOK'
  <2>1. \E code \in Code : Finish(op, code)
    BY <1>16 DEF PromptAccepted, Code
  <2>2. QED
    BY <1>16, <2>1, FinishType, AsideType DEF PromptAccepted
<1>17. ASSUME NEW op \in Op, PromptFails(op) PROVE TypeOK'
  <2>1. \E code \in Code : Finish(op, code)
    BY <1>17 DEF PromptFails, Code, mapPromptError
  <2>2. QED
    BY <1>17, <2>1, FinishType, AsideType DEF PromptFails
<1>18. ASSUME NEW op \in Op, ReadAnswered(op) PROVE TypeOK'
  <2>1. \E code \in Code : Finish(op, code)
    BY <1>18 DEF ReadAnswered, Code
  <2>2. QED
    BY <1>18, <2>1, FinishType, AsideType DEF ReadAnswered
<1>19. ASSUME NEW op \in Op, ReadFails(op) PROVE TypeOK'
  <2>1. \E code \in Code : Finish(op, code)
    BY <1>19 DEF ReadFails, Code, mapReadError
  <2>2. QED
    BY <1>19, <2>1, FinishType, AsideType DEF ReadFails
<1>20. ASSUME NEW op \in Op, ProviderAnswers(op) PROVE TypeOK'
  <2>1. \E code \in Code : Finish(op, code)
    BY <1>20 DEF ProviderAnswers, Code
  <2>2. QED
    BY <1>20, <2>1, FinishType, AsideType DEF ProviderAnswers
<1>21. ASSUME NEW op \in Op, HerdrLists(op) PROVE TypeOK'
  <2>0. agents[target[op].herdrSession] \in AgentList
    BY <1>21 DEF HerdrLists, Awaiting, PromptIsKnown, KnownOf, Underway, TypeOK, Target, TargetConfig
  <2>1. \E r \in Reply : Answer(op, r)
    BY <1>21, <2>0 DEF HerdrLists, Reply, NoSuccess, ErrorReply, Malformed
  <2>2. reply' \in [Op -> Reply]
    BY <2>1, AnswerType DEF TypeOK
  <2>3. QED
    BY <1>21, <2>2, OperationType DEF HerdrLists, TypeOK
<1>22. ASSUME NEW op \in Op, HerdrTypes(op) PROVE TypeOK'
  <2>1. \/ UNCHANGED reply
        \/ \E r \in Reply : Answer(op, r)
    BY <1>22, HerdrIsTruthful DEF HerdrTypes, Reply, ErrorReply, Malformed
  <2>2. reply' \in [Op -> Reply]
    BY <2>1, AnswerType DEF TypeOK
  <2>3. agents[target[op].herdrSession] \in AgentList
    BY <1>22 DEF HerdrTypes, PromptIsKnown, KnownOf, TypeOK, Target, TargetConfig
  <2>4. landed' \in [Op -> HerdrAgent \cup {NoAgent}]
    BY <1>22, <2>3, AgentListAssumption DEF HerdrTypes, TypeOK
  <2>5. typed' \in [Op -> Nat] /\ pending' \in [Op -> BOOLEAN]
    BY <1>22 DEF HerdrTypes, TypeOK
  <2>6. QED
    BY <1>22, <2>2, <2>4, <2>5, OperationType DEF HerdrTypes
<1>23. ASSUME NEW op \in Op, HerdrStalls(op) PROVE TypeOK'
  <2>1. \E r \in Reply : Answer(op, r)
    BY <1>23, HerdrIsTruthful DEF HerdrStalls, Reply, NoSuccess, ErrorReply, Malformed, TypeOK
  <2>2. reply' \in [Op -> Reply]
    BY <2>1, AnswerType DEF TypeOK
  <2>3. QED
    BY <1>23, <2>2, OperationType DEF HerdrStalls, TypeOK
<1>24. ASSUME NEW op \in Op, HerdrRejects(op) PROVE TypeOK'
  <2>1. \/ UNCHANGED reply
        \/ \E r \in Reply : Answer(op, r)
    BY <1>24, HerdrIsTruthful DEF HerdrRejects, Reply, NoSuccess, ErrorReply, Malformed, TypeOK
  <2>2. reply' \in [Op -> Reply]
    BY <2>1, AnswerType DEF TypeOK
  <2>3. QED
    BY <1>24, <2>2, OperationType DEF HerdrRejects, TypeOK
<1>25. ASSUME NEW op \in Op, PromptIsLost(op) PROVE TypeOK'
  BY <1>25, OperationType DEF PromptIsLost, TypeOK
<1>26. ASSUME NEW op \in Op, HerdrReads(op) PROVE TypeOK'
  <2>1. \E r \in Reply : Answer(op, r)
    BY <1>26, HerdrIsTruthful DEF HerdrReads, Reply, NoSuccess, ErrorReply, Malformed, TypeOK
  <2>2. reply' \in [Op -> Reply]
    BY <2>1, AnswerType DEF TypeOK
  <2>3. QED
    BY <1>26, <2>2, OperationType DEF HerdrReads, TypeOK
<1>27. CASE EditConfig
  <2>1. config' \in Config
    BY <1>27 DEF EditConfig
  <2>2. seen' \in [Op -> [configs : SUBSET Config, agents : SUBSET [Session -> AgentList]]]
    BY <1>27, <2>1 DEF EditConfig, WorldChange, TypeOK
  <2>3. changes' \in 0 .. MaxChanges
    BY <1>27, BoundAssumption DEF EditConfig, WorldChange, TypeOK
  <2>4. QED
    BY <1>27, <2>1, <2>2, <2>3 DEF EditConfig, WorldChange, TypeOK
<1>28. ASSUME NEW s \in Session, ChangeAgents(s) PROVE TypeOK'
  <2>1. agents' \in [Session -> AgentList]
    BY <1>28 DEF ChangeAgents, TypeOK
  <2>2. seen' \in [Op -> [configs : SUBSET Config, agents : SUBSET [Session -> AgentList]]]
    BY <1>28, <2>1 DEF ChangeAgents, WorldChange, TypeOK
  <2>3. changes' \in 0 .. MaxChanges
    BY <1>28, BoundAssumption DEF ChangeAgents, WorldChange, TypeOK
  <2>4. QED
    BY <1>28, <2>1, <2>2, <2>3 DEF ChangeAgents, WorldChange, TypeOK
<1>29. ASSUME NEW s \in Session, ChangeSession(s) PROVE TypeOK'
  <2>1. session' \in [Session -> SessionState] /\ pending' \in [Op -> BOOLEAN]
    BY <1>29 DEF ChangeSession, TypeOK
  <2>2. seen' \in [Op -> [configs : SUBSET Config, agents : SUBSET [Session -> AgentList]]]
    BY <1>29 DEF ChangeSession, WorldChange, TypeOK
  <2>3. changes' \in 0 .. MaxChanges
    BY <1>29, BoundAssumption DEF ChangeSession, WorldChange, TypeOK
  <2>4. QED
    BY <1>29, <2>1, <2>2, <2>3 DEF ChangeSession, WorldChange, TypeOK
<1>30. CASE UNCHANGED vars
  BY <1>30 DEF vars, TypeOK
<1>31. QED
  BY <1>1, <1>2, <1>3, <1>4, <1>5, <1>6, <1>7, <1>8, <1>9, <1>10, <1>11, <1>12, <1>13, <1>14, <1>15, <1>16, <1>17, <1>18, <1>19, <1>20, <1>21, <1>22, <1>23, <1>24, <1>25, <1>26, <1>27, <1>28, <1>29, <1>30 DEF Next, Gateway, Herdr, Environment

(* The step of one operation: the Gateway's, Herdr's or the caller's.      *)
Step(op) == (\E r \in Request : Start(op, r)) \/ Gateway(op) \/ Herdr(op) \/ ProviderAnswers(op)

LEMMA KnownInit == Init => PromptIsKnown
BY DEF Init, PromptIsKnown, KnownOf, IsSend, NoRequest, Underway, Untouched, NoReply, NoCall

(* An operation's own steps keep what is known of its prompt.              *)
LEMMA KnownStep ==
  ASSUME NEW op \in Op, TypeOK, KnownOf(op), Step(op)
  PROVE  KnownOf(op)'
<1> USE DEF TypeOK, KnownOf, IsSend, Underway, Untouched, NoReply, NoCall
<1>1. ASSUME NEW r \in Request, Start(op, r) PROVE KnownOf(op)'
  BY <1>1, RequestAssumption DEF Start, Finish, Advance
<1>2. ASSUME LoadFails(op) PROVE KnownOf(op)'
  BY <1>2 DEF LoadFails, Finish, aside
<1>3. ASSUME ListTargets(op) PROVE KnownOf(op)'
  BY <1>3 DEF ListTargets, Finish, aside
<1>4. ASSUME LoadTarget(op) PROVE KnownOf(op)'
  <2>1. request[op] \in Request
    BY <1>4 DEF LoadTarget
  <2>2. config[request[op].alias] \in Target \cup {NotConfigured}
    BY <1>4, <2>1, RequestAssumption DEF LoadTarget, TargetTable
  <2>3. QED
    BY <1>4, <2>1, <2>2 DEF LoadTarget, Finish, Advance
<1>5. ASSUME DiscoverFails(op) PROVE KnownOf(op)'
  BY <1>5 DEF DiscoverFails, Finish, aside
<1>6. ASSUME Discover(op) PROVE KnownOf(op)'
  BY <1>6 DEF Discover, Finish, Advance, aside
<1>7. ASSUME ValidateFails(op) PROVE KnownOf(op)'
  BY <1>7 DEF ValidateFails, Finish, aside
<1>8. ASSUME Validate(op) PROVE KnownOf(op)'
  BY <1>8 DEF Validate, Advance, Issue
<1>9. ASSUME ListFails(op) PROVE KnownOf(op)'
  BY <1>9 DEF ListFails, mapHerdrError, Finish, aside
<1>10. ASSUME FailToResolve(op) PROVE KnownOf(op)'
  BY <1>10, TakenResolution DEF FailToResolve, TakeList, Finish
<1>11. ASSUME ReportStatus(op) PROVE KnownOf(op)'
  BY <1>11 DEF ReportStatus, TakeList, Finish
<1>12. ASSUME RefuseBlocked(op) PROVE KnownOf(op)'
  BY <1>12 DEF RefuseBlocked, TakeList, Finish
<1>13. ASSUME SendPrompt(op) PROVE KnownOf(op)'
  BY <1>13 DEF SendPrompt, TakeList, Finish, Advance, Issue, mapPromptError
<1>14. ASSUME SendRead(op) PROVE KnownOf(op)'
  BY <1>14 DEF SendRead, TakeList, Finish, Advance, Issue
<1>15. ASSUME AskProvider(op) PROVE KnownOf(op)'
  BY <1>15 DEF AskProvider, TakeList, Advance
<1>16. ASSUME PromptAccepted(op) PROVE KnownOf(op)'
  BY <1>16 DEF PromptAccepted, Finish, aside
<1>17. ASSUME PromptFails(op) PROVE KnownOf(op)'
  BY <1>17 DEF PromptFails, Finish, aside, CallFailure, RemoteCodeOf, mapPromptError, BlockedRemoteCodes, UncertainRemoteCodes
<1>18. ASSUME ReadAnswered(op) PROVE KnownOf(op)'
  BY <1>18 DEF ReadAnswered, Finish, aside
<1>19. ASSUME ReadFails(op) PROVE KnownOf(op)'
  BY <1>19 DEF ReadFails, Finish, aside
<1>20. ASSUME ProviderAnswers(op) PROVE KnownOf(op)'
  BY <1>20 DEF ProviderAnswers, Finish, aside
<1>21. ASSUME HerdrLists(op) PROVE KnownOf(op)'
  BY <1>21 DEF HerdrLists, operation, Awaiting, Answer, NoSuccess, Malformed, ErrorReply
<1>22. ASSUME HerdrTypes(op) PROVE KnownOf(op)'
  BY <1>22, HerdrIsTruthful DEF HerdrTypes, operation, Awaiting, Answer, Malformed, ErrorReply
<1>23. ASSUME HerdrStalls(op) PROVE KnownOf(op)'
  BY <1>23, HerdrIsTruthful DEF HerdrStalls, operation, Awaiting, Answer, Malformed, ErrorReply
<1>24. ASSUME HerdrRejects(op) PROVE KnownOf(op)'
  BY <1>24 DEF HerdrRejects, operation, Awaiting, Answer, NoSuccess, Malformed, ErrorReply
<1>25. ASSUME PromptIsLost(op) PROVE KnownOf(op)'
  BY <1>25 DEF PromptIsLost, operation
<1>26. ASSUME HerdrReads(op) PROVE KnownOf(op)'
  BY <1>26 DEF HerdrReads, operation, Awaiting, Answer, NoSuccess, Malformed, ErrorReply
<1>27. QED
  BY <1>1, <1>2, <1>3, <1>4, <1>5, <1>6, <1>7, <1>8, <1>9, <1>10, <1>11, <1>12, <1>13, <1>14, <1>15, <1>16, <1>17, <1>18, <1>19, <1>20, <1>21, <1>22, <1>23, <1>24, <1>25, <1>26 DEF Step, Gateway, Herdr

(* What KnownOf(op) speaks of; no other operation's step touches it.       *)
Own(op) ==
  <<phase[op], request[op], target[op], call[op], reply[op], pending[op], answer[op], typed[op]>>

LEMMA OthersStep ==
  ASSUME NEW op \in Op, NEW other \in Op \ {op}, TypeOK, Step(op)
  PROVE  UNCHANGED Own(other)
<1> USE DEF TypeOK, Own
<1>1. ASSUME NEW r \in Request, Start(op, r) PROVE UNCHANGED Own(other)
  BY <1>1 DEF Start, Finish, Advance
<1>2. ASSUME LoadFails(op) PROVE UNCHANGED Own(other)
  BY <1>2 DEF LoadFails, Finish, aside
<1>3. ASSUME ListTargets(op) PROVE UNCHANGED Own(other)
  BY <1>3 DEF ListTargets, Finish, aside
<1>4. ASSUME LoadTarget(op) PROVE UNCHANGED Own(other)
  BY <1>4 DEF LoadTarget, Finish, Advance
<1>5. ASSUME DiscoverFails(op) PROVE UNCHANGED Own(other)
  BY <1>5 DEF DiscoverFails, Finish, aside
<1>6. ASSUME Discover(op) PROVE UNCHANGED Own(other)
  BY <1>6 DEF Discover, Finish, Advance, aside
<1>7. ASSUME ValidateFails(op) PROVE UNCHANGED Own(other)
  BY <1>7 DEF ValidateFails, Finish, aside
<1>8. ASSUME Validate(op) PROVE UNCHANGED Own(other)
  BY <1>8 DEF Validate, Advance, Issue
<1>9. ASSUME ListFails(op) PROVE UNCHANGED Own(other)
  BY <1>9 DEF ListFails, mapHerdrError, Finish, aside
<1>10. ASSUME FailToResolve(op) PROVE UNCHANGED Own(other)
  BY <1>10 DEF FailToResolve, TakeList, Finish
<1>11. ASSUME ReportStatus(op) PROVE UNCHANGED Own(other)
  BY <1>11 DEF ReportStatus, TakeList, Finish
<1>12. ASSUME RefuseBlocked(op) PROVE UNCHANGED Own(other)
  BY <1>12 DEF RefuseBlocked, TakeList, Finish
<1>13. ASSUME SendPrompt(op) PROVE UNCHANGED Own(other)
  BY <1>13 DEF SendPrompt, TakeList, Finish, Advance, Issue
<1>14. ASSUME SendRead(op) PROVE UNCHANGED Own(other)
  BY <1>14 DEF SendRead, TakeList, Finish, Advance, Issue
<1>15. ASSUME AskProvider(op) PROVE UNCHANGED Own(other)
  BY <1>15 DEF AskProvider, TakeList, Advance
<1>16. ASSUME PromptAccepted(op) PROVE UNCHANGED Own(other)
  BY <1>16 DEF PromptAccepted, Finish, aside
<1>17. ASSUME PromptFails(op) PROVE UNCHANGED Own(other)
  BY <1>17 DEF PromptFails, Finish, aside
<1>18. ASSUME ReadAnswered(op) PROVE UNCHANGED Own(other)
  BY <1>18 DEF ReadAnswered, Finish, aside
<1>19. ASSUME ReadFails(op) PROVE UNCHANGED Own(other)
  BY <1>19 DEF ReadFails, Finish, aside
<1>20. ASSUME ProviderAnswers(op) PROVE UNCHANGED Own(other)
  BY <1>20 DEF ProviderAnswers, Finish, aside
<1>21. ASSUME HerdrLists(op) PROVE UNCHANGED Own(other)
  BY <1>21 DEF HerdrLists, operation, Answer
<1>22. ASSUME HerdrTypes(op) PROVE UNCHANGED Own(other)
  BY <1>22 DEF HerdrTypes, operation, Answer
<1>23. ASSUME HerdrStalls(op) PROVE UNCHANGED Own(other)
  BY <1>23 DEF HerdrStalls, operation, Answer
<1>24. ASSUME HerdrRejects(op) PROVE UNCHANGED Own(other)
  BY <1>24 DEF HerdrRejects, operation, Answer
<1>25. ASSUME PromptIsLost(op) PROVE UNCHANGED Own(other)
  BY <1>25 DEF PromptIsLost, operation
<1>26. ASSUME HerdrReads(op) PROVE UNCHANGED Own(other)
  BY <1>26 DEF HerdrReads, operation, Answer
<1>27. QED
  BY <1>1, <1>2, <1>3, <1>4, <1>5, <1>6, <1>7, <1>8, <1>9, <1>10, <1>11, <1>12, <1>13, <1>14, <1>15, <1>16, <1>17, <1>18, <1>19, <1>20, <1>21, <1>22, <1>23, <1>24, <1>25, <1>26 DEF Step, Gateway, Herdr

LEMMA KnownNext == TypeOK /\ PromptIsKnown /\ [Next]_vars => PromptIsKnown'
<1> SUFFICES ASSUME TypeOK, PromptIsKnown, [Next]_vars, NEW op \in Op PROVE KnownOf(op)'
  BY DEF PromptIsKnown
<1>1. KnownOf(op)
  BY DEF PromptIsKnown
<1>2. CASE Step(op)
  BY <1>1, <1>2, KnownStep
<1>3. ASSUME NEW other \in Op \ {op}, Step(other) PROVE KnownOf(op)'
  <2>1. UNCHANGED Own(op)
    BY <1>3, OthersStep
  <2>2. QED
    BY <1>1, <2>1 DEF Own, KnownOf, IsSend, Untouched
<1>4. CASE Environment
  <2>1. /\ UNCHANGED <<phase, request, target, call, reply, answer, typed>>
        /\ pending'[op] => pending[op]
    BY <1>4 DEF Environment, EditConfig, ChangeAgents, ChangeSession, WorldChange, TypeOK
  <2>2. QED
    BY <1>1, <2>1 DEF KnownOf, IsSend, Untouched
<1>5. CASE UNCHANGED vars
  BY <1>1, <1>5 DEF vars, KnownOf, IsSend, Untouched
<1>6. QED
  BY <1>2, <1>3, <1>4, <1>5 DEF Next, Step

(* Every variable keeps its type, and what is known of every prompt holds  *)
(* in every reachable state.                                               *)
THEOREM Invariance == Spec => [](TypeOK /\ PromptIsKnown)
<1>1. Init => TypeOK /\ PromptIsKnown
  BY TypeInit, KnownInit
<1>2. TypeOK /\ PromptIsKnown /\ [Next]_vars => (TypeOK /\ PromptIsKnown)'
  BY TypeNext, KnownNext
<1>3. QED
  BY <1>1, <1>2, PTL DEF Spec

(* Every variable of Gateway Core keeps its type: a configuration, reply,  *)
(* target or agent list is always one the code can hold.                   *)
THEOREM TypeCorrectness == Spec => []TypeOK
  BY Invariance, PTL

(* What send answers is true of the prompt, whatever Herdr, the network    *)
(* and the other operations do (mapPromptError).                           *)
THEOREM Honesty == Spec => []AnswersAreHonest
<1>1. PromptIsKnown => AnswersAreHonest
  BY DEF PromptIsKnown, KnownOf, AnswersAreHonest, Refused, Untouched
<1>2. QED
  BY <1>1, Invariance, PTL

(* No prompt is typed twice (sendPromptOperation).                         *)
THEOREM NoDuplicates == Spec => []AtMostOnce
<1>1. PromptIsKnown => AtMostOnce
  BY DEF PromptIsKnown, KnownOf, AtMostOnce
<1>2. QED
  BY <1>1, Invariance, PTL

(* Nothing but Herdr's answer makes a raw read succeed.                    *)
LEMMA SuccessfulRead ==
  ASSUME NEW op \in Op, TypeOK, KnownOf(op), Step(op),
         request[op].kind = "read", answer[op] = "none", answer'[op] = "ok"
  PROVE  ReadAnswered(op)
<1> USE DEF TypeOK, Finish, Advance
<1>1. ASSUME NEW r \in Request, Start(op, r) PROVE FALSE
  BY <1>1 DEF Start
<1>2. ~(LoadFails(op) \/ ListTargets(op) \/ LoadTarget(op) \/ DiscoverFails(op))
  BY DEF LoadFails, ListTargets, LoadTarget, DiscoverFails
<1>3. ~(Discover(op) \/ ValidateFails(op) \/ Validate(op) \/ ListFails(op))
  BY DEF Discover, ValidateFails, Validate, ListFails, mapHerdrError
<1>4. ~FailToResolve(op)
  BY TakenResolution DEF FailToResolve
<1>5. ~(ReportStatus(op) \/ RefuseBlocked(op) \/ SendPrompt(op) \/ SendRead(op) \/ AskProvider(op))
  BY DEF ReportStatus, RefuseBlocked, SendPrompt, SendRead, AskProvider, mapReadError
<1>6. ~PromptAccepted(op)
  BY DEF PromptAccepted, KnownOf, IsSend
<1>7. ~PromptFails(op)
  BY DEF PromptFails, mapPromptError
<1>8. ~ReadFails(op)
  BY DEF ReadFails, mapReadError
<1>9. ~ProviderAnswers(op)
  BY DEF ProviderAnswers, KnownOf
<1>10. ~Herdr(op)
  BY DEF Herdr, HerdrLists, HerdrTypes, HerdrStalls, HerdrRejects, PromptIsLost, HerdrReads, operation
<1>11. QED
  BY <1>1, <1>2, <1>3, <1>4, <1>5, <1>6, <1>7, <1>8, <1>9, <1>10 DEF Step, Gateway

LEMMA RequestOrCall ==
  ASSUME NEW op \in Op, Step(op)
  PROVE  UNCHANGED request \/ UNCHANGED call
<1>1. ASSUME NEW r \in Request, Start(op, r) PROVE UNCHANGED call
  BY <1>1 DEF Start
<1>2. Gateway(op) => UNCHANGED request
  BY DEF Gateway, LoadFails, ListTargets, LoadTarget, DiscoverFails, Discover, ValidateFails,
       Validate, ListFails, FailToResolve, ReportStatus, RefuseBlocked, SendPrompt, SendRead,
       AskProvider, PromptAccepted, PromptFails, ReadAnswered, ReadFails, TakeList, aside
<1>3. Herdr(op) \/ ProviderAnswers(op) => UNCHANGED request
  BY DEF Herdr, HerdrLists, HerdrTypes, HerdrStalls, HerdrRejects, PromptIsLost, HerdrReads,
       ProviderAnswers, operation, aside
<1>4. QED
  BY <1>1, <1>2, <1>3 DEF Step

(* A raw read succeeds only with the source asked for, and a semantic one  *)
(* never turns into an agent.read (readOperation, readSemantic).           *)
THEOREM NoSubstitute == Spec => ReadsAreWhatWasAsked
<1> DEFINE Kept(op) ==
      /\ request[op].kind = "read" /\ answer[op] = "none" /\ answer'[op] = "ok" =>
           reply[op] = [class |-> "read", source |-> request[op].source]
      /\ request[op].kind = "semantic" => call'[op].method # "agent.read"
<1>1. TypeOK /\ PromptIsKnown /\ PromptIsKnown' /\ [Next]_vars => \A op \in Op : Kept(op)
  <2> SUFFICES ASSUME TypeOK, PromptIsKnown, PromptIsKnown', [Next]_vars, NEW op \in Op
               PROVE  Kept(op)
    OBVIOUS
  <2>1. KnownOf(op) /\ KnownOf(op)'
    BY DEF PromptIsKnown
  <2>2. CASE UNCHANGED <<answer[op], request[op], call[op]>>
    BY <2>1, <2>2 DEF KnownOf
  <2>3. CASE Step(op)
    <3>1. ASSUME request[op].kind = "read", answer[op] = "none", answer'[op] = "ok"
          PROVE  reply[op] = [class |-> "read", source |-> request[op].source]
      <4>1. ReadAnswered(op)
        BY <2>1, <2>3, <3>1, SuccessfulRead
      <4>2. reply[op].class = "read" /\ reply[op].source = request[op].source
        BY <3>1, <4>1 DEF ReadAnswered, Finish, TypeOK
      <4>3. QED
        BY <4>2 DEF TypeOK, Reply
    <3>2. request[op].kind = "semantic" => call'[op].method # "agent.read"
      BY <2>1, <2>3, RequestOrCall DEF KnownOf
    <3>3. QED
      BY <3>1, <3>2
  <2>4. ASSUME NEW other \in Op \ {op}, Step(other) PROVE Kept(op)
    BY <2>2, <2>4, OthersStep DEF Own
  <2>5. CASE Environment \/ UNCHANGED vars
    BY <2>2, <2>5 DEF Environment, EditConfig, ChangeAgents, ChangeSession, WorldChange, vars
  <2>6. QED
    BY <2>3, <2>4, <2>5 DEF Next, Step
<1>2. QED
  BY <1>1, Invariance, PTL DEF Spec, ReadsAreWhatWasAsked

(* Apart from Herdr typing the prompt, a step types nothing, and it leaves *)
(* an operation that is done as it is.                                     *)
LEMMA QuietStep ==
  ASSUME NEW op \in Op, Step(op), ~HerdrTypes(op)
  PROVE  /\ UNCHANGED typed
         /\ phase[op] # "done" \/ UNCHANGED <<phase, answer, request>>
<1>1. ASSUME NEW r \in Request, Start(op, r) PROVE UNCHANGED typed /\ phase[op] # "done"
  BY <1>1 DEF Start
<1>2. ASSUME Gateway(op) PROVE UNCHANGED typed /\ phase[op] # "done"
  BY <1>2 DEF Gateway, LoadFails, ListTargets, LoadTarget, DiscoverFails, Discover, ValidateFails,
       Validate, ListFails, FailToResolve, ReportStatus, RefuseBlocked, SendPrompt, SendRead,
       AskProvider, PromptAccepted, PromptFails, ReadAnswered, ReadFails, TakeList, aside
<1>3. ASSUME Herdr(op) PROVE UNCHANGED <<typed, phase, answer, request>>
  BY <1>3 DEF Herdr, HerdrLists, HerdrStalls, HerdrRejects, PromptIsLost, HerdrReads, operation
<1>4. ASSUME ProviderAnswers(op) PROVE UNCHANGED typed /\ phase[op] # "done"
  BY <1>4 DEF ProviderAnswers, aside
<1>5. QED
  BY <1>1, <1>2, <1>3, <1>4 DEF Step

(* The caller's view of an operation in PromptDelivery.                    *)
LEMMA RefinementStep ==
  TypeOK /\ PromptIsKnown /\ PromptIsKnown' /\ [Next]_vars => [Delivery!Next]_(Delivery!vars)
<1> SUFFICES ASSUME TypeOK, PromptIsKnown, PromptIsKnown', [Next]_vars
             PROVE  [Delivery!Next]_(Delivery!vars)
  OBVIOUS
<1> DEFINE outcome == [op \in Op |-> Outcome(op)]
<1>1. ASSUME NEW op \in Op, Step(op) PROVE Delivery!Next \/ UNCHANGED <<outcome, typed>>
  <2>1. \A other \in Op \ {op} : Outcome(other)' = Outcome(other)
    BY <1>1, OthersStep DEF Own, Outcome, IsSend
  <2>2. CASE HerdrTypes(op)
    <3>1. pending[op] /\ UNCHANGED <<phase, answer, request>>
      BY <2>2 DEF HerdrTypes, operation
    <3>2. typed[op] = 0 /\ typed' = [typed EXCEPT ![op] = 1]
      <4>1. typed[op] = 0
        BY <3>1 DEF PromptIsKnown, KnownOf
      <4>2. QED
        BY <2>2, <4>1 DEF HerdrTypes
    <3>3. Outcome(op) \in {"open", "uncertain"}
      BY <3>1, <3>2 DEF PromptIsKnown, KnownOf, Outcome, Untouched
    <3>4. outcome' = outcome
      BY <3>1 DEF Outcome, IsSend
    <3>5. QED
      BY <3>2, <3>3, <3>4 DEF Delivery!Next, Delivery!Type
  <2>3. CASE ~HerdrTypes(op)
    <3>1. UNCHANGED typed
      BY <1>1, <2>3, QuietStep
    <3>2. CASE Outcome(op)' = Outcome(op)
      BY <2>1, <3>1, <3>2
    <3>3. CASE Outcome(op)' # Outcome(op)
      <4>1. Outcome(op) = "open"
        BY <1>1, <2>3, <3>3, QuietStep DEF Outcome, IsSend
      <4>2. outcome' = [outcome EXCEPT ![op] = Outcome(op)']
        BY <2>1
      <4>3. /\ Outcome(op)' \in {"accepted", "refused", "uncertain"}
            /\ Outcome(op)' = "accepted" => typed[op] = 1
            /\ Outcome(op)' = "refused" => typed[op] = 0
        BY <3>1, <3>3, <4>1 DEF PromptIsKnown, KnownOf, Outcome, IsSend, Untouched
      <4>4. QED
        BY <3>1, <4>1, <4>2, <4>3
        DEF Delivery!Next, Delivery!Accept, Delivery!Refuse, Delivery!GiveUp, Delivery!Answer
    <3>4. QED
      BY <3>2, <3>3
  <2>4. QED
    BY <2>2, <2>3
<1>2. CASE Environment \/ UNCHANGED vars
  <2>1. UNCHANGED <<phase, answer, request, typed>>
    BY <1>2 DEF Environment, EditConfig, ChangeAgents, ChangeSession, WorldChange, vars
  <2>2. UNCHANGED <<outcome, typed>>
    BY <2>1 DEF Outcome, IsSend
  <2>3. QED
    BY <2>2 DEF Delivery!vars
<1>3. QED
  BY <1>1, <1>2 DEF Next, Step, Delivery!vars

(* Gateway Core keeps the promise of PromptDelivery, for any operations,   *)
(* sessions, configurations and agents.                                    *)
THEOREM Refinement == Spec => ImplementsPromptDelivery
<1>1. Init => Delivery!Init
  BY DEF Init, Delivery!Init, Outcome, IsSend, NoRequest
<1>2. QED
  BY <1>1, RefinementStep, Invariance, PTL DEF Spec, Delivery!Spec, ImplementsPromptDelivery

-----------------------------------------------------------------------------
(* The panes Gateway Core addresses: where every pane id comes from, and   *)
(* who can be in the pane when a prompt reaches it.                        *)
LEMMA TracedInit == Init => PaneIsTraced
BY PaneAssumption DEF Init, PaneIsTraced, TracedOf, Running, Underway, NoCall, NoReply

(* An operation's own steps keep the trace of its pane.                    *)
LEMMA TracedStep ==
  ASSUME NEW op \in Op, TypeOK, KnownOf(op), TracedOf(op), Step(op)
  PROVE  TracedOf(op)'
<1> USE DEF TypeOK, KnownOf, TracedOf, Running, IsSend, Underway, NoReply, world, Untouched
<1>1. ASSUME NEW r \in Request, Start(op, r) PROVE TracedOf(op)'
  BY <1>1 DEF Start, Finish, Advance
<1>2. ASSUME LoadFails(op) PROVE TracedOf(op)'
  BY <1>2 DEF LoadFails, Finish, aside
<1>3. ASSUME ListTargets(op) PROVE TracedOf(op)'
  BY <1>3 DEF ListTargets, Finish, aside
<1>4. ASSUME LoadTarget(op) PROVE TracedOf(op)'
  BY <1>4 DEF LoadTarget, Finish, Advance, TargetTable
<1>5. ASSUME DiscoverFails(op) PROVE TracedOf(op)'
  BY <1>5 DEF DiscoverFails, Finish, aside
<1>6. ASSUME Discover(op) PROVE TracedOf(op)'
  BY <1>6 DEF Discover, Finish, Advance, aside
<1>7. ASSUME ValidateFails(op) PROVE TracedOf(op)'
  BY <1>7 DEF ValidateFails, Finish, aside
<1>8. ASSUME Validate(op) PROVE TracedOf(op)'
  BY <1>8 DEF Validate, Advance, Issue
<1>9. ASSUME ListFails(op) PROVE TracedOf(op)'
  BY <1>9 DEF ListFails, Finish, aside
<1>10. ASSUME FailToResolve(op) PROVE TracedOf(op)'
  BY <1>10 DEF FailToResolve, TakeList, Finish
<1>11. ASSUME ReportStatus(op) PROVE TracedOf(op)'
  BY <1>11 DEF ReportStatus, TakeList, Finish
<1>12. ASSUME RefuseBlocked(op) PROVE TracedOf(op)'
  BY <1>12 DEF RefuseBlocked, TakeList, Finish
<1>13. ASSUME SendPrompt(op) PROVE TracedOf(op)'
  <2>1. PICK i \in DOMAIN reply[op].agents :
          /\ Resolution(op).agent = reply[op].agents[i]
          /\ matches(target[op], reply[op].agents) = {i}
    BY <1>13, TakenResolution DEF SendPrompt
  <2>2. reply[op].agents \in AgentList
    BY <1>13 DEF SendPrompt, TakeList, Reply
  <2>3. PICK live \in seen[op].agents : reply[op].agents = live[target[op].herdrSession]
    BY <1>13 DEF SendPrompt, TakeList
  <2>4. CASE Resolution(op).agent.paneId = EmptyPane
    BY <1>13, <2>4 DEF SendPrompt, TakeList, Finish
  <2>5. CASE Resolution(op).agent.paneId # EmptyPane
    <3>1. listed'[op] = reply[op].agents /\ call'[op].pane = reply[op].agents[i].paneId
      BY <1>13, <2>1, <2>5 DEF SendPrompt, TakeList, Issue
    <3>2. UNCHANGED <<world, seen, target, request, typed>>
      BY <1>13 DEF SendPrompt, TakeList
    <3>3. phase'[op] = "act"
      BY <1>13, <2>5 DEF SendPrompt, Advance
    <3>4. typed[op] = 0
      BY <1>13 DEF SendPrompt, TakeList
    <3>5. IsSend(op) => reply[op].agents[i].agentStatus # "blocked"
      BY <1>13, <2>1 DEF SendPrompt
    <3>6. phase[op] = "list"
      BY <1>13 DEF SendPrompt, TakeList
    <3>7. QED
      BY <2>1, <2>2, <2>3, <3>1, <3>2, <3>3, <3>4, <3>5, <3>6
  <2>6. QED
    BY <2>4, <2>5
<1>14. ASSUME SendRead(op) PROVE TracedOf(op)'
  <2>1. PICK i \in DOMAIN reply[op].agents :
          /\ Resolution(op).agent = reply[op].agents[i]
          /\ matches(target[op], reply[op].agents) = {i}
    BY <1>14, TakenResolution DEF SendRead
  <2>2. reply[op].agents \in AgentList
    BY <1>14 DEF SendRead, TakeList, Reply
  <2>3. PICK live \in seen[op].agents : reply[op].agents = live[target[op].herdrSession]
    BY <1>14 DEF SendRead, TakeList
  <2>4. CASE Resolution(op).agent.paneId = EmptyPane
    BY <1>14, <2>4 DEF SendRead, TakeList, Finish
  <2>5. CASE Resolution(op).agent.paneId # EmptyPane
    <3>1. listed'[op] = reply[op].agents /\ call'[op].pane = reply[op].agents[i].paneId
      BY <1>14, <2>1, <2>5 DEF SendRead, TakeList, Issue
    <3>2. UNCHANGED <<world, seen, target, request, typed>>
      BY <1>14 DEF SendRead, TakeList
    <3>3. phase'[op] = "act"
      BY <1>14, <2>5 DEF SendRead, Advance
    <3>4. typed[op] = 0
      BY <1>14 DEF SendRead, TakeList
    <3>5. IsSend(op) => reply[op].agents[i].agentStatus # "blocked"
      BY <1>14, <2>1 DEF SendRead
    <3>6. phase[op] = "list"
      BY <1>14 DEF SendRead, TakeList
    <3>7. QED
      BY <2>1, <2>2, <2>3, <3>1, <3>2, <3>3, <3>4, <3>5, <3>6
  <2>6. QED
    BY <2>4, <2>5
<1>15. ASSUME AskProvider(op) PROVE TracedOf(op)'
  BY <1>15 DEF AskProvider, TakeList, Advance
<1>16. ASSUME PromptAccepted(op) PROVE TracedOf(op)'
  BY <1>16 DEF PromptAccepted, Finish, aside
<1>17. ASSUME PromptFails(op) PROVE TracedOf(op)'
  BY <1>17 DEF PromptFails, Finish, aside
<1>18. ASSUME ReadAnswered(op) PROVE TracedOf(op)'
  BY <1>18 DEF ReadAnswered, Finish, aside
<1>19. ASSUME ReadFails(op) PROVE TracedOf(op)'
  BY <1>19 DEF ReadFails, Finish, aside
<1>20. ASSUME ProviderAnswers(op) PROVE TracedOf(op)'
  BY <1>20 DEF ProviderAnswers, Finish, aside
<1>21. ASSUME HerdrLists(op) PROVE TracedOf(op)'
  <2>1. PICK r \in {[class |-> "agents", agents |-> agents[target[op].herdrSession]]} \cup NoSuccess :
          Answer(op, r)
    BY <1>21 DEF HerdrLists
  <2>2. reply'[op].class = "agents" => reply'[op].agents = agents[target[op].herdrSession]
    BY <2>1 DEF Answer, NoSuccess, Malformed, ErrorReply
  <2>3. UNCHANGED <<operation, typed, landed>> /\ phase[op] \in {"list", "act"}
    BY <1>21 DEF HerdrLists, Awaiting
  <2>4. agents \in seen[op].agents
    BY <2>3
  <2>5. QED
    BY <2>2, <2>3, <2>4 DEF operation
<1>22. ASSUME HerdrTypes(op) PROVE TracedOf(op)'
  <2>1. pending[op] /\ UNCHANGED operation
    BY <1>22 DEF HerdrTypes
  <2>2. agents[target[op].herdrSession] \in AgentList
    BY <2>1 DEF Target, TargetConfig
  <2>3. PICK i \in DOMAIN agents[target[op].herdrSession] :
          /\ agents[target[op].herdrSession][i].paneId = call[op].pane
          /\ landed' = [landed EXCEPT ![op] = agents[target[op].herdrSession][i]]
    BY <1>22 DEF HerdrTypes
  <2>4. call[op].pane # NoPane
    <3>1. agents[target[op].herdrSession] \in Seq(HerdrAgent)
      BY <2>2, AgentListAssumption
    <3>2. agents[target[op].herdrSession][i] \in HerdrAgent
      BY <3>1
    <3>3. QED
      BY <2>3, <3>2, PaneAssumption DEF HerdrAgent
  <2>5. landed'[op].paneId = call[op].pane
    BY <2>3
  <2>6. phase[op] # "list"
    BY <2>1
  <2>7. QED
    BY <2>1, <2>4, <2>5, <2>6 DEF operation
<1>23. ASSUME HerdrStalls(op) PROVE TracedOf(op)'
  <2>1. reply'[op].class # "agents"
    BY <1>23 DEF HerdrStalls, Answer, NoSuccess, Malformed, ErrorReply
  <2>2. UNCHANGED <<operation, typed, landed>>
    BY <1>23 DEF HerdrStalls
  <2>3. QED
    BY <2>1, <2>2 DEF operation
<1>24. ASSUME HerdrRejects(op) PROVE TracedOf(op)'
  BY <1>24 DEF HerdrRejects, operation, Awaiting, Answer, NoSuccess, Malformed, ErrorReply
<1>25. ASSUME PromptIsLost(op) PROVE TracedOf(op)'
  BY <1>25 DEF PromptIsLost, operation
<1>26. ASSUME HerdrReads(op) PROVE TracedOf(op)'
  <2>1. reply'[op].class # "agents"
    BY <1>26 DEF HerdrReads, Answer, NoSuccess, Malformed, ErrorReply
  <2>2. UNCHANGED <<operation, typed, landed>>
    BY <1>26 DEF HerdrReads
  <2>3. QED
    BY <2>1, <2>2 DEF operation
<1>27. QED
  BY <1>1, <1>2, <1>3, <1>4, <1>5, <1>6, <1>7, <1>8, <1>9, <1>10, <1>11, <1>12, <1>13, <1>14, <1>15, <1>16, <1>17, <1>18, <1>19, <1>20, <1>21, <1>22, <1>23, <1>24, <1>25, <1>26 DEF Step, Gateway, Herdr

(* What else TracedOf(op) speaks of.                                       *)
Trace(op) == <<config, agents, landed[op], listed[op], seen[op]>>

LEMMA OthersTrace ==
  ASSUME NEW op \in Op, NEW other \in Op \ {op}, TypeOK, Step(op)
  PROVE  UNCHANGED Trace(other)
<1> USE DEF TypeOK, Trace, world
<1>1. ASSUME NEW r \in Request, Start(op, r) PROVE UNCHANGED Trace(other)
  BY <1>1 DEF Start
<1>2. ASSUME LoadFails(op) PROVE UNCHANGED Trace(other)
  BY <1>2 DEF LoadFails, aside
<1>3. ASSUME ListTargets(op) PROVE UNCHANGED Trace(other)
  BY <1>3 DEF ListTargets, aside
<1>4. ASSUME LoadTarget(op) PROVE UNCHANGED Trace(other)
  BY <1>4 DEF LoadTarget
<1>5. ASSUME DiscoverFails(op) PROVE UNCHANGED Trace(other)
  BY <1>5 DEF DiscoverFails, aside
<1>6. ASSUME Discover(op) PROVE UNCHANGED Trace(other)
  BY <1>6 DEF Discover, aside
<1>7. ASSUME ValidateFails(op) PROVE UNCHANGED Trace(other)
  BY <1>7 DEF ValidateFails, aside
<1>8. ASSUME Validate(op) PROVE UNCHANGED Trace(other)
  BY <1>8 DEF Validate
<1>9. ASSUME ListFails(op) PROVE UNCHANGED Trace(other)
  BY <1>9 DEF ListFails, aside
<1>10. ASSUME FailToResolve(op) PROVE UNCHANGED Trace(other)
  BY <1>10 DEF FailToResolve, TakeList
<1>11. ASSUME ReportStatus(op) PROVE UNCHANGED Trace(other)
  BY <1>11 DEF ReportStatus, TakeList
<1>12. ASSUME RefuseBlocked(op) PROVE UNCHANGED Trace(other)
  BY <1>12 DEF RefuseBlocked, TakeList
<1>13. ASSUME SendPrompt(op) PROVE UNCHANGED Trace(other)
  BY <1>13 DEF SendPrompt, TakeList
<1>14. ASSUME SendRead(op) PROVE UNCHANGED Trace(other)
  BY <1>14 DEF SendRead, TakeList
<1>15. ASSUME AskProvider(op) PROVE UNCHANGED Trace(other)
  BY <1>15 DEF AskProvider, TakeList
<1>16. ASSUME PromptAccepted(op) PROVE UNCHANGED Trace(other)
  BY <1>16 DEF PromptAccepted, aside
<1>17. ASSUME PromptFails(op) PROVE UNCHANGED Trace(other)
  BY <1>17 DEF PromptFails, aside
<1>18. ASSUME ReadAnswered(op) PROVE UNCHANGED Trace(other)
  BY <1>18 DEF ReadAnswered, aside
<1>19. ASSUME ReadFails(op) PROVE UNCHANGED Trace(other)
  BY <1>19 DEF ReadFails, aside
<1>20. ASSUME ProviderAnswers(op) PROVE UNCHANGED Trace(other)
  BY <1>20 DEF ProviderAnswers, aside
<1>21. ASSUME HerdrLists(op) PROVE UNCHANGED Trace(other)
  BY <1>21 DEF HerdrLists, operation
<1>22. ASSUME HerdrTypes(op) PROVE UNCHANGED Trace(other)
  BY <1>22 DEF HerdrTypes, operation
<1>23. ASSUME HerdrStalls(op) PROVE UNCHANGED Trace(other)
  BY <1>23 DEF HerdrStalls, operation
<1>24. ASSUME HerdrRejects(op) PROVE UNCHANGED Trace(other)
  BY <1>24 DEF HerdrRejects, operation
<1>25. ASSUME PromptIsLost(op) PROVE UNCHANGED Trace(other)
  BY <1>25 DEF PromptIsLost, operation
<1>26. ASSUME HerdrReads(op) PROVE UNCHANGED Trace(other)
  BY <1>26 DEF HerdrReads, operation
<1>27. QED
  BY <1>1, <1>2, <1>3, <1>4, <1>5, <1>6, <1>7, <1>8, <1>9, <1>10, <1>11, <1>12, <1>13, <1>14, <1>15, <1>16, <1>17, <1>18, <1>19, <1>20, <1>21, <1>22, <1>23, <1>24, <1>25, <1>26 DEF Step, Gateway, Herdr

(* A change of the world only adds to what an operation has seen.          *)
LEMMA TracedEnvironment ==
  ASSUME NEW op \in Op, TypeOK, TracedOf(op), Environment
  PROVE  TracedOf(op)'
<1>1. UNCHANGED <<phase, request, target, call, reply, typed, landed, listed>>
  BY DEF Environment, EditConfig, ChangeAgents, ChangeSession, WorldChange
<1>2. /\ seen[op].configs \subseteq seen'[op].configs
      /\ seen[op].agents \subseteq seen'[op].agents
      /\ Running(op) => config' \in seen'[op].configs /\ agents' \in seen'[op].agents
  BY DEF Environment, EditConfig, ChangeAgents, ChangeSession, WorldChange, TypeOK
<1>3. QED
  BY <1>1, <1>2 DEF TracedOf, Running, IsSend

LEMMA TracedNext == TypeOK /\ PromptIsKnown /\ PaneIsTraced /\ [Next]_vars => PaneIsTraced'
<1> SUFFICES ASSUME TypeOK, PromptIsKnown, PaneIsTraced, [Next]_vars, NEW op \in Op
             PROVE  TracedOf(op)'
  BY DEF PaneIsTraced
<1>1. KnownOf(op) /\ TracedOf(op)
  BY DEF PromptIsKnown, PaneIsTraced
<1>2. CASE Step(op)
  BY <1>1, <1>2, TracedStep
<1>3. ASSUME NEW other \in Op \ {op}, Step(other) PROVE TracedOf(op)'
  <2>1. UNCHANGED <<Own(op), Trace(op)>>
    BY <1>3, OthersStep, OthersTrace
  <2>2. QED
    BY <1>1, <2>1 DEF Own, Trace, TracedOf, Running, IsSend
<1>4. CASE Environment
  BY <1>1, <1>4, TracedEnvironment
<1>5. CASE UNCHANGED vars
  BY <1>1, <1>5 DEF vars, TracedOf, Running, IsSend
<1>6. QED
  BY <1>2, <1>3, <1>4, <1>5 DEF Next, Step

(* Every pane an operation names is traced to its target.                  *)
THEOREM Traced == Spec => [](TypeOK /\ PromptIsKnown /\ PaneIsTraced)
<1>1. Init => PaneIsTraced
  BY TracedInit
<1>2. TypeOK /\ PromptIsKnown /\ PaneIsTraced /\ [Next]_vars => PaneIsTraced'
  BY TracedNext
<1>3. QED
  BY <1>1, <1>2, Invariance, PTL DEF Spec

(* No pane is prompted or read that was not the one match of its alias in  *)
(* what was configured and live during the operation (resolveTarget).      *)
THEOREM NoStalePane == Spec => []PaneWasTheTarget
<1>1. TypeOK /\ PaneIsTraced => PaneWasTheTarget
  <2> SUFFICES ASSUME TypeOK, PaneIsTraced, NEW op \in Op, call[op].pane # NoPane
               PROVE  \E c \in seen[op].configs, live \in seen[op].agents :
                        /\ c \in TargetTable
                        /\ c[request[op].alias] # NotConfigured
                        /\ LET t == c[request[op].alias]
                               list == live[t.herdrSession]
                           IN \E i \in DOMAIN list :
                                /\ matches(t, list) = {i}
                                /\ list[i].paneId = call[op].pane
                                /\ IsSend(op) => list[i].agentStatus # "blocked"
    BY DEF PaneWasTheTarget
  <2>1. PICK c \in seen[op].configs :
          c \in TargetTable /\ c[request[op].alias] = target[op] /\ target[op] # NotConfigured
    BY DEF PaneIsTraced, TracedOf
  <2>2. PICK live \in seen[op].agents : listed[op] = live[target[op].herdrSession]
    BY DEF PaneIsTraced, TracedOf
  <2>3. PICK i \in DOMAIN listed[op] :
          /\ matches(target[op], listed[op]) = {i}
          /\ listed[op][i].paneId = call[op].pane
          /\ IsSend(op) => listed[op][i].agentStatus # "blocked"
    BY DEF PaneIsTraced, TracedOf
  <2>4. QED
    BY <2>1, <2>2, <2>3
<1>2. QED
  BY <1>1, Traced, PTL

(* A prompt reaches something other than its target only if the pane       *)
(* changed hands after the agent list was taken (sendPromptOperation).     *)
THEOREM OnlyARaceMisdelivers == Spec => []MisdeliveryNeedsARace
<1>1. TypeOK /\ PromptIsKnown /\ PaneIsTraced => MisdeliveryNeedsARace
  <2> SUFFICES ASSUME TypeOK, PromptIsKnown, PaneIsTraced, NEW op \in Op, typed[op] > 0,
                      NEW k \in DOMAIN listed[op], listed[op][k] = landed[op]
               PROVE  isIdentityMatch(target[op], landed[op]) /\ landed[op].agentStatus # "blocked"
    BY DEF MisdeliveryNeedsARace
  <2>1. call[op].pane # NoPane /\ landed[op].paneId = call[op].pane /\ listed[op] \in AgentList
    BY DEF PaneIsTraced, TracedOf
  <2>2. IsSend(op)
    BY DEF PromptIsKnown, KnownOf, Untouched, TypeOK
  <2>3. PICK i \in DOMAIN listed[op] :
          /\ matches(target[op], listed[op]) = {i}
          /\ listed[op][i].paneId = call[op].pane
          /\ listed[op][i].agentStatus # "blocked"
    BY <2>1, <2>2 DEF PaneIsTraced, TracedOf
  <2>4. k = i
    BY <2>1, <2>3, AgentListAssumption
  <2>5. isIdentityMatch(target[op], listed[op][i])
    BY <2>3 DEF matches
  <2>6. QED
    BY <2>3, <2>4, <2>5
<1>2. QED
  BY <1>1, Traced, PTL

-----------------------------------------------------------------------------
(* Why operations settle: no step leads an operation back.                 *)
Stage(where) ==
  IF where = "idle" THEN 0 ELSE IF where = "config" THEN 1 ELSE IF where = "discover" THEN 2
  ELSE IF where = "validate" THEN 3 ELSE IF where = "list" THEN 4
  ELSE IF where \in {"act", "provide"} THEN 5 ELSE 6

(* An operation goes on to a later await; or it stays, and Herdr answers a *)
(* call it has not answered, or is done with the prompt it holds, and      *)
(* takes up no other.                                                      *)
Further(op) ==
  \/ Stage(phase[op]) < Stage(phase'[op])
  \/ /\ phase'[op] = phase[op] /\ answer'[op] = answer[op] /\ call'[op] = call[op]
     /\ pending'[op] => pending[op]
     /\ \/ reply[op].class = "none" /\ reply'[op].class # "none"
        \/ reply'[op] = reply[op] /\ pending[op] /\ ~pending'[op]

(* The world changes, within its bound, and gives no operation anything;   *)
(* or one operation goes further and the others are as they were.          *)
Advances ==
  \/ /\ changes < changes' /\ changes' <= MaxChanges
     /\ UNCHANGED <<phase, answer, call, reply>>
     /\ \A op \in Op : pending'[op] => pending[op]
  \/ /\ changes' = changes
     /\ \E op \in Op : Further(op) /\ \A other \in Op \ {op} : UNCHANGED Own(other)

LEMMA AdvancesFurther ==
  ASSUME TypeOK, NEW op \in Op, NEW next, Stage(phase[op]) < Stage(next), Advance(op, next)
  PROVE  Further(op)
<1>1. phase'[op] = next
  BY DEF Advance, TypeOK
<1> QED BY <1>1 DEF Further

LEMMA FinishesFurther ==
  ASSUME TypeOK, NEW op \in Op, NEW code, phase[op] # "done", Finish(op, code)
  PROVE  Further(op)
<1>1. phase'[op] = "done"
  BY DEF Finish, TypeOK
<1>2. Stage(phase[op]) < Stage("done")
  BY DEF Stage, TypeOK, Phase
<1> QED BY <1>1, <1>2 DEF Further

(* Up to the agent list.                                                   *)
LEMMA FindsFurther ==
  ASSUME TypeOK, NEW op \in Op,
         \/ \E r \in Request : Start(op, r)
         \/ LoadFails(op) \/ ListTargets(op) \/ LoadTarget(op)
         \/ DiscoverFails(op) \/ Discover(op) \/ ValidateFails(op) \/ Validate(op)
  PROVE  Further(op)
<1>1. phase[op] # "done"
  BY DEF Start, LoadFails, ListTargets, LoadTarget, DiscoverFails, Discover, ValidateFails, Validate
<1>2. \/ \E code : Finish(op, code)
      \/ phase[op] = "idle" /\ Advance(op, "config")
      \/ phase[op] = "config" /\ Advance(op, "discover")
      \/ phase[op] = "discover" /\ Advance(op, "validate")
      \/ phase[op] = "validate" /\ Advance(op, "list")
  BY DEF Start, LoadFails, ListTargets, LoadTarget, DiscoverFails, Discover, ValidateFails, Validate
<1>3. /\ Stage("idle") < Stage("config") /\ Stage("config") < Stage("discover")
      /\ Stage("discover") < Stage("validate") /\ Stage("validate") < Stage("list")
  BY DEF Stage
<1> QED BY <1>1, <1>2, <1>3, AdvancesFurther, FinishesFurther

(* From the agent list on.                                                 *)
LEMMA ActsFurther ==
  ASSUME TypeOK, NEW op \in Op,
         \/ ListFails(op) \/ FailToResolve(op) \/ ReportStatus(op) \/ RefuseBlocked(op)
         \/ SendPrompt(op) \/ SendRead(op) \/ AskProvider(op) \/ ProviderAnswers(op)
         \/ PromptAccepted(op) \/ PromptFails(op) \/ ReadAnswered(op) \/ ReadFails(op)
  PROVE  Further(op)
<1>1. phase[op] # "done"
  BY DEF ListFails, FailToResolve, ReportStatus, RefuseBlocked, SendPrompt, SendRead, AskProvider, TakeList,
         ProviderAnswers, PromptAccepted, PromptFails, ReadAnswered, ReadFails
<1>2. CASE ListFails(op) \/ FailToResolve(op) \/ ReportStatus(op) \/ RefuseBlocked(op)
  <2>1. \E code : Finish(op, code)
    BY <1>2 DEF ListFails, FailToResolve, ReportStatus, RefuseBlocked
  <2> QED BY <1>1, <2>1, FinishesFurther
<1>3. CASE SendPrompt(op) \/ SendRead(op) \/ AskProvider(op)
  <2>1. phase[op] = "list" /\ ((\E code : Finish(op, code)) \/ Advance(op, "act") \/ Advance(op, "provide"))
    BY <1>3 DEF SendPrompt, SendRead, AskProvider, TakeList
  <2>2. Stage("list") < Stage("act") /\ Stage("list") < Stage("provide")
    BY DEF Stage
  <2> QED BY <1>1, <2>1, <2>2, AdvancesFurther, FinishesFurther
<1>4. CASE ProviderAnswers(op) \/ PromptAccepted(op) \/ PromptFails(op) \/ ReadAnswered(op) \/ ReadFails(op)
  <2>1. \E code : Finish(op, code)
    BY <1>4 DEF ProviderAnswers, PromptAccepted, PromptFails, ReadAnswered, ReadFails
  <2> QED BY <1>1, <2>1, FinishesFurther
<1> QED BY <1>2, <1>3, <1>4

(* Herdr answers a call once and decides a prompt once.                    *)
LEMMA HerdrFurther ==
  ASSUME TypeOK, NEW op \in Op, Herdr(op)
  PROVE  Further(op)
<1>1. UNCHANGED <<phase, answer, call>>
  BY DEF Herdr, HerdrLists, HerdrTypes, HerdrStalls, HerdrRejects, PromptIsLost, HerdrReads, operation
<1>2. ASSUME NEW r, r.class # "none", Answer(op, r) PROVE reply'[op].class # "none"
  BY <1>2 DEF Answer, TypeOK
<1>3. CASE HerdrLists(op) \/ HerdrStalls(op) \/ HerdrReads(op)
  <2>1. reply[op].class = "none" /\ pending' = pending /\ \E r : r.class # "none" /\ Answer(op, r)
    BY <1>3 DEF HerdrLists, HerdrStalls, HerdrReads, Awaiting, NoSuccess, Malformed, ErrorReply
  <2> QED BY <1>1, <1>2, <2>1 DEF Further
<1>4. CASE HerdrTypes(op) \/ HerdrRejects(op) \/ PromptIsLost(op)
  <2>1. pending[op] /\ pending' = [pending EXCEPT ![op] = FALSE]
    BY <1>4 DEF HerdrTypes, HerdrRejects, PromptIsLost
  <2>2. ~pending'[op]
    BY <2>1 DEF TypeOK
  <2>3. reply' = reply \/ (reply[op].class = "none" /\ \E r : r.class # "none" /\ Answer(op, r))
    BY <1>4 DEF HerdrTypes, HerdrRejects, PromptIsLost, Awaiting, NoSuccess, Malformed, ErrorReply
  <2> QED BY <1>1, <1>2, <2>1, <2>2, <2>3 DEF Further
<1> QED BY <1>3, <1>4 DEF Herdr

(* Every step leads forward in a well-founded order: an operation settles  *)
(* once and for all, never asks again what it has asked, and holds no      *)
(* other operation up; Herdr answers a call at most once, and once it is   *)
(* done with a prompt never gets it back (sendPromptOperation,             *)
(* readOperation).                                                         *)
THEOREM OperationsAdvance == Spec => [][Advances]_vars
<1>1. ASSUME TypeOK, Next PROVE Advances
  <2>1. CASE Environment
    <3>1. /\ changes' = changes + 1 /\ changes < MaxChanges
          /\ UNCHANGED <<phase, answer, call, reply>>
      BY <2>1 DEF Environment, EditConfig, ChangeAgents, ChangeSession, WorldChange
    <3>2. \A op \in Op : pending'[op] => pending[op]
      BY <2>1 DEF Environment, EditConfig, ChangeAgents, ChangeSession
    <3>3. changes \in Nat /\ MaxChanges \in Nat
      BY <1>1, BoundAssumption DEF TypeOK
    <3> QED BY <3>1, <3>2, <3>3 DEF Advances
  <2>2. ASSUME NEW op \in Op, Step(op) PROVE Advances
    <3>1. Further(op)
      BY <1>1, <2>2, FindsFurther, ActsFurther, HerdrFurther DEF Step, Gateway
    <3>2. \A other \in Op \ {op} : UNCHANGED Own(other)
      BY <1>1, <2>2, OthersStep
    <3>3. changes' = changes
      BY <2>2 DEF Step, Start, Gateway, LoadFails, ListTargets, LoadTarget, DiscoverFails, Discover,
           ValidateFails, Validate, ListFails, FailToResolve, ReportStatus, RefuseBlocked, SendPrompt,
           SendRead, AskProvider, PromptAccepted, PromptFails, ReadAnswered, ReadFails, TakeList, Herdr,
           HerdrLists, HerdrTypes, HerdrStalls, HerdrRejects, PromptIsLost, HerdrReads, ProviderAnswers,
           aside, operation, world
    <3> QED BY <3>1, <3>2, <3>3 DEF Advances
  <2> QED BY <1>1, <2>1, <2>2 DEF Next, Step
<1>2. TypeOK /\ [Next]_vars => [Advances]_vars
  BY <1>1
<1> QED BY <1>2, TypeCorrectness, PTL DEF Spec

=============================================================================
