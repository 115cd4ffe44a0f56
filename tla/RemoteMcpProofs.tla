-------------------------- MODULE RemoteMcpProofs --------------------------
(***************************************************************************)
(* Theorems about the remote endpoint, for any number of concurrent        *)
(* requests of any shape, any policy and any limit.  Passage, the          *)
(* inductive invariant, says what a request has passed by where its        *)
(* handler is; a call of Gateway Core is only as good as the checks that   *)
(* were made two awaits before it.                                         *)
(***************************************************************************)
EXTENDS RemoteMcp, TLAPS


-----------------------------------------------------------------------------
(* Types.                                                                  *)

LEMMA ShapeType == ASSUME TypeOK, NEW r \in Request PROVE shape[r] \in Shape
BY RemoteAssumption DEF TypeOK

LEMMA ShapeFields ==
  ASSUME NEW s \in Shape
  PROVE  /\ s.size \in Nat
         /\ s.target \in Alias
         /\ s.credential \in Credential
BY DEF Shape

LEMMA BoundaryStatus == ASSUME NEW s PROVE boundary(s) \in Status \cup {""}
BY DEF boundary, metadataStatus, Status

LEMMA AllowedTargets == ASSUME NEW c PROVE allowedTargets(c) \subseteq Alias
BY RemoteAssumption DEF allowedTargets

LEMMA TypesInit == Init => TypeOK
<1> SUFFICES ASSUME Init PROVE TypeOK
  OBVIOUS
<1> 0 \in 0..MaxBody
  BY RemoteAssumption
<1>1. chunks \in [Request -> 0..MaxBody] /\ bytes \in [Request -> Nat]
      /\ \A r \in Request : chunks[r] <= bytes[r]
  BY DEF Init
<1>2. phase \in [Request -> Phase] /\ hungUp \in [Request -> {"no"} \cup Phase]
  BY DEF Init, Phase
<1>3. answer \in [Request -> Status]
  BY DEF Init, Status
<1>4. identity \in [Request -> SUBSET Credential] /\ told \in [Request -> SUBSET Alias]
  BY DEF Init
<1> QED BY <1>1, <1>2, <1>3, <1>4 DEF Init, TypeOK

LEMMA TypesArrive == ASSUME TypeOK, NEW r \in Request, Arrive(r) PROVE TypeOK'
<1>1. boundary(shape[r]) \in Status \cup {""}
  BY BoundaryStatus
<1>2. phase' \in [Request -> Phase] /\ verifying' \in [Request -> BOOLEAN]
  BY DEF TypeOK, Arrive, Phase
<1>3. answer' \in [Request -> Status]
  BY <1>1 DEF TypeOK, Arrive
<1>4. connection' \in [Request -> {"none", "open", "idle", "closed"}]
  BY DEF TypeOK, Arrive
<1> QED BY <1>2, <1>3, <1>4 DEF TypeOK, Arrive, life

LEMMA TypesRefuse ==
  ASSUME TypeOK, NEW r \in Request, NEW status \in Status, NEW close \in BOOLEAN,
         Refuse(r, status, close)
  PROVE  /\ phase' \in [Request -> Phase]
         /\ answer' \in [Request -> Status]
         /\ connection' \in [Request -> {"none", "open", "idle", "closed"}]
         /\ told' \in [Request -> SUBSET Alias]
         /\ hungUp' \in [Request -> {"no"} \cup Phase]
         /\ bytes' \in [Request -> Nat]
         /\ chunks' \in [Request -> 0..MaxBody]
         /\ \A q \in Request : chunks'[q] <= bytes'[q]
         /\ called' \in [Request -> BOOLEAN]
BY DEF TypeOK, Refuse, sendJson, Phase

LEMMA TypesAuthentication ==
  ASSUME TypeOK, NEW r \in Request, VerifierAnswers(r) \/ AuthDeadline(r)
  PROVE  TypeOK'
<1> "401" \in Status /\ "415" \in Status
  BY DEF Status
<1>1. CASE AuthDeadline(r)
  BY <1>1, TypesRefuse DEF TypeOK, AuthDeadline, life
<1>2. CASE VerifierAnswers(r)
  <2>1. shape[r].credential \in Credential
    BY ShapeType, ShapeFields
  <2>2. verifying' \in [Request -> BOOLEAN]
    BY <1>2 DEF TypeOK, VerifierAnswers
  <2>3. CASE Admit(r)
    <3>1. identity' \in [Request -> SUBSET Credential]
      BY <2>1, <2>3 DEF TypeOK, Admit
    <3>2. CASE Refuse(r, "415", TRUE)
      BY <1>2, <2>2, <3>1, <3>2, TypesRefuse DEF TypeOK, VerifierAnswers, life
    <3>3. CASE UNCHANGED <<wire, bytes, chunks, called>> /\ phase' \in [Request -> Phase]
      BY <1>2, <2>2, <3>1, <3>3 DEF TypeOK, VerifierAnswers, life, wire
    <3> QED BY <2>3, <3>2, <3>3 DEF Admit, TypeOK, Phase
  <2>4. CASE Refuse(r, "401", TRUE) /\ UNCHANGED identity
    BY <1>2, <2>2, <2>4, TypesRefuse DEF TypeOK, VerifierAnswers, life
  <2>5. CASE UNCHANGED <<phase, identity, bytes, chunks, called, wire>>
    BY <1>2, <2>2, <2>5 DEF TypeOK, VerifierAnswers, life, wire
  <2> QED BY <1>2, <2>3, <2>4, <2>5 DEF VerifierAnswers
<1> QED BY <1>1, <1>2

LEMMA TypesBody ==
  ASSUME TypeOK, NEW r \in Request, Data(r) \/ End(r) \/ BodyTimer(r)
  PROVE  TypeOK'
<1> {"400", "408", "413"} \subseteq Status
  BY DEF Status
<1>1. CASE Data(r)
  <2>1. bytes' \in [Request -> Nat]
    BY <1>1 DEF TypeOK, Data
  <2>2. CASE bytes'[r] > MaxBody
    BY <1>1, <2>1, <2>2 DEF TypeOK, Data, sendJson, Phase, life
  <2>3. CASE ~(bytes'[r] > MaxBody)
    <3>1. chunks[r] + 1 \in 0..MaxBody /\ chunks[r] + 1 <= bytes'[r]
      BY <1>1, <2>1, <2>3, RemoteAssumption DEF TypeOK, Data
    <3>2. chunks' = [chunks EXCEPT ![r] = @ + 1] /\ bytes' = [bytes EXCEPT ![r] = @ + 1]
      BY <1>1, <2>3 DEF Data
    <3>3. chunks' \in [Request -> 0..MaxBody] /\ \A q \in Request : chunks'[q] <= bytes'[q]
      BY <3>1, <3>2 DEF TypeOK
    <3> QED BY <1>1, <2>1, <2>3, <3>3 DEF TypeOK, Data, life
  <2> QED BY <2>2, <2>3
<1>2. CASE End(r)
  BY <1>2, TypesRefuse DEF TypeOK, End, Phase, life, wire
<1>3. CASE BodyTimer(r)
  BY <1>3, TypesRefuse DEF TypeOK, BodyTimer, life
<1> QED BY <1>1, <1>2, <1>3

LEMMA TypesTools ==
  ASSUME TypeOK, NEW r \in Request, Served(r)
  PROVE  TypeOK'
<1> {"500", "200", "protocol", "FORBIDDEN"} \subseteq Status
  BY DEF Status
<1>1. CASE LibraryAnswers(r)
  BY <1>1, TypesRefuse DEF TypeOK, LibraryAnswers, life
<1>2. CASE HandlerFails(r)
  BY <1>2, TypesRefuse DEF TypeOK, HandlerFails, life
<1>3. CASE ToolForbidden(r)
  BY <1>3, TypesRefuse DEF TypeOK, ToolForbidden, life
<1>4. CASE ToolCalls(r)
  BY <1>4 DEF TypeOK, ToolCalls, Phase, life, wire
<1>5. CASE ToolReturns(r)
  <2>1. {shape[r].target} \subseteq Alias
    BY ShapeType, ShapeFields
  <2>2. UNION {allowedTargets(credential) : credential \in identity[r]} \subseteq Alias
    BY AllowedTargets
  <2>3. told' \in [Request -> SUBSET Alias]
    BY <1>5, <2>1, <2>2 DEF TypeOK, ToolReturns
  <2>4. phase' \in [Request -> Phase]
    BY <1>5 DEF TypeOK, ToolReturns, Phase
  <2>5. answer' \in [Request -> Status] /\ connection' \in [Request -> {"none", "open", "idle", "closed"}]
    BY <1>5 DEF TypeOK, ToolReturns, sendJson
  <2> QED BY <1>5, <2>3, <2>4, <2>5 DEF TypeOK, ToolReturns, life
<1> QED BY <1>1, <1>2, <1>3, <1>4, <1>5 DEF Served

LEMMA TypesClient ==
  ASSUME TypeOK, NEW r \in Request, Client(r) \/ KeepAliveTimeout(r)
  PROVE  TypeOK'
<1> "raw 400" \in Status
  BY DEF Status
<1>1. ASSUME Lost(r), answer' \in [Request -> Status] PROVE TypeOK'
  BY <1>1 DEF TypeOK, Lost, Phase, life
<1>2. CASE HangUp(r)
  BY <1>1, <1>2 DEF TypeOK, HangUp
<1>3. CASE ClientError(r)
  BY <1>1, <1>3 DEF TypeOK, ClientError
<1>4. CASE KeepAliveTimeout(r)
  BY <1>4 DEF TypeOK, KeepAliveTimeout, life, handling
<1> QED BY <1>2, <1>3, <1>4 DEF Client

LEMMA TypesLife ==
  ASSUME TypeOK, startRemoteMcp \/ Close \/ LibraryCloses \/ Closed
  PROVE  TypeOK'
<1>1. CASE startRemoteMcp
  BY <1>1 DEF TypeOK, startRemoteMcp, handling, wire
<1>2. CASE Close
  BY <1>2 DEF TypeOK, Close, handling, wire
<1>3. CASE LibraryCloses \/ Closed
  BY <1>3 DEF TypeOK, LibraryCloses, Closed, handling, wire
<1> QED BY <1>1, <1>2, <1>3

LEMMA TypesNext == TypeOK /\ [Next]_vars => TypeOK'
<1> SUFFICES ASSUME TypeOK, [Next]_vars PROVE TypeOK'
  OBVIOUS
<1>1. CASE UNCHANGED vars
  BY <1>1 DEF TypeOK, vars, life, handling, wire
<1>2. CASE startRemoteMcp \/ Close \/ LibraryCloses \/ Closed
  BY <1>2, TypesLife
<1>3. ASSUME NEW r \in Request, Timers(r) \/ Handler(r) \/ Client(r) PROVE TypeOK'
  BY <1>3, TypesArrive, TypesAuthentication, TypesBody, TypesTools, TypesClient
     DEF Timers, Handler, Served
<1> QED BY <1>1, <1>2, <1>3 DEF Next

-----------------------------------------------------------------------------
(* Passage.  A step of one request leaves the others as they are.          *)

Still(q) ==
  /\ phase'[q] = phase[q] /\ identity'[q] = identity[q] /\ bytes'[q] = bytes[q]
  /\ called'[q] = called[q] /\ told'[q] = told[q] /\ answer'[q] = answer[q]
  /\ connection'[q] = connection[q] /\ hungUp'[q] = hungUp[q]

LEMMA StillPasses ==
  ASSUME NEW q \in Request, Passed(q), Answered(q), Still(q), UNCHANGED <<shape, mode, server>>
  PROVE  Passed(q)' /\ Answered(q)'
BY DEF Passed, Answered, Still, Admitted, Taken, RefusalStands

LEMMA OthersAreStill ==
  ASSUME TypeOK, NEW r \in Request, Timers(r) \/ Handler(r) \/ Client(r), NEW q \in Request, q # r
  PROVE  Still(q) /\ UNCHANGED <<shape, mode, server>>
<1> USE DEF TypeOK, Still, life, handling, wire, Refuse, sendJson
<1>1. CASE Arrive(r)
  BY <1>1 DEF Arrive
<1>2. CASE VerifierAnswers(r)
  BY <1>2 DEF VerifierAnswers, Admit
<1>3. CASE AuthDeadline(r) \/ BodyTimer(r) \/ KeepAliveTimeout(r)
  BY <1>3 DEF AuthDeadline, BodyTimer, KeepAliveTimeout
<1>4. CASE Data(r) \/ End(r)
  BY <1>4 DEF Data, End
<1>5. CASE LibraryAnswers(r) \/ HandlerFails(r) \/ ToolForbidden(r)
  BY <1>5 DEF LibraryAnswers, HandlerFails, ToolForbidden
<1>6. CASE ToolCalls(r) \/ ToolReturns(r)
  BY <1>6 DEF ToolCalls, ToolReturns
<1>7. CASE HangUp(r) \/ ClientError(r)
  BY <1>7 DEF HangUp, ClientError, Lost
<1> QED BY <1>1, <1>2, <1>3, <1>4, <1>5, <1>6, <1>7 DEF Timers, Handler, Client

LEMMA PassageInit == Init => Passage
BY RemoteAssumption DEF Init, Passage, Started, Passed, Answered, RefusalStands, InHandler, Refusal

LEMMA PassageLife ==
  ASSUME TypeOK, Passage, startRemoteMcp \/ Close \/ LibraryCloses \/ Closed
  PROVE  Passage'
<1>1. Started'
  BY DEF TypeOK, Passage, Started, startRemoteMcp, Close, LibraryCloses, Closed
<1>2. ASSUME NEW r \in Request PROVE Passed(r)' /\ Answered(r)'
  <2>1. Passed(r) /\ Answered(r)
    BY DEF Passage
  <2> USE <2>1 DEF TypeOK, handling, wire, Passed, Answered, RefusalStands, Admitted, Taken
  <2>2. CASE startRemoteMcp
    BY <2>2 DEF startRemoteMcp
  <2>3. CASE Close
    BY <2>3 DEF Close
  <2>4. CASE LibraryCloses \/ Closed
    BY <2>4 DEF LibraryCloses, Closed
  <2> QED BY <2>2, <2>3, <2>4
<1> QED BY <1>1, <1>2 DEF Passage

(* A request that arrives has passed nothing, or is answered at once.      *)
LEMMA PassArrive ==
  ASSUME TypeOK, Started, NEW r \in Request, Passed(r), Answered(r), Arrive(r)
  PROVE  Passed(r)' /\ Answered(r)'
<1> DEFINE status == boundary(shape[r])
<1>1. mode = "ready"
  BY DEF Arrive, Started
<1> QED BY <1>1 DEF TypeOK, Arrive, life, Passed, Answered, RefusalStands, InHandler

LEMMA PassRefuse ==
  ASSUME TypeOK, NEW r \in Request, Passed(r), Answered(r), NEW status, NEW close \in BOOLEAN,
         Refuse(r, status, close), phase[r] \in InHandler, ~called[r],
         UNCHANGED <<life, shape>>,
         status = "401" => identity'[r] = {}
  PROVE  Passed(r)' /\ Answered(r)'
BY DEF TypeOK, Refuse, sendJson, life, Passed, Answered, RefusalStands, InHandler

LEMMA PassAuthentication ==
  ASSUME TypeOK, NEW r \in Request, Passed(r), Answered(r), VerifierAnswers(r) \/ AuthDeadline(r)
  PROVE  Passed(r)' /\ Answered(r)'
<1> USE DEF InHandler
<1>1. CASE AuthDeadline(r)
  BY <1>1, PassRefuse DEF AuthDeadline, Passed
<1>2. CASE VerifierAnswers(r) /\ phase[r] # "auth"
  BY <1>2, StillPasses DEF VerifierAnswers, life, wire, Still
<1>3. CASE VerifierAnswers(r) /\ phase[r] = "auth" /\ ~authenticateBearer(shape[r].credential)
  BY <1>3, PassRefuse DEF VerifierAnswers, Passed
<1>4. CASE VerifierAnswers(r) /\ phase[r] = "auth" /\ authenticateBearer(shape[r].credential)
  <2>1. Admit(r) /\ UNCHANGED <<life, shape>> /\ ~called[r]
    BY <1>4 DEF VerifierAnswers, Passed
  <2>2. CASE Refuse(r, "415", TRUE)
    BY <1>4, <2>1, <2>2, PassRefuse
  <2>3. CASE ~Refuse(r, "415", TRUE)
    <3>1. phase'[r] = IF shape[r].method = "POST" THEN "body" ELSE "serving"
      BY <2>1, <2>3 DEF Admit, TypeOK
    <3>2. Admitted(r)'
      BY <1>4, <2>1 DEF Admit, Admitted, TypeOK
    <3>3. UNCHANGED <<wire, bytes, chunks, called>> /\ (shape[r].method = "POST" => shape[r].json)
      BY <2>1, <2>3 DEF Admit
    <3> QED BY <1>4, <2>1, <3>1, <3>2, <3>3
            DEF life, wire, Passed, Answered, RefusalStands, Taken
  <2> QED BY <2>2, <2>3
<1> QED BY <1>1, <1>2, <1>3, <1>4

LEMMA PassBody ==
  ASSUME TypeOK, NEW r \in Request, Passed(r), Answered(r), Data(r) \/ End(r) \/ BodyTimer(r)
  PROVE  Passed(r)' /\ Answered(r)'
<1>1. phase[r] = "body" /\ ~called[r]
  BY DEF Data, End, BodyTimer, Passed
<1>2. CASE BodyTimer(r)
  BY <1>1, <1>2, PassRefuse DEF BodyTimer, InHandler
<1>3. CASE Data(r)
  <2>1. UNCHANGED <<mode, server, shape, identity, called, told, hungUp>> /\ bytes'[r] \in Nat
    BY <1>3 DEF Data, life, TypeOK
  <2>2. CASE bytes'[r] > MaxBody
    <3>1. phase'[r] = "done" /\ answer'[r] = "413" /\ connection'[r] = "closed"
      BY <1>3, <2>2 DEF Data, sendJson, TypeOK
    <3> QED BY <1>1, <2>1, <3>1 DEF TypeOK, Passed, Answered, RefusalStands, InHandler, Admitted, Taken
  <2>3. CASE ~(bytes'[r] > MaxBody)
    <3>1. phase' = phase /\ answer' = answer /\ connection' = connection
      BY <1>3, <2>3 DEF Data
    <3>2. bytes'[r] <= MaxBody
      BY <2>1, <2>3, RemoteAssumption
    <3> QED BY <1>1, <2>1, <3>1, <3>2 DEF TypeOK, Passed, Answered, RefusalStands, InHandler, Admitted, Taken
  <2> QED BY <2>2, <2>3
<1>4. CASE End(r) /\ shape[r].wellFormed
  <2>1. Taken(r)'
    BY <1>1, <1>4 DEF End, Taken, Passed, life
  <2> QED BY <1>1, <1>4, <2>1 DEF End, life, wire, TypeOK, Passed, Answered, RefusalStands, InHandler, Admitted
<1>5. CASE End(r) /\ ~shape[r].wellFormed
  BY <1>1, <1>5, PassRefuse DEF End, InHandler
<1> QED BY <1>2, <1>3, <1>4, <1>5

LEMMA PassTools ==
  ASSUME TypeOK, NEW r \in Request, Passed(r), Answered(r), Served(r)
  PROVE  Passed(r)' /\ Answered(r)'
<1>1. CASE (LibraryAnswers(r) \/ HandlerFails(r) \/ ToolForbidden(r)) /\ phase[r] = "serving"
  <2>1. ~called[r]
    BY <1>1 DEF Passed
  <2> QED BY <1>1, <2>1, PassRefuse DEF LibraryAnswers, HandlerFails, ToolForbidden, InHandler
<1>2. CASE HandlerFails(r) /\ phase[r] = "calling"
  BY <1>2 DEF HandlerFails, Refuse, sendJson, life, TypeOK, Passed, Answered, RefusalStands, InHandler,
              Admitted, Taken, Refusal
<1>3. CASE ToolCalls(r)
  <2>1. phase[r] = "serving" /\ identity[r] = {shape[r].credential} /\ shape[r].method = "POST"
    BY <1>3 DEF ToolCalls, Passed, Admitted
  <2>2. authorizeGateway(shape[r].credential, shape[r].operation, shape[r].target)
    BY <1>3, <2>1 DEF ToolCalls
  <2> QED BY <1>3, <2>1, <2>2 DEF ToolCalls, life, wire, TypeOK, Passed, Answered, RefusalStands, InHandler,
                                  Admitted, Taken, Refusal
<1>4. CASE ToolReturns(r)
  <2>1. phase[r] = "calling" /\ called[r] /\ identity[r] = {shape[r].credential}
    BY <1>4 DEF ToolReturns, Passed, Admitted
  <2>2. UNION {allowedTargets(credential) : credential \in identity[r]} = allowedTargets(shape[r].credential)
    BY <2>1
  <2>3. told'[r] \subseteq IF shape[r].operation = "list" THEN allowedTargets(shape[r].credential)
                           ELSE {shape[r].target}
    BY <1>4, <2>2 DEF ToolReturns, TypeOK, Passed
  <2> QED BY <1>4, <2>1, <2>3 DEF ToolReturns, sendJson, life, TypeOK, Passed, Answered, RefusalStands, InHandler,
                                  Admitted, Taken, Refusal
<1> QED BY <1>1, <1>2, <1>3, <1>4
    DEF Served, LibraryAnswers, HandlerFails, ToolForbidden

(* Whoever is gone before the body was taken stays without it: only an     *)
(* open connection ends a body.                                            *)
LEMMA PassClient ==
  ASSUME TypeOK, NEW r \in Request, Passed(r), Answered(r), Client(r) \/ KeepAliveTimeout(r)
  PROVE  Passed(r)' /\ Answered(r)'
<1> USE DEF TypeOK, life, Passed, Answered, RefusalStands, InHandler, Refusal, Admitted, Taken
<1>1. CASE KeepAliveTimeout(r)
  BY <1>1 DEF KeepAliveTimeout, handling
<1>2. CASE HangUp(r)
  BY <1>2 DEF HangUp, Lost
<1>3. CASE ClientError(r)
  BY <1>3 DEF ClientError, Lost
<1> QED BY <1>1, <1>2, <1>3 DEF Client

LEMMA PassageNext == TypeOK /\ Passage /\ [Next]_vars => Passage'
<1> SUFFICES ASSUME TypeOK, Passage, [Next]_vars PROVE Passage'
  OBVIOUS
<1>1. CASE UNCHANGED vars
  BY <1>1, StillPasses DEF Passage, Started, vars, life, handling, wire, Still
<1>2. CASE startRemoteMcp \/ Close \/ LibraryCloses \/ Closed
  BY <1>2, PassageLife
<1>3. ASSUME NEW r \in Request, Timers(r) \/ Handler(r) \/ Client(r) PROVE Passage'
  <2>1. Passed(r)' /\ Answered(r)'
    BY <1>3, PassArrive, PassAuthentication, PassBody, PassTools, PassClient
       DEF Passage, Timers, Handler, Served
  <2>2. ASSUME NEW q \in Request, q # r PROVE Passed(q)' /\ Answered(q)'
    BY <1>3, <2>2, OthersAreStill, StillPasses DEF Passage
  <2>3. UNCHANGED <<mode, server>>
    BY <1>3 DEF Timers, Handler, Client, Arrive, VerifierAnswers, AuthDeadline, Data, End, BodyTimer,
                KeepAliveTimeout, LibraryAnswers, HandlerFails, ToolForbidden, ToolCalls, ToolReturns,
                HangUp, ClientError, Lost, life
  <2> QED BY <2>1, <2>2, <2>3 DEF Passage, Started
<1> QED BY <1>1, <1>2, <1>3 DEF Next

-----------------------------------------------------------------------------
(* The types, and Passage, hold at all times; in particular no body beyond *)
(* the limit is ever kept (readJsonBody).                                  *)
THEOREM PassageHolds == Spec => [](TypeOK /\ Passage)
BY TypesInit, TypesNext, PassageInit, PassageNext, PTL DEF Spec

(* Gateway Core is called only for what token, scopes, principal and       *)
(* target allow, for any policy and any number of requests                 *)
(* (createRemoteHttpServer, authenticateBearer, authorizeGateway).         *)
THEOREM Authorised == Spec => []OnlyAuthorised
<1>1. TypeOK /\ Passage => OnlyAuthorised
  <2> SUFFICES ASSUME TypeOK, Passage, NEW r \in Request, called[r]
               PROVE  LET s == shape[r]
                          token == s.credential
                      IN /\ mode = "ready"
                         /\ s.host /\ s.origin /\ s.path = "mcp" /\ s.method = "POST"
                         /\ s.wellFormed /\ s.size <= MaxBody /\ bytes[r] = s.size
                         /\ token.kind = "genuine" /\ token.principal \in DOMAIN Policy
                         /\ s.operation = "send" => "send" \in token.scopes
                         /\ s.operation = "raw" => "diagnostics" \in token.scopes
                         /\ s.operation \in {"list", "status", "semantic"} => "read" \in token.scopes
                         /\ s.operation # "list" => s.target \in Policy[token.principal]
                         /\ told[r] \subseteq Policy[token.principal]
    BY DEF OnlyAuthorised
  <2> DEFINE s == shape[r]
  <2>1. Passed(r) /\ phase[r] # "absent"
    BY DEF Passage, Passed
  <2>2. /\ mode = "ready" /\ boundary(s) = "" /\ s.method = "POST" /\ Taken(r)
        /\ authenticateBearer(s.credential) /\ authorizeGateway(s.credential, s.operation, s.target)
    BY <2>1 DEF Passed, Admitted
  <2>3. s.path \in {"metadata", "mcp", "other"}
    BY ShapeType DEF Shape
  <2>4. s.host /\ s.path = "mcp" /\ s.origin
    BY <2>2, <2>3 DEF boundary, metadataStatus
  <2>5. allowedTargets(s.credential) = Policy[s.credential.principal]
    BY <2>2 DEF authorizeGateway, allowedTargets
  <2>6. told[r] \subseteq Policy[s.credential.principal]
    BY <2>1, <2>2, <2>5 DEF Passed, authorizeGateway
  <2>7. requiredScope(s.operation) \in s.credential.scopes /\ s.credential.principal \in DOMAIN Policy
        /\ (s.operation # "list" => s.target \in Policy[s.credential.principal])
    BY <2>2, <2>5 DEF authorizeGateway
  <2> QED BY <2>2, <2>4, <2>6, <2>7 DEF Taken, authenticateBearer, requiredScope
<1> QED BY <1>1, PassageHolds, PTL

(* A refused request is never served, a request refused for its token      *)
(* never becomes anybody's (authenticateWithinDeadline, readJsonBody).     *)
THEOREM Final == Spec => []RefusalIsFinal
<1>1. Passage => RefusalIsFinal
  BY DEF Passage, Answered, RefusalIsFinal
<1> QED BY <1>1, PassageHolds, PTL

(* A client that is gone before its body was taken has had nothing done    *)
(* for it (readJsonBody).                                                  *)
THEOREM Gone == Spec => []NothingForTheGone
<1>1. Passage => NothingForTheGone
  BY DEF Passage, Answered, NothingForTheGone
<1> QED BY <1>1, PassageHolds, PTL

-----------------------------------------------------------------------------
(* Answers are final: there is nothing to send on a connection that has    *)
(* been answered or is gone, and only the parser answers by itself.        *)
LEMMA RepliesOnce ==
  ASSUME TypeOK, NEW r \in Request, Answered(r), answer[r] # "none", Timers(r) \/ Handler(r) \/ Client(r)
  PROVE  answer'[r] = answer[r] /\ told'[r] = told[r]
<1>1. connection[r] # "open" /\ phase[r] # "absent"
  BY DEF Answered
<1>2. ASSUME NEW status, NEW close, sendJson(r, status, close) PROVE answer' = answer
  BY <1>1, <1>2 DEF sendJson
<1>3. ASSUME NEW status, NEW close, Refuse(r, status, close) PROVE answer' = answer /\ told' = told
  BY <1>2, <1>3 DEF Refuse
<1>4. CASE Timers(r) \/ Client(r)
  BY <1>1, <1>3, <1>4 DEF Timers, AuthDeadline, BodyTimer, KeepAliveTimeout, Client, HangUp, ClientError, Lost
<1>5. CASE Arrive(r) \/ VerifierAnswers(r)
  BY <1>1, <1>3, <1>5 DEF Arrive, VerifierAnswers, Admit, wire
<1>6. CASE Data(r) \/ End(r)
  BY <1>1, <1>2, <1>3, <1>6 DEF Data, End, wire
<1>7. CASE LibraryAnswers(r) \/ HandlerFails(r) \/ ToolForbidden(r) \/ ToolCalls(r) \/ ToolReturns(r)
  BY <1>1, <1>2, <1>3, <1>7 DEF LibraryAnswers, HandlerFails, ToolForbidden, ToolCalls, ToolReturns, wire
<1> QED BY <1>4, <1>5, <1>6, <1>7 DEF Handler

(* No request is answered twice, whichever of deadline, verifier, body,    *)
(* tool and parser come together, and an answer that was sent tells no     *)
(* more later on (sendJson, the handler of "clientError").                 *)
THEOREM AnsweredOnce ==
  Spec => [][\A r \in Request : answer[r] # "none" => answer'[r] = answer[r] /\ told'[r] = told[r]]_vars
<1>1. ASSUME TypeOK, Passage, Next, NEW r \in Request, answer[r] # "none"
      PROVE  answer'[r] = answer[r] /\ told'[r] = told[r]
  <2>1. CASE startRemoteMcp \/ Close \/ LibraryCloses \/ Closed
    BY <2>1 DEF startRemoteMcp, Close, LibraryCloses, Closed, wire
  <2>2. CASE Timers(r) \/ Handler(r) \/ Client(r)
    BY <1>1, <2>2, RepliesOnce DEF Passage
  <2>3. ASSUME NEW q \in Request, q # r, Timers(q) \/ Handler(q) \/ Client(q)
        PROVE  answer'[r] = answer[r] /\ told'[r] = told[r]
    BY <1>1, <2>3, OthersAreStill DEF Still
  <2> QED BY <1>1, <2>1, <2>2, <2>3 DEF Next
<1>2. TypeOK /\ Passage /\ [Next]_vars
        => [\A r \in Request : answer[r] # "none" => answer'[r] = answer[r] /\ told'[r] = told[r]]_vars
  BY <1>1
<1> QED BY <1>2, PassageHolds, PTL DEF Spec

-----------------------------------------------------------------------------
(* Why handlers end and shutdown does: the endpoint only goes forward.     *)
Course(state) ==
  IF state = "starting" THEN 0 ELSE IF state = "listening" THEN 1 ELSE IF state = "closing" THEN 2 ELSE 3

Stage(where) ==
  IF where = "absent" THEN 0 ELSE IF where = "auth" THEN 1 ELSE IF where = "body" THEN 2
  ELSE IF where = "serving" THEN 3 ELSE IF where = "calling" THEN 4 ELSE 5

Link(state) == IF state = "none" THEN 0 ELSE IF state = "open" THEN 1 ELSE IF state = "idle" THEN 2 ELSE 3

(* A request moves on; or its connection nears its end, a chunk of its     *)
(* body within the limit arrives or its late verifier answers, and the     *)
(* rest of what it has is what it was.                                     *)
Further(r) ==
  \/ Stage(phase[r]) < Stage(phase'[r])
  \/ /\ phase'[r] = phase[r]
     /\ \/ Link(connection[r]) < Link(connection'[r])
        \/ /\ connection'[r] = connection[r]
           /\ \/ bytes[r] < bytes'[r] /\ bytes'[r] <= MaxBody
              \/ bytes'[r] = bytes[r] /\ verifying[r] /\ ~verifying'[r]

Advances ==
  \/ Course(server) < Course(server')
  \/ server' = server /\ ~mcpClosed /\ mcpClosed'
  \/ /\ server' = server /\ mcpClosed' = mcpClosed
     /\ \E r \in Request : Further(r) /\ \A q \in Request \ {r} : Still(q) /\ verifying'[q] = verifying[q]

LEMMA Later == ASSUME TypeOK, NEW r \in Request, phase[r] # "done", phase'[r] = "done" PROVE Further(r)
<1>1. Stage(phase[r]) < Stage("done")
  BY DEF TypeOK, Phase, Stage
<1> QED BY <1>1 DEF Further

LEMMA RefusedIsDone ==
  ASSUME TypeOK, NEW r \in Request, NEW status, NEW close, phase[r] # "done", Refuse(r, status, close)
  PROVE  Further(r)
<1>1. phase'[r] = "done"
  BY DEF Refuse, TypeOK
<1> QED BY <1>1, Later

LEMMA GoesFurther ==
  ASSUME TypeOK, NEW r \in Request, NEW where, Stage(phase[r]) < Stage(where),
         phase' = [phase EXCEPT ![r] = where]
  PROVE  Further(r)
<1>1. phase'[r] = where
  BY DEF TypeOK
<1> QED BY <1>1 DEF Further

LEMMA ConnectionsEnd ==
  ASSUME TypeOK, NEW r \in Request, Client(r) \/ KeepAliveTimeout(r)
  PROVE  Further(r)
<1>1. /\ connection[r] \in {"open", "idle"} /\ connection' = [connection EXCEPT ![r] = "closed"]
      /\ phase' = phase \/ (phase[r] = "body" /\ phase' = [phase EXCEPT ![r] = "done"])
  BY DEF Client, HangUp, ClientError, Lost, KeepAliveTimeout, handling
<1>2. CASE phase' = phase
  <2>1. connection'[r] = "closed"
    BY <1>1 DEF TypeOK
  <2>2. Link(connection[r]) < Link("closed")
    BY <1>1 DEF Link
  <2> QED BY <1>2, <2>1, <2>2 DEF Further
<1>3. CASE phase[r] = "body" /\ phase' = [phase EXCEPT ![r] = "done"]
  <2>1. Stage("body") < Stage("done")
    BY DEF Stage
  <2> QED BY <1>3, <2>1, GoesFurther
<1> QED BY <1>1, <1>2, <1>3

LEMMA AuthenticationEnds ==
  ASSUME TypeOK, NEW r \in Request, Arrive(r) \/ VerifierAnswers(r) \/ AuthDeadline(r)
  PROVE  Further(r)
<1>1. CASE Arrive(r)
  <2>1. phase[r] = "absent" /\ \E where \in {"auth", "done"} : phase' = [phase EXCEPT ![r] = where]
    BY <1>1 DEF Arrive
  <2>2. Stage("absent") < Stage("auth") /\ Stage("absent") < Stage("done")
    BY DEF Stage
  <2> QED BY <2>1, <2>2, GoesFurther
<1>2. CASE AuthDeadline(r)
  <2>1. phase[r] # "done" /\ Refuse(r, "401", TRUE)
    BY <1>2 DEF AuthDeadline
  <2> QED BY <2>1, RefusedIsDone
<1>3. CASE VerifierAnswers(r)
  <2>1. CASE phase[r] = "auth" /\ Admit(r)
    <3>1. \E where \in {"body", "serving", "done"} : phase' = [phase EXCEPT ![r] = where]
      BY <2>1 DEF Admit, Refuse
    <3>2. Stage("auth") < Stage("body") /\ Stage("auth") < Stage("serving") /\ Stage("auth") < Stage("done")
      BY DEF Stage
    <3> QED BY <2>1, <3>1, <3>2, GoesFurther
  <2>2. CASE phase[r] = "auth" /\ Refuse(r, "401", TRUE)
    <3>1. phase[r] # "done"
      BY <2>2
    <3> QED BY <2>2, <3>1, RefusedIsDone
  <2>3. CASE UNCHANGED <<phase, identity, bytes, chunks, called, wire>>
    <3>1. verifying[r] /\ verifying' = [verifying EXCEPT ![r] = FALSE]
      BY <1>3 DEF VerifierAnswers
    <3>2. ~verifying'[r]
      BY <3>1 DEF TypeOK
    <3>3. phase' = phase /\ connection' = connection /\ bytes' = bytes
      BY <2>3 DEF wire
    <3> QED BY <3>1, <3>2, <3>3 DEF Further
  <2> QED BY <1>3, <2>1, <2>2, <2>3 DEF VerifierAnswers
<1> QED BY <1>1, <1>2, <1>3

LEMMA BodiesEnd ==
  ASSUME TypeOK, NEW r \in Request, Data(r) \/ End(r) \/ BodyTimer(r)
  PROVE  Further(r)
<1>1. phase[r] = "body" /\ phase[r] # "done" /\ bytes[r] \in Nat /\ MaxBody \in Nat
  BY RemoteAssumption DEF Data, End, BodyTimer, TypeOK
<1>2. Stage("body") < Stage("done") /\ Stage("body") < Stage("serving")
  BY DEF Stage
<1>3. CASE End(r) \/ BodyTimer(r)
  <2>1. phase' = [phase EXCEPT ![r] = "serving"] \/ \E status : \E close \in BOOLEAN : Refuse(r, status, close)
    BY <1>3 DEF End, BodyTimer
  <2> QED BY <1>1, <1>2, <2>1, GoesFurther, RefusedIsDone
<1>4. CASE Data(r)
  <2>1. bytes'[r] = bytes[r] + 1
    BY <1>4 DEF Data, TypeOK
  <2>2. CASE bytes'[r] > MaxBody
    <3>1. phase' = [phase EXCEPT ![r] = "done"]
      BY <1>4, <2>2 DEF Data
    <3> QED BY <1>1, <1>2, <3>1, GoesFurther
  <2>3. CASE ~(bytes'[r] > MaxBody)
    <3>1. phase' = phase /\ connection' = connection
      BY <1>4, <2>3 DEF Data
    <3>2. bytes[r] < bytes'[r] /\ bytes'[r] <= MaxBody
      BY <1>1, <2>1, <2>3
    <3> QED BY <3>1, <3>2 DEF Further
  <2> QED BY <2>2, <2>3
<1> QED BY <1>3, <1>4

LEMMA ToolsEnd ==
  ASSUME TypeOK, NEW r \in Request, Served(r)
  PROVE  Further(r)
<1>1. phase[r] \in {"serving", "calling"} /\ phase[r] # "done"
  BY DEF Served, LibraryAnswers, HandlerFails, ToolForbidden, ToolCalls, ToolReturns
<1>2. CASE ToolCalls(r)
  <2>1. phase[r] = "serving" /\ phase' = [phase EXCEPT ![r] = "calling"]
    BY <1>2 DEF ToolCalls
  <2>2. Stage("serving") < Stage("calling")
    BY DEF Stage
  <2> QED BY <2>1, <2>2, GoesFurther
<1>3. CASE ToolReturns(r)
  <2>1. phase'[r] = "done"
    BY <1>3 DEF ToolReturns, TypeOK
  <2> QED BY <1>1, <2>1, Later
<1>4. CASE LibraryAnswers(r) \/ HandlerFails(r) \/ ToolForbidden(r)
  <2>1. \E status : \E close \in BOOLEAN : Refuse(r, status, close)
    BY <1>4 DEF LibraryAnswers, HandlerFails, ToolForbidden
  <2> QED BY <1>1, <2>1, RefusedIsDone
<1> QED BY <1>2, <1>3, <1>4 DEF Served

LEMMA OnlyItsVerifier ==
  ASSUME TypeOK, NEW r \in Request, Timers(r) \/ Handler(r) \/ Client(r), NEW q \in Request, q # r
  PROVE  verifying'[q] = verifying[q]
BY DEF TypeOK, Timers, Handler, Client, Arrive, VerifierAnswers, AuthDeadline, Data, End, BodyTimer,
       KeepAliveTimeout, LibraryAnswers, HandlerFails, ToolForbidden, ToolCalls, ToolReturns,
       HangUp, ClientError, Lost, handling

(* Every step brings the endpoint nearer to its end, in a well-founded     *)
(* order, whatever clients and verifiers do: shutdown goes on, or one      *)
(* request goes to a later part of its handler, takes more of its body     *)
(* within the limit, loses its connection or hears from a verifier it no   *)
(* longer waits for.  No request is handled twice, nor leads another one   *)
(* back (createRemoteHttpServer, startRemoteMcp).                          *)
THEOREM EndpointAdvances == Spec => [][Advances]_vars
<1>1. ASSUME TypeOK, Next PROVE Advances
  <2>1. CASE startRemoteMcp
    <3>1. server = "starting" /\ server' \in {"disabled", "failed", "listening"}
      BY <2>1 DEF startRemoteMcp
    <3> QED BY <3>1 DEF Advances, Course
  <2>2. CASE Close \/ Closed
    <3>1. (server = "listening" /\ server' = "closing") \/ (server = "closing" /\ server' = "closed")
      BY <2>2 DEF Close, Closed
    <3> QED BY <3>1 DEF Advances, Course
  <2>3. CASE LibraryCloses
    BY <2>3 DEF LibraryCloses, Advances
  <2>4. ASSUME NEW r \in Request, Timers(r) \/ Handler(r) \/ Client(r) PROVE Advances
    <3>1. Further(r)
      BY <1>1, <2>4, ConnectionsEnd, AuthenticationEnds, BodiesEnd, ToolsEnd DEF Timers, Handler, Served
    <3>2. ASSUME NEW q \in Request, q # r PROVE Still(q) /\ verifying'[q] = verifying[q]
      BY <1>1, <2>4, <3>2, OthersAreStill, OnlyItsVerifier
    <3>3. UNCHANGED <<server, mcpClosed>>
      BY <2>4 DEF Timers, Handler, Client, Arrive, VerifierAnswers, AuthDeadline, Data, End, BodyTimer,
                  KeepAliveTimeout, LibraryAnswers, HandlerFails, ToolForbidden, ToolCalls, ToolReturns,
                  HangUp, ClientError, Lost, life
    <3> QED BY <3>1, <3>2, <3>3 DEF Advances
  <2> QED BY <1>1, <2>1, <2>2, <2>3, <2>4 DEF Next
<1>2. TypeOK /\ [Next]_vars => [Advances]_vars
  BY <1>1
<1> QED BY <1>2, TypesInit, TypesNext, PTL DEF Spec

=============================================================================
