------------------------------ MODULE RemoteMcp ------------------------------
(***************************************************************************)
(* The remote MCP endpoint: its start, the handler of a request            *)
(* (createRemoteHttpServer in src/src/mcp-http.ts), the authentication     *)
(* and authorization in front of Gateway Core (src/src/remote-auth.ts) and *)
(* its shutdown.  Requests run concurrently; in each a verifier that may   *)
(* be late, a client that may stall or hang up and two timers race.        *)
(*                                                                         *)
(* A connection carries one request.  The MCP library between the handler  *)
(* and the tools is external, and a bearer token is what it says: whether  *)
(* the verifier will accept it, for whom, and with which scopes.           *)
(***************************************************************************)
EXTENDS Naturals, FiniteSets

CONSTANTS
  Request,    \* requests clients may make
  Principal,  \* identities a token may carry
  Alias,      \* targets
  Policy,     \* [the configured principals -> the targets each may use]
  MaxBody,    \* REMOTE_MAX_REQUEST_BODY_BYTES, in chunks
  Arrivals    \* what the clients may send: functions of Request to Shape

Scope == {"read", "send", "diagnostics"}

Operation == {"list", "status", "send", "semantic", "raw"}

(* "none": no bearer token; "bad": the verifier rejects it; "foreign": it  *)
(* was issued for another resource.                                        *)
Credential == [kind : {"none", "bad", "foreign", "genuine"},
               principal : Principal, scopes : SUBSET Scope]

(* declared is the Content-Length, size what the client means to send.     *)
Shape == [host : BOOLEAN, path : {"metadata", "mcp", "other"},
          declared : {"none", "malformed", "over", "fits"}, chunked : BOOLEAN,
          origin : BOOLEAN, method : {"GET", "HEAD", "OPTIONS", "POST", "DELETE", "PUT"},
          json : BOOLEAN, credential : Credential, size : Nat, wellFormed : BOOLEAN,
          operation : Operation, target : Alias]

(* Node delivers no more than was declared, and nothing without framing.   *)
Deliverable(s) ==
  \/ s.chunked
  \/ s.declared = "fits" /\ s.size \in 1..MaxBody
  \/ s.declared = "none" /\ s.size = 0
  \/ s.declared \in {"malformed", "over"}

ASSUME RemoteAssumption ==
  /\ DOMAIN Policy \subseteq Principal
  /\ \A principal \in DOMAIN Policy : Policy[principal] \subseteq Alias
  /\ MaxBody \in Nat \ {0}
  /\ Arrivals \subseteq [Request -> Shape]
  /\ \A arrival \in Arrivals, r \in Request : Deliverable(arrival[r])

VARIABLES
  mode,        \* how it was started: "disabled", "unverified" or "ready"
  server,      \* "starting", "disabled", "failed", "listening", "closing", "closed"
  mcpClosed,   \* the MCP library has been closed
  shape,       \* what each request is
  phase,       \* where its handler is
  verifying,   \* the verifier has not answered
  identity,    \* the credential the handler accepted for it, in a set
  connection,  \* "none", "open", "idle" once answered, or "closed"
  bytes,       \* chunks of its body the handler has seen
  chunks,      \* and kept
  called,      \* Gateway Core was called for it
  answer,      \* the status it was answered with
  told,        \* targets the answer says something about
  hungUp       \* the handler's phase when the client hung up

life == <<mode, server, mcpClosed>>
handling == <<phase, verifying, identity, bytes, chunks, called>>
wire == <<connection, answer, told, hungUp>>
vars == <<life, shape, handling, wire>>

Init ==
  /\ mode \in {"disabled", "unverified", "ready"}
  /\ server = "starting"
  /\ mcpClosed = FALSE
  /\ shape \in Arrivals
  /\ phase = [r \in Request |-> "absent"]
  /\ verifying = [r \in Request |-> FALSE]
  /\ identity = [r \in Request |-> {}]
  /\ connection = [r \in Request |-> "none"]
  /\ bytes = [r \in Request |-> 0]
  /\ chunks = [r \in Request |-> 0]
  /\ called = [r \in Request |-> FALSE]
  /\ answer = [r \in Request |-> "none"]
  /\ told = [r \in Request |-> {}]
  /\ hungUp = [r \in Request |-> "no"]

-----------------------------------------------------------------------------
(* startRemoteMcp.                                                         *)

startRemoteMcp ==
  /\ server = "starting"
  /\ server' \in IF mode = "disabled" THEN {"disabled"}
                 ELSE IF mode = "unverified" THEN {"failed"}
                 ELSE {"listening", "failed"}
  /\ mcpClosed' = (mode = "ready" /\ server' = "failed")
  /\ UNCHANGED <<mode, shape, handling, wire>>

-----------------------------------------------------------------------------
(* Answers.                                                                *)

(* sendJson: nothing can be sent on a connection that is gone; the answers *)
(* that ask for it close the connection.                                   *)
sendJson(r, status, closeConnection) ==
  IF connection[r] = "open"
  THEN /\ answer' = [answer EXCEPT ![r] = status]
       /\ connection' = [connection EXCEPT ![r] =
            IF closeConnection THEN "closed" ELSE "idle"]
  ELSE UNCHANGED <<answer, connection>>

Refuse(r, status, closeConnection) ==
  /\ sendJson(r, status, closeConnection)
  /\ phase' = [phase EXCEPT ![r] = "done"]
  /\ UNCHANGED <<told, hungUp, bytes, chunks, called>>

(* What the handler says before it looks at the token: "" to go on.        *)
hasBodyFraming(s) == s.declared = "fits" \/ s.chunked

metadataStatus(method) ==
  IF method = "OPTIONS" THEN "204" ELSE IF method \in {"GET", "HEAD"} THEN "200" ELSE "405"

boundary(s) ==
  IF ~s.host THEN "403"
  ELSE IF s.declared = "malformed" THEN "400"
  ELSE IF s.declared = "over" THEN "413"
  ELSE IF s.path = "metadata" THEN IF hasBodyFraming(s) THEN "400" ELSE metadataStatus(s.method)
  ELSE IF s.path = "other" THEN "404"
  ELSE IF ~s.origin THEN "403"
  ELSE IF s.method \notin {"POST", "GET", "DELETE"} THEN "405"
  ELSE IF s.method # "POST" /\ hasBodyFraming(s) THEN "400"
  ELSE IF s.credential.kind = "none" THEN "401"
  ELSE ""

(* The head of a request has arrived: the handler runs up to its first     *)
(* await, the verifier.                                                    *)
Arrive(r) ==
  /\ server = "listening"
  /\ phase[r] = "absent"
  /\ LET status == boundary(shape[r])
     IN IF status = ""
        THEN /\ phase' = [phase EXCEPT ![r] = "auth"]
             /\ verifying' = [verifying EXCEPT ![r] = TRUE]
             /\ connection' = [connection EXCEPT ![r] = "open"]
             /\ UNCHANGED answer
        ELSE /\ phase' = [phase EXCEPT ![r] = "done"]
             /\ answer' = [answer EXCEPT ![r] = status]
             /\ connection' = [connection EXCEPT ![r] =
                  IF status \in {"400", "401", "413"} THEN "closed" ELSE "idle"]
             /\ UNCHANGED verifying
  /\ UNCHANGED <<life, shape, identity, bytes, chunks, called, told, hungUp>>

-----------------------------------------------------------------------------
(* Authentication.                                                         *)

(* Mutant: the resource is not compared.                                   *)
authenticateBearerAnywhere(credential) == credential.kind \in {"genuine", "foreign"}

(* authenticateBearer: a token the verifier accepts, for this resource.    *)
authenticateBearer(credential) == credential.kind = "genuine"

Admit(r) ==
  /\ identity' = [identity EXCEPT ![r] = {shape[r].credential}]
  /\ IF shape[r].method = "POST" /\ ~shape[r].json
     THEN Refuse(r, "415", TRUE)
     ELSE /\ phase' = [phase EXCEPT ![r] = IF shape[r].method = "POST" THEN "body" ELSE "serving"]
          /\ UNCHANGED <<wire, bytes, chunks, called>>

(* Mutant: the handler goes on whenever the verifier answers.              *)
VerifierAnswersLate(r) ==
  /\ verifying[r]
  /\ verifying' = [verifying EXCEPT ![r] = FALSE]
  /\ IF authenticateBearer(shape[r].credential) THEN Admit(r)
     ELSE UNCHANGED identity /\ Refuse(r, "401", TRUE)
  /\ UNCHANGED <<life, shape>>

(* A verifier that answers after the deadline is not listened to.          *)
VerifierAnswers(r) ==
  /\ verifying[r]
  /\ verifying' = [verifying EXCEPT ![r] = FALSE]
  /\ \/ phase[r] = "auth" /\ authenticateBearer(shape[r].credential) /\ Admit(r)
     \/ /\ phase[r] = "auth" /\ ~authenticateBearer(shape[r].credential)
        /\ Refuse(r, "401", TRUE)
        /\ UNCHANGED identity
     \/ phase[r] # "auth" /\ UNCHANGED <<phase, identity, bytes, chunks, called, wire>>
  /\ UNCHANGED <<life, shape>>


AuthDeadline(r) ==
  /\ phase[r] = "auth"
  /\ Refuse(r, "401", TRUE)
  /\ UNCHANGED <<life, shape, verifying, identity>>

-----------------------------------------------------------------------------
(* readJsonBody.  Its listeners are attached after authentication, so a    *)
(* client that hung up before leaves only the timer to end it.             *)

Data(r) ==
  /\ phase[r] = "body"
  /\ connection[r] = "open"
  /\ bytes[r] < shape[r].size
  /\ bytes' = [bytes EXCEPT ![r] = @ + 1]
  /\ IF bytes'[r] > MaxBody
     THEN /\ sendJson(r, "413", TRUE)
          /\ phase' = [phase EXCEPT ![r] = "done"]
          /\ UNCHANGED chunks
     ELSE /\ chunks' = [chunks EXCEPT ![r] = @ + 1]
          /\ UNCHANGED <<phase, answer, connection>>
  /\ UNCHANGED <<life, shape, verifying, identity, called, told, hungUp>>

(* Mutant: the end of the stream is taken for the end of the body.         *)
EndOnAbort(r) ==
  /\ phase[r] = "body"
  /\ \/ connection[r] = "closed" /\ shape[r].wellFormed
     \/ connection[r] = "open" /\ bytes[r] = shape[r].size
  /\ IF shape[r].wellFormed
     THEN /\ phase' = [phase EXCEPT ![r] = "serving"]
          /\ UNCHANGED <<wire, bytes, chunks, called>>
     ELSE Refuse(r, "400", FALSE)
  /\ UNCHANGED <<life, shape, verifying, identity>>

End(r) ==
  /\ phase[r] = "body"
  /\ connection[r] = "open"
  /\ bytes[r] = shape[r].size
  /\ IF shape[r].wellFormed
     THEN /\ phase' = [phase EXCEPT ![r] = "serving"]
          /\ UNCHANGED <<wire, bytes, chunks, called>>
     ELSE Refuse(r, "400", FALSE)
  /\ UNCHANGED <<life, shape, verifying, identity>>

(* Mutant: the timer is only armed while there is a client.                *)
BodyTimerOfClient(r) ==
  /\ phase[r] = "body"
  /\ connection[r] = "open"
  /\ Refuse(r, "408", TRUE)
  /\ UNCHANGED <<life, shape, verifying, identity>>

BodyTimer(r) ==
  /\ phase[r] = "body"
  /\ Refuse(r, "408", TRUE)
  /\ UNCHANGED <<life, shape, verifying, identity>>

-----------------------------------------------------------------------------
(* The tools, behind authorizeGateway.                                     *)

(* Mutant: raw output needs no more than the scope to read.                *)
requiredScopeReads(operation) == IF operation = "send" THEN "send" ELSE "read"

requiredScope(operation) ==
  IF operation = "send" THEN "send"
  ELSE IF operation = "raw" THEN "diagnostics"
  ELSE "read"

allowedTargets(credential) ==
  IF credential.principal \in DOMAIN Policy THEN Policy[credential.principal] ELSE {}

authorizeGateway(credential, operation, target) ==
  /\ credential.principal \in DOMAIN Policy
  /\ requiredScope(operation) \in credential.scopes
  /\ operation # "list" => target \in allowedTargets(credential)

(* The library answers what is not a call of a tool, or fails.             *)
LibraryAnswers(r) ==
  /\ phase[r] = "serving"
  /\ Refuse(r, "protocol", FALSE)
  /\ UNCHANGED <<life, shape, verifying, identity>>

HandlerFails(r) ==
  /\ phase[r] \in {"serving", "calling"}
  /\ Refuse(r, "500", TRUE)
  /\ UNCHANGED <<life, shape, verifying, identity>>

ToolForbidden(r) ==
  /\ phase[r] = "serving"
  /\ shape[r].method = "POST"
  /\ \E credential \in identity[r] :
       ~authorizeGateway(credential, shape[r].operation, shape[r].target)
  /\ Refuse(r, "FORBIDDEN", FALSE)
  /\ UNCHANGED <<life, shape, verifying, identity>>

ToolCalls(r) ==
  /\ phase[r] = "serving"
  /\ shape[r].method = "POST"
  /\ \E credential \in identity[r] :
       authorizeGateway(credential, shape[r].operation, shape[r].target)
  /\ called' = [called EXCEPT ![r] = TRUE]
  /\ phase' = [phase EXCEPT ![r] = "calling"]
  /\ UNCHANGED <<life, shape, verifying, identity, bytes, chunks, wire>>

(* Mutant: a list is not cut down.                                         *)
ToolReturnsEverything(r) ==
  /\ phase[r] = "calling"
  /\ sendJson(r, "200", FALSE)
  /\ phase' = [phase EXCEPT ![r] = "done"]
  /\ told' = IF connection[r] # "open" THEN told
             ELSE [told EXCEPT ![r] = IF shape[r].operation # "list" THEN {shape[r].target} ELSE Alias]
  /\ UNCHANGED <<life, shape, verifying, identity, bytes, chunks, called, hungUp>>

(* Gateway Core ends, with a result or an error; a list is cut down to the *)
(* targets of the principal.                                               *)
ToolReturns(r) ==
  /\ phase[r] = "calling"
  /\ sendJson(r, "200", FALSE)
  /\ phase' = [phase EXCEPT ![r] = "done"]
  /\ told' = IF connection[r] # "open" THEN told
             ELSE [told EXCEPT ![r] =
                     IF shape[r].operation # "list" THEN {shape[r].target}
                     ELSE UNION {allowedTargets(credential) : credential \in identity[r]}]
  /\ UNCHANGED <<life, shape, verifying, identity, bytes, chunks, called, hungUp>>

-----------------------------------------------------------------------------
(* The client and its connection.                                          *)

(* The client hangs up, or the parser gives up on it and answers by itself *)
(* ("clientError"); the body, if it is being read, is aborted.             *)
Lost(r) ==
  /\ connection' = [connection EXCEPT ![r] = "closed"]
  /\ hungUp' = IF connection[r] = "open" THEN [hungUp EXCEPT ![r] = phase[r]] ELSE hungUp
  /\ phase' = IF phase[r] = "body" THEN [phase EXCEPT ![r] = "done"] ELSE phase
  /\ UNCHANGED <<life, shape, verifying, identity, bytes, chunks, called, told>>

HangUp(r) ==
  /\ connection[r] \in {"open", "idle"}
  /\ Lost(r)
  /\ UNCHANGED answer

ClientError(r) ==
  /\ connection[r] = "open"
  /\ Lost(r)
  /\ answer' = [answer EXCEPT ![r] = "raw 400"]

KeepAliveTimeout(r) ==
  /\ connection[r] = "idle"
  /\ connection' = [connection EXCEPT ![r] = "closed"]
  /\ UNCHANGED <<life, shape, handling, answer, told, hungUp>>

-----------------------------------------------------------------------------
(* Shutdown: close() closes the library and the server, at once, and waits *)
(* for both; the server waits for its connections.                         *)

Close ==
  /\ server = "listening"
  /\ server' = "closing"
  /\ connection' = [r \in Request |-> IF connection[r] = "idle" THEN "closed" ELSE connection[r]]
  /\ UNCHANGED <<mode, mcpClosed, shape, handling, answer, told, hungUp>>

LibraryCloses ==
  /\ server = "closing"
  /\ ~mcpClosed
  /\ mcpClosed' = TRUE
  /\ UNCHANGED <<mode, server, shape, handling, wire>>

Closed ==
  /\ server = "closing"
  /\ mcpClosed
  /\ \A r \in Request : connection[r] \in {"none", "closed"}
  /\ server' = "closed"
  /\ UNCHANGED <<mode, mcpClosed, shape, handling, wire>>

-----------------------------------------------------------------------------
Timers(r) == AuthDeadline(r) \/ BodyTimer(r) \/ KeepAliveTimeout(r)

Handler(r) ==
  \/ Arrive(r) \/ VerifierAnswers(r) \/ Data(r) \/ End(r)
  \/ LibraryAnswers(r) \/ HandlerFails(r) \/ ToolForbidden(r) \/ ToolCalls(r) \/ ToolReturns(r)

Client(r) == HangUp(r) \/ ClientError(r)

Next ==
  \/ startRemoteMcp \/ Close \/ LibraryCloses \/ Closed
  \/ \E r \in Request : Timers(r) \/ Handler(r) \/ Client(r)

Spec == Init /\ [][Next]_vars

(* Timers fire; the library passes a request on and closes; a tool ends    *)
(* because every operation of Gateway Core does.  Neither the client nor   *)
(* the verifier is assumed to do anything.                                 *)
Served(r) == LibraryAnswers(r) \/ HandlerFails(r) \/ ToolForbidden(r) \/ ToolCalls(r) \/ ToolReturns(r)

FairSpec ==
  /\ Spec
  /\ WF_vars(LibraryCloses)
  /\ WF_vars(Closed)
  /\ \A r \in Request : WF_vars(Timers(r)) /\ WF_vars(Served(r))

-----------------------------------------------------------------------------
Status == {"none", "200", "204", "400", "401", "403", "404", "405", "408", "413", "415", "500",
           "protocol", "FORBIDDEN", "raw 400"}

Phase == {"absent", "auth", "body", "serving", "calling", "done"}

(* The types; a body is never kept beyond the limit (readJsonBody).        *)
TypeOK ==
  /\ mode \in {"disabled", "unverified", "ready"}
  /\ server \in {"starting", "disabled", "failed", "listening", "closing", "closed"}
  /\ mcpClosed \in BOOLEAN
  /\ shape \in Arrivals
  /\ phase \in [Request -> Phase]
  /\ verifying \in [Request -> BOOLEAN]
  /\ identity \in [Request -> SUBSET Credential]
  /\ connection \in [Request -> {"none", "open", "idle", "closed"}]
  /\ bytes \in [Request -> Nat]
  /\ chunks \in [Request -> 0..MaxBody]
  /\ \A r \in Request : chunks[r] <= bytes[r]
  /\ called \in [Request -> BOOLEAN]
  /\ answer \in [Request -> Status]
  /\ told \in [Request -> SUBSET Alias]
  /\ hungUp \in [Request -> {"no"} \cup Phase]

(* Gateway Core is called for a request, and an answer tells of a target,  *)
(* only on an endpoint started with a verifier, for a token of this        *)
(* resource whose principal is configured with that target and whose       *)
(* scopes cover the operation, and only after the whole of a body within   *)
(* the limit (createRemoteHttpServer, authenticateBearer,                  *)
(* authorizeGateway).                                                      *)
OnlyAuthorised ==
  \A r \in Request :
    LET s == shape[r]
        token == s.credential
    IN called[r] =>
         /\ mode = "ready"
         /\ s.host /\ s.origin /\ s.path = "mcp" /\ s.method = "POST"
         /\ s.wellFormed /\ s.size <= MaxBody /\ bytes[r] = s.size
         /\ token.kind = "genuine" /\ token.principal \in DOMAIN Policy
         /\ s.operation = "send" => "send" \in token.scopes
         /\ s.operation = "raw" => "diagnostics" \in token.scopes
         /\ s.operation \in {"list", "status", "semantic"} => "read" \in token.scopes
         /\ s.operation # "list" => s.target \in Policy[token.principal]
         /\ told[r] \subseteq Policy[token.principal]

Refusal == {"400", "401", "403", "404", "405", "408", "413", "415", "FORBIDDEN"}

(* A request the handler refused is never served, and one refused for its  *)
(* token never becomes anybody's: not when the verifier answers after the  *)
(* deadline, nor when the rest of the body arrives after the limit or the  *)
(* timer (authenticateWithinDeadline, readJsonBody).                       *)
RefusalStands(r) ==
  /\ answer[r] \in Refusal => ~called[r]
  /\ answer[r] = "401" => identity[r] = {}

RefusalIsFinal == \A r \in Request : RefusalStands(r)

(* A client that is gone before its body was taken has had nothing done    *)
(* for it (readJsonBody).                                                  *)
NothingForTheGone == \A r \in Request : hungUp[r] \in {"auth", "body"} => ~called[r]

(* Why: what a request has passed, by where its handler is.                *)
Admitted(r) ==
  /\ identity[r] = {shape[r].credential}
  /\ authenticateBearer(shape[r].credential)

Taken(r) ==
  shape[r].method = "POST" =>
    shape[r].json /\ shape[r].wellFormed /\ bytes[r] = shape[r].size /\ bytes[r] <= MaxBody

InHandler == {"auth", "body", "serving", "calling"}

Passed(r) ==
  /\ phase[r] # "absent" => mode = "ready"
  /\ phase[r] \in InHandler \/ called[r] => boundary(shape[r]) = ""
  /\ phase[r] \in {"absent", "auth"} => identity[r] = {}
  /\ phase[r] \in {"absent", "auth", "body"} => bytes[r] <= MaxBody
  /\ phase[r] = "body" => Admitted(r) /\ shape[r].method = "POST" /\ shape[r].json
  /\ phase[r] = "serving" => Admitted(r) /\ Taken(r)
  /\ called[r] =>
       /\ Admitted(r) /\ Taken(r)
       /\ shape[r].method = "POST"
       /\ authorizeGateway(shape[r].credential, shape[r].operation, shape[r].target)
       /\ phase[r] \in {"calling", "done"}
  /\ phase[r] = "calling" => called[r]
  /\ told[r] # {} => called[r]
  /\ told[r] \subseteq IF shape[r].operation = "list" THEN allowedTargets(shape[r].credential) ELSE {shape[r].target}

(* An open connection has no answer yet; what was answered stays answered. *)
Answered(r) ==
  /\ phase[r] = "absent" => connection[r] = "none" /\ hungUp[r] = "no" /\ answer[r] = "none"
  /\ phase[r] \in InHandler => answer[r] \in {"none", "raw 400"}
  /\ connection[r] = "open" => answer[r] = "none" /\ hungUp[r] = "no"
  /\ RefusalStands(r)
  /\ hungUp[r] \in {"auth", "body"} =>
       /\ connection[r] = "closed"
       /\ ~called[r]
       /\ phase[r] = "serving" => shape[r].method # "POST"

Started == server \in {"listening", "closing", "closed"} => mode = "ready"

Passage == Started /\ \A r \in Request : Passed(r) /\ Answered(r)

(* The handler of every request ends, whatever client and verifier do: a   *)
(* client that hangs up during authentication leaves only the timer of the *)
(* body (createRemoteHttpServer).                                          *)
HandlersEnd == \A r \in Request : phase[r] # "absent" ~> phase[r] = "done"


=============================================================================
