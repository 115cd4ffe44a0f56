--------------------------- MODULE Auth0Verifier ---------------------------
(***************************************************************************)
(* `firstmate-gateway-remote` (src/src/mcp-http-auth0.ts): how it comes to *)
(* listen, on the word of one Auth0 tenant, and how the access tokens that *)
(* RemoteMcp hands over are then verified (src/src/auth0-verifier.ts) with *)
(* signing keys the tenant may change at any time.                         *)
(*                                                                         *)
(* The key set is kept by the library (jose): a copy serves for ten        *)
(* minutes, is fetched again when it is older, and when a token names a    *)
(* key it lacks, but not within half a minute of the last time; whoever    *)
(* needs it while it is being fetched waits for the same fetch.            *)
(*                                                                         *)
(* The tenant publishes one edition of its key set after another.          *)
(***************************************************************************)
EXTENDS Naturals, Sequences

CONSTANTS
  Key,           \* names of signing keys
  Verification,  \* calls of verifyAccessToken
  Tokens,        \* what they may be called with: functions of Verification
  Signal,        \* SIGINT and SIGTERM
  Edition,       \* the key sets the tenant may publish
  Editions,      \* bound: how many it publishes
  MaxBytes       \* AUTH0_MAX_DISCOVERY_BYTES and AUTH0_MAX_JWKS_BYTES, in chunks

Claims ==
  {"good", "expired", "other resource", "more resources", "two clients", "no client", "bad scope"}

Document == {"tenant", "other issuer", "other keys", "malformed"}

(* A flawed key set has a key that cannot be imported, or two of one name. *)
Token == [key : Key, signed : BOOLEAN, claims : Claims, size : {"none", "normal", "oversized"}]

ASSUME Auth0Assumption ==
  /\ Tokens \subseteq [Verification -> Token]
  /\ Edition \subseteq [keys : SUBSET Key, flawed : BOOLEAN]
  /\ Editions \in Nat \ {0}
  /\ MaxBytes \in [{"discovery", "keys"} -> Nat]

VARIABLES
  config,     \* what the runner is given
  phase,      \* where it is: it starts, listens, closes, has exited
  code,       \* its exit code
  handlers,   \* the signals it still handles
  fetch,      \* the fetch under way
  editions,   \* the key sets published so far, in order
  metadata,   \* the discovery document it relies on
  known,      \* the edition of its copy of the key set, 0 before it has one
  fresh,      \* the copy is not older than ten minutes
  cooling,    \* nor older than thirty seconds
  state,      \* of each verification
  token,      \* its token
  expired,    \* the verifications whose token expires meanwhile
  judged,     \* the edition in which its key was looked up, 0 before
  preloaded,  \* history: the edition it started with
  began,      \* history: what was the case when each verification began
  failed      \* history: verifications that waited for a fetch that failed

runner == <<config, phase, code, handlers>>
copy == <<known, fresh, cooling>>
calls == <<state, token, expired, judged, began, failed>>
vars == <<runner, fetch, editions, metadata, copy, calls, preloaded>>

Config ==
  [found : {"missing", "invalid", "disabled", "enabled"}, loopback : BOOLEAN, issuers : 1..2, auth0 : BOOLEAN]

Fetch(stage, what, bytes, document, edition) ==
  [stage |-> stage, what |-> what, bytes |-> bytes, document |-> document, edition |-> edition]
None == Fetch("none", "", 0, "", 0)
Asking(what) == Fetch("asked", what, 0, "", 0)
Starting == {"args", "config", "discovery", "keys", "bind"}

Init ==
  /\ config \in Config
  /\ phase = "args" /\ code = "" /\ handlers = {}
  /\ fetch = None
  /\ editions \in {<<edition>> : edition \in Edition}
  /\ metadata = "" /\ preloaded = 0
  /\ known = 0 /\ fresh = FALSE /\ cooling = FALSE
  /\ state = [v \in Verification |-> "idle"]
  /\ token \in Tokens
  /\ expired = {} /\ failed = {}
  /\ judged = [v \in Verification |-> 0]
  /\ began = [v \in Verification |->
                [known |-> 0, current |-> 0, stale |-> FALSE, late |-> FALSE]]

Exit(with) == phase' = "exited" /\ code' = with

-----------------------------------------------------------------------------
(* main, and startAuth0RemoteMcp up to the verifier.                       *)

ReadArguments ==
  /\ phase = "args"
  /\ \/ phase' = "config" /\ UNCHANGED code
     \/ Exit("0")    \* --help, --version
     \/ Exit("2")    \* any other argument
  /\ UNCHANGED <<config, handlers, fetch, editions, metadata, copy, calls, preloaded>>

(* The issuer has to be the only one, and a tenant of auth0.com.           *)
Approved ==
  config.found = "enabled" /\ config.loopback /\ config.issuers = 1 /\ config.auth0

LoadConfig ==
  /\ phase = "config"
  /\ \/ Approved /\ phase' = "discovery" /\ fetch' = Asking("discovery") /\ UNCHANGED code
     \/ ~Approved /\ Exit("1") /\ UNCHANGED fetch
  /\ UNCHANGED <<config, handlers, editions, metadata, copy, calls, preloaded>>

-----------------------------------------------------------------------------
(* fetchDiscovery and boundedJwksFetch: what the tenant answers is decided *)
(* when it begins to answer; the timer runs until the body has ended.      *)

Answers ==
  /\ fetch.stage = "asked"
  /\ \E document \in IF fetch.what = "keys" THEN {"tenant", "malformed"} ELSE Document :
       fetch' = Fetch("body", fetch.what, 0, document, Len(editions))
  /\ UNCHANGED <<runner, editions, metadata, copy, calls, preloaded>>

Continues ==
  /\ fetch.stage = "body"
  /\ fetch.bytes < MaxBytes[fetch.what]
  /\ fetch' = Fetch("body", fetch.what, fetch.bytes + 1, fetch.document, fetch.edition)
  /\ UNCHANGED <<runner, editions, metadata, copy, calls, preloaded>>

(* A fetch fails: the runner gives up if it is still starting, and so does *)
(* every verification that waits; the copy stays as it is.                 *)
Waiting == {v \in Verification : state[v] = "waiting"}

FetchFails ==
  /\ fetch' = None
  /\ IF phase \in Starting THEN Exit("1") ELSE UNCHANGED <<phase, code>>
  /\ state' = [v \in Verification |-> IF v \in Waiting THEN "rejected" ELSE state[v]]
  /\ failed' = failed \cup Waiting
  /\ UNCHANGED <<config, handlers, editions, metadata, copy, token, expired, judged, began, preloaded>>

(* No connection, a redirect, a status or a type that will not do, a body  *)
(* that is cut off.                                                        *)
NetworkFails == fetch.stage # "none" /\ FetchFails

(* readBoundedBody: the length it announces or has is too much.            *)
TooLarge ==
  \/ fetch.stage = "asked" /\ FetchFails
  \/ fetch.stage = "body" /\ fetch.bytes = MaxBytes[fetch.what] /\ FetchFails

(* Mutant: the timer is cleared when the answer has begun.                 *)
TimeoutOfHeaders == fetch.stage = "asked" /\ FetchFails

Timeout == fetch.stage # "none" /\ FetchFails

(* Mutant: the issuer of the document is not compared.                     *)
parseDiscoveryOfAnyIssuer(document) == document \in {"tenant", "other issuer"}

parseDiscovery(document) == document = "tenant"

DiscoveryEnds ==
  /\ fetch.stage = "body" /\ fetch.what = "discovery"
  /\ parseDiscovery(fetch.document)
  /\ metadata' = fetch.document
  /\ phase' = "keys"
  /\ fetch' = Asking("keys")
  /\ UNCHANGED <<config, code, handlers, editions, copy, calls, preloaded>>

DiscoveryIsInvalid ==
  /\ fetch.stage = "body" /\ fetch.what = "discovery"
  /\ ~parseDiscovery(fetch.document)
  /\ FetchFails

-----------------------------------------------------------------------------
(* The key set.                                                            *)

validateJwks(edition) == edition.keys # {} /\ ~edition.flawed

(* Looking for a key: "unusable" is one that cannot be imported, or of     *)
(* which there are two; the flaw may be in another key.                    *)
LookUp(edition, key) ==
  IF key \notin edition.keys THEN {"no match"}
  ELSE IF edition.flawed THEN {"found", "unusable"} ELSE {"found"}

(* A verification that has the key goes on to check the token with it.     *)
After(found) == IF found = "found" THEN "checking" ELSE "rejected"

(* A new copy: verifications that wait look for their keys in it, and find *)
(* them or not.  A runner that is starting looks at the whole of it.       *)
KeysEnd ==
  /\ fetch.stage = "body" /\ fetch.what = "keys" /\ fetch.document # "malformed"
  /\ fetch' = None
  /\ known' = fetch.edition /\ fresh' = TRUE /\ cooling' = TRUE
  /\ IF phase # "keys" THEN UNCHANGED <<phase, code, preloaded>>
     ELSE IF validateJwks(editions[fetch.edition])
     THEN phase' = "bind" /\ preloaded' = fetch.edition /\ UNCHANGED code
     ELSE Exit("1") /\ UNCHANGED preloaded
  /\ \E found \in [Waiting -> {"found", "unusable", "no match"}] :
       /\ \A v \in Waiting : found[v] \in LookUp(editions[fetch.edition], token[v].key)
       /\ state' = [v \in Verification |-> IF v \in Waiting THEN After(found[v]) ELSE state[v]]
       /\ judged' = [v \in Verification |-> IF v \in Waiting THEN fetch.edition ELSE judged[v]]
  /\ UNCHANGED <<config, handlers, editions, metadata, token, expired, began, failed>>

KeysAreMalformed ==
  /\ fetch.stage = "body" /\ fetch.what = "keys" /\ fetch.document = "malformed"
  /\ FetchFails

Cools ==
  /\ cooling
  /\ cooling' = FALSE
  /\ UNCHANGED <<runner, fetch, editions, metadata, known, fresh, calls, preloaded>>

Ages ==
  /\ fresh /\ ~cooling
  /\ fresh' = FALSE
  /\ UNCHANGED <<runner, fetch, editions, metadata, known, cooling, calls, preloaded>>

-----------------------------------------------------------------------------
(* startRemoteMcp, and the signals.                                        *)

Bind ==
  /\ phase = "bind"
  /\ \/ phase' = "listening" /\ handlers' = Signal /\ UNCHANGED code
     \/ Exit("1") /\ UNCHANGED handlers
  /\ UNCHANGED <<config, fetch, editions, metadata, copy, calls, preloaded>>

(* Each signal is handled once; both close the same server.                *)
Receive ==
  /\ phase # "exited"
  /\ \E signal \in Signal :
       IF signal \in handlers
       THEN handlers' = handlers \ {signal} /\ phase' = "closing" /\ UNCHANGED code
       ELSE Exit("killed") /\ UNCHANGED handlers
  /\ UNCHANGED <<config, fetch, editions, metadata, copy, calls, preloaded>>

(* What still waits for the tenant keeps the process from exiting.         *)
Closed ==
  /\ phase = "closing" /\ fetch = None
  /\ \A v \in Verification : state[v] \notin {"waiting", "checking"}
  /\ \E with \in {"0", "1"} : Exit(with)
  /\ UNCHANGED <<config, handlers, fetch, editions, metadata, copy, calls, preloaded>>

-----------------------------------------------------------------------------
(* verifyAccessToken.                                                      *)

Wait(v) ==
  /\ state' = [state EXCEPT ![v] = "waiting"]
  /\ fetch' = IF fetch = None THEN Asking("keys") ELSE fetch
  /\ UNCHANGED judged

Judge(v, found) ==
  /\ state' = [state EXCEPT ![v] = After(found)]
  /\ judged' = [judged EXCEPT ![v] = known]
  /\ UNCHANGED fetch

(* Mutant: tokens are verified with the keys that were preloaded.          *)
resolvePreloadedKey(v) ==
  \E found \in LookUp(editions[known], token[v].key) : Judge(v, found)

(* Mutant: a copy is good for as long as it has the key.                   *)
resolveKeyOfAnyAge(v) ==
  \E found \in LookUp(editions[known], token[v].key) :
    IF found = "no match" /\ ~cooling THEN Wait(v) ELSE Judge(v, found)

(* createRemoteJWKSet.                                                     *)
resolveKey(v) ==
  \/ ~fresh /\ Wait(v)
  \/ /\ fresh
     /\ \E found \in LookUp(editions[known], token[v].key) :
          IF found = "no match" /\ ~cooling THEN Wait(v) ELSE Judge(v, found)

verifyAccessToken(v) ==
  /\ phase \in {"listening", "closing"}
  /\ state[v] = "idle"
  /\ began' = [began EXCEPT ![v] =
                 [known |-> known, current |-> Len(editions), stale |-> ~fresh /\ fetch = None,
                  late |-> cooling \/ fetch # None]]
  /\ IF token[v].size = "normal" THEN resolveKey(v)
     ELSE state' = [state EXCEPT ![v] = "rejected"] /\ UNCHANGED <<fetch, judged>>
  /\ UNCHANGED <<runner, editions, metadata, copy, token, expired, failed, preloaded>>

(* Time passes for the token too.                                          *)
Expires(v) ==
  /\ state[v] \in {"waiting", "checking"} /\ v \notin expired
  /\ expired' = expired \cup {v}
  /\ UNCHANGED <<runner, fetch, editions, metadata, copy, state, token, judged, began, failed, preloaded>>

(* What the library verifies: the audience may be one of several.          *)
jwtVerify(v) ==
  token[v].signed /\ v \notin expired /\ token[v].claims \notin {"expired", "other resource"}

clientIdFromClaims(claims) == claims \notin {"two clients", "no client"}
scopesFromClaim(claims) == claims # "bad scope"

Acceptable(v) ==
  /\ jwtVerify(v)
  /\ token[v].claims # "more resources"
  /\ clientIdFromClaims(token[v].claims) /\ scopesFromClaim(token[v].claims)

Check(v) ==
  /\ state[v] = "checking"
  /\ state' = [state EXCEPT ![v] = IF Acceptable(v) THEN "accepted" ELSE "rejected"]
  /\ UNCHANGED <<runner, fetch, editions, metadata, copy, token, expired, judged, began, failed, preloaded>>

-----------------------------------------------------------------------------
(* The tenant.                                                             *)
Publish ==
  /\ Len(editions) < Editions
  /\ \E edition \in Edition :
       editions[Len(editions)] # edition /\ editions' = Append(editions, edition)
  /\ UNCHANGED <<runner, fetch, metadata, copy, calls, preloaded>>

Tenant == Publish \/ Answers \/ Continues \/ NetworkFails

FetchEnds == DiscoveryEnds \/ DiscoveryIsInvalid \/ KeysEnd \/ KeysAreMalformed \/ TooLarge

Runs == phase # "exited"

Next ==
  /\ Runs
  /\ \/ ReadArguments \/ LoadConfig \/ Bind \/ Closed \/ Receive
     \/ Tenant \/ FetchEnds \/ Timeout
     \/ Cools \/ Ages
     \/ \E v \in Verification : verifyAccessToken(v) \/ Expires(v) \/ Check(v)

Spec == Init /\ [][Next]_vars

(* The runner's own steps are taken and its timers fire; the tenant need   *)
(* not answer, nor finish an answer.                                       *)
FairSpec ==
  /\ Spec
  /\ WF_vars(Runs /\ (ReadArguments \/ LoadConfig \/ Bind))
  /\ WF_vars(Runs /\ Timeout)
  /\ \A v \in Verification : WF_vars(Runs /\ Check(v))

-----------------------------------------------------------------------------
(* The types.                                                              *)
Phase == Starting \cup {"listening", "closing", "exited"}
Code == {"", "0", "1", "2", "killed"}
State == {"idle", "waiting", "checking", "accepted", "rejected"}

Fetches ==
  [stage : {"none", "asked", "body"}, what : {"", "discovery", "keys"}, bytes : Nat,
   document : Document \cup {""}, edition : Nat]

Beginnings == [known : Nat, current : Nat, stale : BOOLEAN, late : BOOLEAN]

TypeOK ==
  /\ config \in Config /\ phase \in Phase /\ code \in Code /\ handlers \subseteq Signal
  /\ fetch \in Fetches
  /\ editions \in Seq(Edition)
  /\ metadata \in Document \cup {""}
  /\ known \in 0..Len(editions) /\ preloaded \in 0..Len(editions)
  /\ fresh \in BOOLEAN /\ cooling \in BOOLEAN
  /\ state \in [Verification -> State] /\ token \in [Verification -> Token]
  /\ expired \subseteq Verification /\ failed \subseteq Verification
  /\ judged \in [Verification -> Nat] /\ began \in [Verification -> Beginnings]

(* The runner listens, and looks at a token, only after everything it was  *)
(* to validate was valid: "Startup fails closed when discovery or JWKS     *)
(* cannot be validated" (createAuth0TokenVerifier).                        *)
FailsClosed ==
  phase \in {"listening", "closing"} \/ (\E v \in Verification : state[v] # "idle") =>
    /\ Approved
    /\ metadata = "tenant"
    /\ preloaded # 0 /\ editions[preloaded].keys # {} /\ ~editions[preloaded].flawed

(* An accepted token was signed, for this resource alone, with a key of    *)
(* the edition it was judged by; and a withdrawn key fades: that edition   *)
(* is no older than the one the verifier knew when it was asked, and if    *)
(* that was stale and no fetch was under way, than the one the tenant then *)
(* had (verifyAccessToken, across every interleaving of the verifications  *)
(* with rotations and fetches).                                            *)
WithdrawnKeysFade ==
  \A v \in Verification : state[v] = "accepted" =>
    /\ token[v].signed /\ token[v].claims = "good" /\ token[v].size = "normal"
    /\ token[v].key \in editions[judged[v]].keys
    /\ judged[v] >= began[v].known
    /\ began[v].stale => judged[v] >= began[v].current

(* "Request-time verification remains rotation-aware" (createAuth0Token-   *)
(* Verifier): a good token of a key that the tenant has published since    *)
(* before the verification began, however recently, is not rejected unless *)
(* the key set had been fetched within the half minute before, was being   *)
(* fetched already, could not be fetched, or was flawed.                   *)
Reason(v) ==
  \/ began[v].late \/ v \in failed
  \/ \E n \in began[v].known..Len(editions) : editions[n].flawed
  \/ \E n \in began[v].current..Len(editions) : token[v].key \notin editions[n].keys

Good(v) ==
  token[v].signed /\ token[v].claims = "good" /\ token[v].size = "normal" /\ v \notin expired

RotationIsSeen == \A v \in Verification : state[v] = "rejected" /\ Good(v) => Reason(v)

(* However the tenant behaves, the runner comes to listen or to exit, and  *)
(* every verification comes to an answer (fetchDiscovery, whose timer also *)
(* covers the body; createRemoteJWKSet, whose signal boundedJwksFetch      *)
(* passes on).                                                             *)
WaitsEnd ==
  /\ phase \in Starting ~> phase \notin Starting
  /\ \A v \in Verification :
       state[v] \in {"waiting", "checking"} ~> state[v] \in {"accepted", "rejected"} \/ phase = "exited"

=============================================================================
