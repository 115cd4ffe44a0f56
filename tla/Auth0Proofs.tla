---------------------------- MODULE Auth0Proofs ----------------------------
(***************************************************************************)
(* Theorems about the Auth0 runner and its verifier, for any keys, any     *)
(* tokens, any number of concurrent verifications and any sequence of key  *)
(* sets.  Started says what has been validated at each stage; Grounds says *)
(* of each verification how old the edition can be that it is judged by,   *)
(* and keeps the reason for which it was rejected.                         *)
(***************************************************************************)
EXTENDS Auth0Verifier, TLAPS

Preloaded ==
  /\ preloaded # 0 /\ known # 0
  /\ editions[preloaded].keys # {} /\ ~editions[preloaded].flawed

Started ==
  /\ handlers # {} => phase \in {"listening", "closing", "exited"}
  /\ phase \in {"discovery", "keys", "bind", "listening", "closing"} => Approved
  /\ phase \in {"keys", "bind", "listening", "closing"} => metadata = "tenant"
  /\ phase \in {"bind", "listening", "closing"} => Preloaded
  /\ fetch.stage # "none" /\ fetch.what = "discovery" => phase \in {"discovery", "exited"}
  /\ phase \in Starting => \A v \in Verification : state[v] = "idle"
  /\ (\E v \in Verification : state[v] # "idle") => Approved /\ metadata = "tenant" /\ Preloaded

Answered ==
  /\ Len(editions) # 0
  /\ fetch.stage = "none" => fetch = None
  /\ fetch.stage = "body" => fetch.edition # 0 /\ fetch.edition \in known..Len(editions)

Grounds(v) ==
  state[v] # "idle" =>
    /\ began[v].known # 0 /\ began[v].known <= known
    /\ began[v].current \in began[v].known..Len(editions)
    /\ state[v] = "waiting" /\ fetch.stage = "body" /\ (began[v].stale \/ ~began[v].late) =>
         fetch.edition >= began[v].current
    /\ state[v] \in {"checking", "accepted"} =>
         /\ judged[v] \in began[v].known..Len(editions)
         /\ began[v].stale => judged[v] >= began[v].current
         /\ token[v].key \in editions[judged[v]].keys
    /\ state[v] \in {"waiting", "checking", "accepted"} => token[v].size = "normal"
    /\ state[v] = "accepted" => token[v].signed /\ token[v].claims = "good"
    /\ state[v] = "rejected" /\ Good(v) => Reason(v)

Inv == TypeOK /\ Started /\ Answered /\ \A v \in Verification : Grounds(v)

-----------------------------------------------------------------------------
(* Types.                                                                  *)

LEMMA FetchType ==
  ASSUME NEW stage \in {"none", "asked", "body"}, NEW what \in {"", "discovery", "keys"}, NEW bytes \in Nat,
         NEW document \in Document \cup {""}, NEW edition \in Nat
  PROVE  Fetch(stage, what, bytes, document, edition) \in Fetches
BY DEF Fetch, Fetches

LEMMA NewFetch ==
  /\ None \in Fetches /\ None.stage = "none"
  /\ \A what \in {"discovery", "keys"} :
       Asking(what) \in Fetches /\ Asking(what).stage = "asked" /\ Asking(what).what = what
BY FetchType DEF None, Asking, Fetch

LEMMA FetchParts ==
  ASSUME fetch \in Fetches
  PROVE  /\ fetch.stage \in {"none", "asked", "body"} /\ fetch.what \in {"", "discovery", "keys"}
         /\ fetch.bytes \in Nat /\ fetch.document \in Document \cup {""} /\ fetch.edition \in Nat
BY DEF Fetches

LEMMA Constants ==
  /\ "idle" \in State /\ "waiting" \in State /\ "checking" \in State /\ "accepted" \in State
  /\ "rejected" \in State
  /\ Starting \subseteq Phase /\ "listening" \in Phase /\ "closing" \in Phase /\ "exited" \in Phase
  /\ {"", "0", "1", "2", "killed"} \subseteq Code
  /\ {"args", "config", "discovery", "keys", "bind"} \subseteq Starting
BY DEF State, Phase, Code, Starting

LEMMA AfterType == ASSUME NEW found PROVE After(found) \in {"checking", "rejected"}
BY DEF After

LEMMA SequenceLength == ASSUME NEW S, NEW s \in Seq(S) PROVE Len(s) \in Nat
OBVIOUS

LEMMA SequenceAppend ==
  ASSUME NEW S, NEW s \in Seq(S), NEW e \in S
  PROVE  /\ Append(s, e) \in Seq(S) /\ Len(Append(s, e)) = Len(s) + 1
         /\ \A n \in 1..Len(s) : Append(s, e)[n] = s[n]
OBVIOUS

LEMMA Lengths ==
  ASSUME TypeOK
  PROVE  /\ editions \in Seq(Edition) /\ Len(editions) \in Nat
         /\ known \in Nat /\ known <= Len(editions) /\ preloaded \in Nat /\ preloaded <= Len(editions)
<1>1. editions \in Seq(Edition) /\ known \in 0..Len(editions) /\ preloaded \in 0..Len(editions)
  BY DEF TypeOK
<1>2. Len(editions) \in Nat
  BY <1>1, SequenceLength
<1> QED BY <1>1, <1>2

LEMMA TypesInit == Init => TypeOK
<1> SUFFICES ASSUME Init PROVE TypeOK
  OBVIOUS
<1>1. editions \in Seq(Edition) /\ Len(editions) = 1
  <2> PICK edition \in Edition : editions = <<edition>>
    BY DEF Init
  <2> QED OBVIOUS
<1>2. fetch \in Fetches
  BY NewFetch DEF Init
<1>3. token \in [Verification -> Token]
  BY Auth0Assumption DEF Init
<1>4. /\ state \in [Verification -> State]
      /\ judged \in [Verification -> Nat]
  BY Constants DEF Init
<1>5. began \in [Verification -> Beginnings]
  BY DEF Init, Beginnings
<1>6. phase \in Phase /\ code \in Code
  BY Constants DEF Init
<1>7. known \in 0..Len(editions) /\ preloaded \in 0..Len(editions)
  <2>1. known = 0 /\ preloaded = 0
    BY DEF Init
  <2> QED BY <1>1, <2>1
<1> QED BY <1>1, <1>2, <1>3, <1>4, <1>5, <1>6, <1>7 DEF Init, TypeOK

LEMMA TypesFetchFails == ASSUME TypeOK, FetchFails PROVE TypeOK'
<1>1. fetch' \in Fetches
  BY NewFetch DEF FetchFails
<1>2. state' \in [Verification -> State] /\ failed' \subseteq Verification
  BY Constants DEF TypeOK, FetchFails, Waiting
<1>3. phase' \in Phase /\ code' \in Code
  BY Constants DEF TypeOK, FetchFails, Exit
<1> QED BY <1>1, <1>2, <1>3 DEF TypeOK, FetchFails, copy

LEMMA TypesKeysEnd == ASSUME TypeOK, KeysEnd, Answered PROVE TypeOK'
<1>1. fetch' \in Fetches
  BY NewFetch DEF KeysEnd
<1>2. known' \in 0..Len(editions) /\ preloaded' \in 0..Len(editions)
  <2>1. fetch.edition # 0 /\ fetch.edition \in known..Len(editions)
    BY DEF KeysEnd, Answered
  <2>2. known' = fetch.edition /\ (preloaded' = preloaded \/ preloaded' = fetch.edition)
    BY DEF KeysEnd
  <2> QED BY <2>1, <2>2, Lengths
<1>3. state' \in [Verification -> State]
  <2> PICK found \in [Waiting -> {"found", "unusable", "no match"}] :
        state' = [v \in Verification |-> IF v \in Waiting THEN After(found[v]) ELSE state[v]]
    BY DEF KeysEnd
  <2>1. ASSUME NEW v \in Verification
        PROVE  (IF v \in Waiting THEN After(found[v]) ELSE state[v]) \in State
    BY AfterType, Constants DEF TypeOK
  <2> QED BY <2>1
<1>4. judged' \in [Verification -> Nat]
  BY FetchParts DEF TypeOK, KeysEnd
<1>5. phase' \in Phase /\ code' \in Code
  BY Constants DEF TypeOK, KeysEnd, Exit
<1> QED BY <1>1, <1>2, <1>3, <1>4, <1>5 DEF TypeOK, KeysEnd

LEMMA TypesVerify == ASSUME TypeOK, NEW v \in Verification, verifyAccessToken(v) PROVE TypeOK'
<1>1. fetch' \in Fetches
  BY NewFetch DEF TypeOK, verifyAccessToken, resolveKey, Wait, Judge
<1>2. state' \in [Verification -> State]
  <2>1. \E other \in State : state' = [state EXCEPT ![v] = other]
    BY AfterType, Constants DEF verifyAccessToken, resolveKey, Wait, Judge
  <2> QED BY <2>1 DEF TypeOK
<1>3. judged' \in [Verification -> Nat]
  <2> known \in Nat
    BY Lengths
  <2> QED BY DEF TypeOK, verifyAccessToken, resolveKey, Wait, Judge
<1>4. began' \in [Verification -> Beginnings]
  <2> DEFINE record == [known |-> known, current |-> Len(editions), stale |-> ~fresh /\ fetch = None,
                        late |-> cooling \/ fetch # None]
  <2>1. Len(editions) \in Nat /\ known \in Nat
    BY Lengths
  <2>2. (~fresh /\ fetch = None) \in BOOLEAN /\ (cooling \/ fetch # None) \in BOOLEAN
    OBVIOUS
  <2>3. record \in Beginnings
    BY <2>1, <2>2, Zenon DEF Beginnings
  <2>4. began' = [began EXCEPT ![v] = record]
    BY DEF verifyAccessToken
  <2> HIDE DEF record
  <2> QED BY <2>3, <2>4 DEF TypeOK
<1> QED BY <1>1, <1>2, <1>3, <1>4 DEF TypeOK, verifyAccessToken, runner, copy

LEMMA Appended ==
  ASSUME TypeOK, Publish
  PROVE  /\ editions' \in Seq(Edition)
         /\ Len(editions) \in Nat /\ Len(editions') = Len(editions) + 1
         /\ \A n \in 1..Len(editions) : editions'[n] = editions[n]
<1> PICK edition \in Edition : editions' = Append(editions, edition)
  BY DEF Publish
<1> QED BY Lengths, SequenceAppend

LEMMA TypesPublish == ASSUME TypeOK, Publish PROVE TypeOK'
<1>1. known \in 0..Len(editions') /\ preloaded \in 0..Len(editions')
  BY Appended, Lengths
<1> QED BY <1>1, Appended DEF TypeOK, Publish, runner, copy, calls

LEMMA TypesAnswer == ASSUME TypeOK, Answers \/ Continues PROVE TypeOK'
<1> Len(editions) \in Nat
  BY Lengths
<1>1. fetch' \in Fetches
  <2>1. CASE Answers
    <3> PICK document \in Document : fetch' = Fetch("body", fetch.what, 0, document, Len(editions))
      BY <2>1 DEF Answers, Document
    <3> QED BY FetchType, FetchParts DEF TypeOK
  <2>2. CASE Continues
    <3> fetch \in Fetches
      BY DEF TypeOK
    <3>1. fetch.bytes \in Nat
      BY FetchParts
    <3> fetch.bytes + 1 \in Nat
      <4> DEFINE n == fetch.bytes
      <4> n \in Nat
        BY <3>1
      <4> HIDE DEF n
      <4> n + 1 \in Nat
        OBVIOUS
      <4> QED BY DEF n
    <3> "body" \in {"none", "asked", "body"}
      OBVIOUS
    <3> QED BY <2>2, FetchType, FetchParts DEF Continues
  <2> QED BY <2>1, <2>2
<1> QED BY <1>1 DEF TypeOK, Answers, Continues, runner, copy, calls

LEMMA TypesRunner ==
  ASSUME TypeOK, ReadArguments \/ LoadConfig \/ Bind \/ Closed \/ Receive PROVE TypeOK'
<1>1. fetch' \in Fetches
  BY NewFetch DEF TypeOK, ReadArguments, LoadConfig, Bind, Closed, Receive
<1>2. phase' \in Phase /\ code' \in Code
  BY Constants DEF TypeOK, ReadArguments, LoadConfig, Bind, Closed, Receive, Exit
<1>3. handlers' \subseteq Signal
  BY DEF TypeOK, ReadArguments, LoadConfig, Bind, Closed, Receive
<1> QED BY <1>1, <1>2, <1>3 DEF TypeOK, ReadArguments, LoadConfig, Bind, Closed, Receive, copy, calls

LEMMA TypesDiscovery == ASSUME TypeOK, DiscoveryEnds PROVE TypeOK'
<1>1. fetch' \in Fetches /\ metadata' \in Document \cup {""} /\ phase' \in Phase
  BY NewFetch, FetchParts, Constants DEF TypeOK, DiscoveryEnds
<1> QED BY <1>1 DEF TypeOK, DiscoveryEnds, copy, calls

LEMMA TypesTime == ASSUME TypeOK, Cools \/ Ages PROVE TypeOK'
BY DEF TypeOK, Cools, Ages, runner, calls

LEMMA TypesExpires == ASSUME TypeOK, NEW v \in Verification, Expires(v) PROVE TypeOK'
BY DEF TypeOK, Expires, runner, copy

LEMMA TypesCheck == ASSUME TypeOK, NEW v \in Verification, Check(v) PROVE TypeOK'
<1> state' \in [Verification -> State]
  BY Constants DEF TypeOK, Check
<1> QED BY DEF TypeOK, Check, runner, copy

LEMMA TypesStutter == ASSUME TypeOK, UNCHANGED vars PROVE TypeOK'
BY DEF TypeOK, vars, runner, copy, calls

LEMMA TypesNext == ASSUME TypeOK, Answered, [Next]_vars PROVE TypeOK'
<1>1. CASE FetchFails
  BY <1>1, TypesFetchFails
<1>2. CASE KeysEnd
  BY <1>2, TypesKeysEnd
<1>3. CASE UNCHANGED vars
  BY <1>3, TypesStutter
<1> QED
  BY <1>1, <1>2, <1>3, TypesVerify, TypesPublish, TypesAnswer, TypesRunner, TypesDiscovery, TypesTime,
     TypesExpires, TypesCheck
  DEF Next, Tenant, FetchEnds, NetworkFails, TooLarge, Timeout, DiscoveryIsInvalid, KeysAreMalformed

-----------------------------------------------------------------------------
(* The stages of starting.                                                 *)

Unstarted == \A v \in Verification : state[v] = "idle"

(* Nothing that Started speaks of is disturbed, but for the phase.         *)
Settled == UNCHANGED <<config, metadata, known, preloaded, editions>>

LEMMA Kept == ASSUME Settled PROVE Approved' = Approved /\ Preloaded' = Preloaded
BY DEF Settled, Approved, Preloaded

LEMMA StartedInit == Init => Started
BY NewFetch DEF Init, Started, Starting

LEMMA StartedFetchFails == ASSUME TypeOK, Started, FetchFails PROVE Started'
<1>1. Settled
  BY DEF FetchFails, Settled, copy
<1>2. fetch'.stage = "none"
  BY NewFetch DEF FetchFails
<1>3. (\E v \in Verification : state'[v] # "idle") => \E v \in Verification : state[v] # "idle"
  BY DEF FetchFails, Waiting
<1>4. phase' = phase \/ phase' = "exited"
  BY DEF FetchFails, Exit
<1>5. metadata' = metadata /\ handlers' = handlers
  BY <1>1 DEF Settled, FetchFails
<1> QED BY <1>1, <1>2, <1>3, <1>4, <1>5, Kept DEF Started, Starting

LEMMA StartedKeysEnd == ASSUME TypeOK, Started, Answered, KeysEnd PROVE Started'
<1>1. UNCHANGED <<config, metadata, editions, handlers>> /\ fetch'.stage = "none" /\ known' # 0
  BY NewFetch DEF KeysEnd, Answered
<1>2. (\E v \in Verification : state'[v] # "idle") => \E v \in Verification : state[v] # "idle"
  BY DEF KeysEnd, Waiting
<1>3. CASE phase # "keys"
  <2>1. UNCHANGED <<phase, preloaded>>
    BY <1>3 DEF KeysEnd
  <2>2. (Preloaded => Preloaded') /\ Approved' = Approved
    BY <1>1, <2>1 DEF Preloaded, Approved
  <2> QED BY <1>1, <1>2, <2>1, <2>2 DEF Started
<1>4. CASE phase = "keys"
  <2>1. Unstarted /\ Approved' /\ metadata' = "tenant"
    BY <1>1, <1>4 DEF Started, Starting, Unstarted, Approved
  <2>2. (phase' = "bind" /\ Preloaded') \/ phase' = "exited"
    BY <1>1, <1>4 DEF KeysEnd, validateJwks, Preloaded, Exit, Answered
  <2>3. Unstarted'
    BY <1>2, <2>1 DEF Unstarted
  <2>4. handlers = {}
    BY <1>4 DEF Started
  <2> QED BY <1>1, <2>1, <2>2, <2>3, <2>4 DEF Started, Unstarted
<1> QED BY <1>3, <1>4

LEMMA StartedVerify == ASSUME TypeOK, Started, NEW v \in Verification, verifyAccessToken(v) PROVE Started'
<1>1. Settled /\ phase' = phase /\ phase \in {"listening", "closing"}
  BY DEF verifyAccessToken, Settled, runner, copy
<1>2. fetch' = fetch \/ fetch'.what = "keys"
  BY NewFetch DEF verifyAccessToken, resolveKey, Wait, Judge
<1>3. metadata' = metadata /\ handlers' = handlers
  BY <1>1 DEF Settled, verifyAccessToken, runner
<1> QED BY <1>1, <1>2, <1>3, Kept DEF Started, Starting

LEMMA StartedPublish == ASSUME TypeOK, Started, Publish PROVE Started'
<1>1. UNCHANGED <<config, phase, handlers, fetch, metadata, known, preloaded, state>>
  BY DEF Publish, runner, copy, calls
<1>2. preloaded # 0 => editions'[preloaded] = editions[preloaded]
  BY Appended, Lengths
<1>3. Preloaded' = Preloaded /\ Approved' = Approved
  BY <1>1, <1>2 DEF Preloaded, Approved
<1> QED BY <1>1, <1>3 DEF Started

LEMMA StartedAnswer == ASSUME TypeOK, Started, Answers \/ Continues PROVE Started'
<1>1. Settled /\ UNCHANGED <<phase, state>>
  BY DEF Answers, Continues, Settled, runner, copy, calls
<1>2. fetch.stage # "none" /\ fetch'.what = fetch.what
  BY DEF Answers, Continues, Fetch
<1>3. metadata' = metadata /\ handlers' = handlers
  BY <1>1 DEF Settled, Answers, Continues, runner
<1> QED BY <1>1, <1>2, <1>3, Kept DEF Started

LEMMA StartedRunner ==
  ASSUME TypeOK, Started, ReadArguments \/ LoadConfig \/ Bind \/ Closed \/ Receive PROVE Started'
<1>1. Settled /\ UNCHANGED state /\ metadata' = metadata
  BY DEF ReadArguments, LoadConfig, Bind, Closed, Receive, Settled, copy, calls
<1>0. phase \in Starting => Unstarted /\ Unstarted' /\ handlers = {}
  BY <1>1 DEF Started, Starting, Unstarted
<1>2. CASE ReadArguments
  <2> phase = "args" /\ phase' \in {"config", "exited"} /\ UNCHANGED <<fetch, handlers>>
    BY <1>2 DEF ReadArguments, Exit
  <2> QED BY <1>1, Kept DEF Started, Starting
<1>3. CASE LoadConfig
  <2>1. phase = "config" /\ handlers' = handlers
    BY <1>3 DEF LoadConfig
  <2>2. (phase' = "discovery" /\ Approved) \/ (phase' = "exited" /\ fetch' = fetch)
    BY <1>3 DEF LoadConfig, Exit
  <2>3. Approved' = Approved /\ Unstarted' /\ handlers = {}
    BY <1>0, <1>1, <2>1, Kept DEF Starting
  <2> QED BY <2>1, <2>2, <2>3 DEF Started, Unstarted
<1>4. CASE Bind
  <2>1. phase = "bind" /\ fetch' = fetch
    BY <1>4 DEF Bind
  <2>2. phase' = "listening" \/ (phase' = "exited" /\ handlers' = handlers)
    BY <1>4 DEF Bind, Exit
  <2>3. /\ Approved' = Approved /\ Preloaded' = Preloaded /\ Unstarted' /\ handlers = {}
        /\ metadata' = metadata
    BY <1>0, <1>1, <2>1, Kept DEF Starting
  <2>4. Approved /\ Preloaded /\ metadata = "tenant"
    BY <2>1 DEF Started
  <2> QED BY <2>1, <2>2, <2>3, <2>4 DEF Started, Unstarted
<1>5. CASE Closed
  <2> phase' = "exited" /\ UNCHANGED <<fetch, handlers>>
    BY <1>5 DEF Closed, Exit
  <2> QED BY <1>1, Kept DEF Started, Starting
<1>6. CASE Receive
  <2> fetch' = fetch /\ phase # "exited"
    BY <1>6 DEF Receive
  <2> \/ handlers # {} /\ phase' = "closing"
      \/ phase' = "exited" /\ handlers' = handlers
    BY <1>6 DEF Receive, Exit
  <2> QED BY <1>1, Kept DEF Started, Starting
<1> QED BY <1>2, <1>3, <1>4, <1>5, <1>6

LEMMA StartedDiscovery == ASSUME TypeOK, Started, Runs, DiscoveryEnds PROVE Started'
<1>1. /\ UNCHANGED <<config, handlers, state, preloaded, known, editions>>
      /\ fetch'.what = "keys" /\ phase' = "keys"
  BY NewFetch DEF DiscoveryEnds, copy, calls
<1>2. metadata' = "tenant"
  BY DEF DiscoveryEnds, parseDiscovery
<1>3. phase = "discovery"
  BY DEF Started, DiscoveryEnds, Runs
<1>4. Unstarted /\ Approved /\ handlers = {}
  BY <1>3 DEF Started, Starting, Unstarted
<1>5. Unstarted' /\ Approved' /\ handlers' = {}
  BY <1>1, <1>4 DEF Unstarted, Approved
<1> QED BY <1>1, <1>2, <1>5 DEF Started, Unstarted

LEMMA StartedTime ==
  ASSUME TypeOK, Started, Cools \/ Ages \/ \E v \in Verification : Expires(v) \/ Check(v) PROVE Started'
<1>1. Settled /\ UNCHANGED <<phase, handlers, fetch, metadata>>
  BY DEF Cools, Ages, Expires, Check, Settled, runner, copy
<1>2. \A v \in Verification : state'[v] # "idle" => state[v] # "idle"
  BY DEF Cools, Ages, Expires, Check, calls, TypeOK
<1> QED BY <1>1, <1>2, Kept DEF Started

LEMMA StartedStutter == ASSUME Started, UNCHANGED vars PROVE Started'
BY DEF Started, vars, runner, copy, calls, Approved, Preloaded

LEMMA StartedNext == ASSUME TypeOK, Started, Answered, [Next]_vars PROVE Started'
<1>1. CASE FetchFails
  BY <1>1, StartedFetchFails
<1>2. CASE KeysEnd
  BY <1>2, StartedKeysEnd
<1>3. CASE UNCHANGED vars
  BY <1>3, StartedStutter
<1> QED
  BY <1>1, <1>2, <1>3, StartedVerify, StartedPublish, StartedAnswer, StartedRunner, StartedDiscovery,
     StartedTime
  DEF Next, Tenant, FetchEnds, NetworkFails, TooLarge, Timeout, DiscoveryIsInvalid, KeysAreMalformed

-----------------------------------------------------------------------------
(* Answers are no older than the copy.                                     *)

LEMMA AnsweredInit == Init => Answered
<1> SUFFICES ASSUME Init PROVE Answered
  OBVIOUS
<1>1. Len(editions) = 1
  <2> PICK edition \in Edition : editions = <<edition>>
    BY DEF Init
  <2> QED OBVIOUS
<1>2. fetch = None
  BY DEF Init
<1> QED BY <1>1, <1>2, NewFetch DEF Answered

LEMMA AnsweredNext == ASSUME TypeOK, Answered, [Next]_vars PROVE Answered'
<1>1. CASE UNCHANGED <<editions, known, fetch>>
  BY <1>1 DEF Answered
<1>2. ASSUME UNCHANGED <<editions, known>>, fetch' = None \/ fetch' = Asking("keys") \/ fetch' = Asking("discovery")
      PROVE  Answered'
  BY <1>2, NewFetch DEF Answered
<1>3. CASE KeysEnd
  BY <1>3, NewFetch, Lengths DEF KeysEnd, Answered
<1>4. CASE Publish
  <2>1. UNCHANGED <<known, fetch>>
    BY <1>4 DEF Publish, copy
  <2>2. fetch.stage = "body" => fetch.edition \in known..Len(editions')
    BY <1>4, Appended, Lengths DEF Answered
  <2> QED BY <1>4, <2>1, <2>2, Appended DEF Answered
<1>5. CASE Answers
  <2> PICK document : fetch' = Fetch("body", fetch.what, 0, document, Len(editions))
    BY <1>5 DEF Answers
  <2> UNCHANGED <<editions, known>>
    BY <1>5 DEF Answers, copy
  <2>1. fetch'.stage = "body" /\ fetch'.edition = Len(editions)
    BY DEF Fetch
  <2> QED BY <2>1, Lengths DEF Answered
<1>6. CASE Continues
  <2> UNCHANGED <<editions, known>>
    BY <1>6 DEF Continues, copy
  <2>1. fetch'.stage = "body" /\ fetch.stage = "body" /\ fetch'.edition = fetch.edition
    BY <1>6 DEF Continues, Fetch
  <2> QED BY <2>1 DEF Answered
<1>7. CASE FetchFails
  BY <1>2, <1>7 DEF FetchFails, copy
<1>8. CASE ReadArguments \/ LoadConfig \/ Bind \/ Closed \/ Receive \/ DiscoveryEnds
  BY <1>1, <1>2, <1>8 DEF ReadArguments, LoadConfig, Bind, Closed, Receive, DiscoveryEnds, copy
<1>9. CASE Cools \/ Ages \/ \E v \in Verification : Expires(v) \/ Check(v)
  BY <1>1, <1>9 DEF Cools, Ages, Expires, Check, copy
<1>10. ASSUME NEW v \in Verification, verifyAccessToken(v) PROVE Answered'
  BY <1>1, <1>2, <1>10 DEF verifyAccessToken, resolveKey, Wait, Judge, copy
<1>11. CASE UNCHANGED vars
  BY <1>1, <1>11 DEF vars, copy
<1> QED
  BY <1>3, <1>4, <1>5, <1>6, <1>7, <1>8, <1>9, <1>10, <1>11
  DEF Next, Tenant, FetchEnds, NetworkFails, TooLarge, Timeout, DiscoveryIsInvalid, KeysAreMalformed

-----------------------------------------------------------------------------
(* The grounds of each verification.                                       *)

(* What is known of a verification that has begun, so that nothing below   *)
(* has to look into TypeOK again.                                          *)
LEMMA Parts ==
  ASSUME TypeOK, NEW v \in Verification
  PROVE  /\ state[v] \in {"idle", "waiting", "checking", "accepted", "rejected"}
         /\ judged[v] \in Nat
         /\ began[v].known \in Nat /\ began[v].current \in Nat
         /\ began[v].stale \in BOOLEAN /\ began[v].late \in BOOLEAN
         /\ token[v] \in Token
<1>1. state[v] \in State /\ judged[v] \in Nat /\ began[v] \in Beginnings /\ token[v] \in Token
  BY DEF TypeOK
<1> QED BY <1>1 DEF State, Beginnings

(* A reason stays one as editions are added.                               *)
LEMMA ReasonStays ==
  ASSUME TypeOK, NEW v \in Verification, Reason(v), failed \subseteq failed',
         UNCHANGED <<began, token>>, began[v].known # 0, began[v].current # 0,
         Len(editions') \in Nat, Len(editions) <= Len(editions'),
         \A n \in 1..Len(editions) : editions'[n] = editions[n]
  PROVE  Reason(v)'
<1>1. CASE began[v].late \/ v \in failed
  BY <1>1 DEF Reason
<1>2. ASSUME NEW n \in began[v].known..Len(editions), editions[n].flawed PROVE Reason(v)'
  <2>1. n \in 1..Len(editions) /\ n \in began[v].known..Len(editions')
    BY Parts, Lengths
  <2>2. editions'[n].flawed
    BY <1>2, <2>1
  <2> QED BY <2>1, <2>2 DEF Reason
<1>3. ASSUME NEW n \in began[v].current..Len(editions), token[v].key \notin editions[n].keys PROVE Reason(v)'
  <2>1. n \in 1..Len(editions) /\ n \in began[v].current..Len(editions')
    BY Parts, Lengths
  <2>2. token[v].key \notin editions'[n].keys
    BY <1>3, <2>1
  <2> QED BY <2>1, <2>2 DEF Reason
<1> QED BY <1>1, <1>2, <1>3 DEF Reason

(* A step that leaves a verification where it is leaves it its grounds.    *)
LEMMA GroundsStay ==
  ASSUME TypeOK, NEW v \in Verification, Grounds(v),
         state'[v] = state[v], judged'[v] = judged[v], UNCHANGED <<began, token>>,
         failed \subseteq failed', expired \subseteq expired',
         known' \in Nat, known <= known',
         Len(editions') \in Nat, Len(editions) <= Len(editions'),
         \A n \in 1..Len(editions) : editions'[n] = editions[n],
         state[v] = "waiting" /\ fetch'.stage = "body" =>
            \/ fetch.stage = "body" /\ fetch'.edition = fetch.edition
            \/ fetch'.edition = Len(editions)
  PROVE  Grounds(v)'
<1> SUFFICES ASSUME state[v] # "idle" PROVE Grounds(v)'
  BY DEF Grounds
<1>1. /\ began[v].known # 0 /\ began[v].known <= known
      /\ began[v].current \in began[v].known..Len(editions)
  BY DEF Grounds
<1>2. /\ began'[v].known # 0 /\ began'[v].known <= known'
      /\ began'[v].current \in began'[v].known..Len(editions')
  BY <1>1, Parts, Lengths
<1>3. state'[v] = "waiting" /\ fetch'.stage = "body" /\ (began'[v].stale \/ ~began'[v].late) =>
        fetch'.edition >= began'[v].current
  BY <1>1, Parts, Lengths DEF Grounds
<1>4. state'[v] \in {"checking", "accepted"} =>
         /\ judged'[v] \in began'[v].known..Len(editions')
         /\ began'[v].stale => judged'[v] >= began'[v].current
         /\ token'[v].key \in editions'[judged'[v]].keys
  <2> SUFFICES ASSUME state[v] \in {"checking", "accepted"}
               PROVE  /\ judged[v] \in began[v].known..Len(editions')
                      /\ began[v].stale => judged[v] >= began[v].current
                      /\ token[v].key \in editions'[judged[v]].keys
    OBVIOUS
  <2>1. /\ judged[v] \in began[v].known..Len(editions)
        /\ began[v].stale => judged[v] >= began[v].current
        /\ token[v].key \in editions[judged[v]].keys
    BY DEF Grounds
  <2>2. judged[v] \in 1..Len(editions) /\ judged[v] \in began[v].known..Len(editions')
    BY <1>1, <2>1, Parts, Lengths
  <2> QED BY <2>1, <2>2
<1>5. state'[v] = "rejected" /\ Good(v)' => Reason(v)'
  <2> SUFFICES ASSUME state[v] = "rejected", Good(v)' PROVE Reason(v)'
    OBVIOUS
  <2>1. Good(v)
    BY DEF Good
  <2>2. Reason(v)
    BY <2>1 DEF Grounds
  <2>3. began[v].current # 0
    BY <1>1, Parts, Lengths
  <2> QED BY <1>1, <2>2, <2>3, ReasonStays
<1>6. /\ state'[v] \in {"waiting", "checking", "accepted"} => token'[v].size = "normal"
      /\ state'[v] = "accepted" => token'[v].signed /\ token'[v].claims = "good"
  BY DEF Grounds
<1> QED BY <1>2, <1>3, <1>4, <1>5, <1>6 DEF Grounds

(* Steps that concern no verification in particular.                       *)
Elsewhere ==
  ReadArguments \/ LoadConfig \/ Bind \/ Closed \/ Receive \/ DiscoveryEnds \/ Cools \/ Ages \/ Continues \/ Answers

LEMMA GroundsElsewhere ==
  ASSUME TypeOK, Answered, NEW v \in Verification, Grounds(v), Elsewhere PROVE Grounds(v)'
<1>1. UNCHANGED <<editions, known, state, token, expired, judged, began, failed>>
  BY DEF Elsewhere, ReadArguments, LoadConfig, Bind, Closed, Receive, DiscoveryEnds, Cools, Ages, Continues,
         Answers, copy, calls
<1>2. fetch'.stage = "body" =>
        \/ fetch.stage = "body" /\ fetch'.edition = fetch.edition
        \/ fetch'.edition = Len(editions)
  <2>1. CASE Continues \/ Answers
    BY <2>1 DEF Continues, Answers, Fetch
  <2>2. CASE fetch' = fetch \/ fetch' = Asking("discovery") \/ fetch' = Asking("keys")
    BY <2>2, NewFetch
  <2> QED
    BY <2>1, <2>2
    DEF Elsewhere, ReadArguments, LoadConfig, Bind, Closed, Receive, DiscoveryEnds, Cools, Ages, copy
<1> QED BY <1>1, <1>2, Lengths, GroundsStay

LEMMA GroundsPublish == ASSUME TypeOK, NEW v \in Verification, Grounds(v), Publish PROVE Grounds(v)'
<1>1. UNCHANGED <<fetch, known, state, token, expired, judged, began, failed>>
  BY DEF Publish, copy, calls
<1> QED BY <1>1, Lengths, Appended, GroundsStay

LEMMA GroundsExpires ==
  ASSUME TypeOK, NEW v \in Verification, Grounds(v), NEW w \in Verification, Expires(w) PROVE Grounds(v)'
<1>1. UNCHANGED <<fetch, editions, known, state, token, judged, began, failed>> /\ expired \subseteq expired'
  BY DEF Expires, copy
<1> QED BY <1>1, Lengths, GroundsStay

LEMMA GroundsFetchFails == ASSUME TypeOK, NEW v \in Verification, Grounds(v), FetchFails PROVE Grounds(v)'
<1>1. UNCHANGED <<editions, known, token, expired, judged, began>> /\ failed' = failed \cup Waiting
  BY DEF FetchFails, copy
<1>2. fetch'.stage = "none"
  BY NewFetch DEF FetchFails
<1>3. CASE v \in Waiting
  <2>1. state'[v] = "rejected" /\ state[v] = "waiting"
    BY <1>3 DEF FetchFails, Waiting
  <2>2. Reason(v)'
    BY <1>1, <1>3 DEF Reason
  <2> QED BY <1>1, <1>2, <2>1, <2>2 DEF Grounds
<1>4. CASE v \notin Waiting
  <2>1. state'[v] = state[v]
    BY <1>4 DEF FetchFails
  <2> QED BY <1>1, <1>2, <2>1, Lengths, GroundsStay
<1> QED BY <1>3, <1>4

LEMMA Between ==
  ASSUME NEW a \in Nat, NEW b \in Nat, NEW c \in Nat, NEW d \in Nat, a <= b, b <= c, c <= d
  PROVE  a <= c /\ c \in a..d
OBVIOUS

LEMMA Within == ASSUME NEW a \in Nat, NEW b \in Nat, NEW c \in Nat, a <= b, b <= c PROVE b \in a..c
OBVIOUS

LEMMA Reflexive == ASSUME NEW a \in Nat PROVE a <= a
OBVIOUS

(* A verification that waited is judged by the new copy: it was answered   *)
(* since the verification began, unless the fetch had begun before.        *)
LEMMA GroundsKeysEnd ==
  ASSUME TypeOK, Answered, NEW v \in Verification, Grounds(v), KeysEnd PROVE Grounds(v)'
<1>1. UNCHANGED <<editions, token, expired, began, failed>> /\ known' = fetch.edition /\ fetch.stage = "body"
  BY DEF KeysEnd
<1>2. fetch'.stage = "none"
  BY NewFetch DEF KeysEnd
<1>3. /\ known' # 0 /\ known' \in Nat /\ known <= known' /\ known' <= Len(editions)
  BY <1>1, Lengths DEF Answered
<1> PICK found \in [Waiting -> {"found", "unusable", "no match"}] :
      /\ \A w \in Waiting : found[w] \in LookUp(editions[fetch.edition], token[w].key)
      /\ state' = [w \in Verification |-> IF w \in Waiting THEN After(found[w]) ELSE state[w]]
      /\ judged' = [w \in Verification |-> IF w \in Waiting THEN fetch.edition ELSE judged[w]]
  BY DEF KeysEnd
<1>4. CASE v \in Waiting
  <2>1. state[v] = "waiting"
    BY <1>4 DEF Waiting
  <2>2. /\ began[v].known # 0 /\ began[v].known <= known
        /\ began[v].current \in began[v].known..Len(editions)
        /\ began[v].stale \/ ~began[v].late => known' >= began[v].current
        /\ token[v].size = "normal"
    BY <1>1, <2>1 DEF Grounds
  <2>3. state'[v] = After(found[v]) /\ judged'[v] = known'
    BY <1>1, <1>4
  <2>4. found[v] \in LookUp(editions[known'], token[v].key)
    BY <1>1, <1>4
  <2>a. began[v].known <= known' /\ known' \in began[v].known..Len(editions)
    BY <1>3, <2>2, Parts, Lengths, Between
  <2>b. /\ began'[v].known # 0 /\ began'[v].known <= known'
        /\ began'[v].current \in began'[v].known..Len(editions')
    BY <1>1, <2>2, <2>a
  <2>5. CASE found[v] = "found"
    <3>1. state'[v] = "checking"
      BY <2>3, <2>5 DEF After
    <3>2. token[v].key \in editions[known'].keys
      BY <2>4, <2>5 DEF LookUp
    <3>3. began[v].stale => known' >= began[v].current
      BY <2>2
    <3>4. token'[v].size = "normal" /\ token'[v].key \in editions'[judged'[v]].keys
      BY <1>1, <2>2, <2>3, <3>2
    <3>5. judged'[v] \in began'[v].known..Len(editions') /\ (began'[v].stale => judged'[v] >= began'[v].current)
      BY <1>1, <2>3, <2>a, <3>3
    <3> QED BY <2>b, <3>1, <3>4, <3>5 DEF Grounds
  <2>6. CASE found[v] # "found"
    <3>1. state'[v] = "rejected"
      BY <2>3, <2>6 DEF After
    <3>2. token[v].key \notin editions[known'].keys \/ editions[known'].flawed
      BY <2>4, <2>6 DEF LookUp
    <3>3. Reason(v)'
      <4>1. CASE began[v].late
        BY <1>1, <4>1 DEF Reason
      <4>2. CASE editions[known'].flawed
        BY <1>1, <2>a, <4>2 DEF Reason
      <4>3. CASE ~began[v].late /\ token[v].key \notin editions[known'].keys
        <5> began[v].current <= known'
          BY <2>2, <4>3, Parts
        <5> began[v].current \in Nat
          BY Parts
        <5> Len(editions) \in Nat
          BY Lengths
        <5> known' \in began[v].current..Len(editions)
          BY <1>3, Within
        <5> QED BY <1>1, <4>3 DEF Reason
      <4> QED BY <3>2, <4>1, <4>2, <4>3
    <3> QED BY <2>b, <3>1, <3>3 DEF Grounds
  <2> QED BY <2>5, <2>6
<1>5. CASE v \notin Waiting
  <2>1. state'[v] = state[v] /\ judged'[v] = judged[v]
    BY <1>5
  <2>2. /\ failed \subseteq failed' /\ expired \subseteq expired' /\ UNCHANGED <<began, token>>
        /\ \A n \in 1..Len(editions) : editions'[n] = editions[n]
    BY <1>1
  <2>3. Len(editions) \in Nat
    BY Lengths
  <2>4. Len(editions') \in Nat /\ Len(editions) <= Len(editions')
    <3> Len(editions') = Len(editions)
      BY <1>1
    <3> QED BY <2>3, Reflexive
  <2> QED BY <1>2, <1>3, <2>1, <2>2, <2>4, GroundsStay
<1> QED BY <1>4, <1>5

LEMMA GroundsCheck ==
  ASSUME TypeOK, NEW v \in Verification, Grounds(v), NEW w \in Verification, Check(w) PROVE Grounds(v)'
<1>1. UNCHANGED <<fetch, editions, known, token, expired, judged, began, failed>>
  BY DEF Check, copy
<1>2. CASE v # w
  <2> state'[v] = state[v]
    BY <1>2 DEF Check, TypeOK
  <2> QED BY <1>1, Lengths, GroundsStay
<1>3. CASE v = w
  <2>1. state[v] = "checking" /\ state'[v] = IF Acceptable(v) THEN "accepted" ELSE "rejected"
    BY <1>3 DEF Check, TypeOK
  <2>2. CASE Acceptable(v)
    <3>1. token[v].claims \in Claims
      BY Parts DEF Token
    <3>2. token[v].signed /\ token[v].claims = "good"
      BY <2>2, <3>1 DEF Acceptable, jwtVerify, clientIdFromClaims, scopesFromClaim, Claims
    <3> QED BY <1>1, <2>1, <2>2, <3>2 DEF Grounds
  <2>3. CASE ~Acceptable(v)
    <3>1. ~Good(v)
      BY <2>3 DEF Good, Acceptable, jwtVerify, clientIdFromClaims, scopesFromClaim
    <3>2. ~Good(v)'
      BY <1>1, <3>1 DEF Good
    <3> QED BY <1>1, <2>1, <2>3, <3>2 DEF Grounds
  <2> QED BY <2>2, <2>3
<1> QED BY <1>2, <1>3

LEMMA GroundsVerify ==
  ASSUME TypeOK, Started, Answered, NEW v \in Verification, Grounds(v), NEW w \in Verification, verifyAccessToken(w)
  PROVE  Grounds(v)'
<1>1. UNCHANGED <<editions, known, token, expired, failed>> /\ phase \in {"listening", "closing"}
  BY DEF verifyAccessToken, runner, copy
<1>2. fetch' = fetch \/ (fetch = None /\ fetch' = Asking("keys"))
  BY DEF verifyAccessToken, resolveKey, Wait, Judge
<1>3. fetch'.stage = "body" => fetch' = fetch
  BY <1>2, NewFetch
<1>4. CASE v # w
  <2>1. state'[v] = state[v] /\ judged'[v] = judged[v] /\ began'[v] = began[v]
    BY <1>4 DEF verifyAccessToken, resolveKey, Wait, Judge, TypeOK
  <2> QED BY <1>1, <1>3, <2>1 DEF Grounds, Good, Reason
<1>5. CASE v = w
  <2>1. /\ began'[v].known = known /\ began'[v].current = Len(editions)
        /\ began'[v].stale = (~fresh /\ fetch = None)
        /\ began'[v].late = (cooling \/ fetch # None)
    BY <1>5 DEF verifyAccessToken, TypeOK
  <2>2. known # 0 /\ known \in 1..Len(editions) /\ Len(editions) \in known..Len(editions)
    BY <1>1, Lengths DEF Started, Preloaded
  <2>3. CASE token[v].size # "normal"
    <3>1. state'[v] = "rejected"
      BY <1>5, <2>3 DEF verifyAccessToken, TypeOK
    <3>2. ~Good(v)'
      BY <1>1, <2>3 DEF Good
    <3> QED BY <1>1, <2>1, <2>2, <3>1, <3>2 DEF Grounds
  <2>4. CASE token[v].size = "normal" /\ Wait(v)
    <3>1. state'[v] = "waiting"
      BY <2>4 DEF Wait, TypeOK
    <3>2. (began'[v].stale \/ ~began'[v].late) => fetch'.stage # "body"
      BY <2>1, <2>4, NewFetch DEF Wait
    <3> QED BY <1>1, <2>1, <2>2, <2>4, <3>1, <3>2 DEF Grounds
  <2>5. ASSUME token[v].size = "normal", fresh, NEW found \in LookUp(editions[known], token[v].key),
               ~(found = "no match" /\ ~cooling), Judge(v, found)
        PROVE  Grounds(v)'
    <3>1. state'[v] = After(found) /\ judged'[v] = known
      BY <2>5 DEF Judge, TypeOK
    <3>2. CASE found = "found"
      <4>1. token[v].key \in editions[known].keys
        BY <2>5, <3>2 DEF LookUp
      <4>2. state'[v] = "checking" /\ ~began'[v].stale
        BY <2>1, <2>5, <3>1, <3>2 DEF After
      <4>3. judged'[v] \in began'[v].known..Len(editions') /\ token'[v].key \in editions'[judged'[v]].keys
        BY <1>1, <2>1, <2>2, <3>1, <4>1
      <4>4. /\ began'[v].known # 0
            /\ began'[v].current \in began'[v].known..Len(editions') /\ token'[v].size = "normal"
        BY <1>1, <2>1, <2>2, <2>5
      <4>5. began'[v].known <= known'
        BY <1>1, <2>1, <2>2
      <4> QED BY <4>2, <4>3, <4>4, <4>5 DEF Grounds
    <3>3. CASE found # "found"
      <4>1. state'[v] = "rejected"
        BY <3>1, <3>3 DEF After
      <4>2. Reason(v)'
        <5>1. CASE cooling
          BY <2>1, <5>1 DEF Reason
        <5>2. CASE ~cooling
          <6> editions[known].flawed
            BY <2>5, <3>3, <5>2 DEF LookUp
          <6> QED BY <1>1, <2>1, <2>2 DEF Reason
        <5> QED BY <5>1, <5>2
      <4> QED BY <1>1, <2>1, <2>2, <4>1, <4>2 DEF Grounds
    <3> QED BY <3>2, <3>3
  <2> QED BY <1>5, <2>3, <2>4, <2>5 DEF verifyAccessToken, resolveKey
<1> QED BY <1>4, <1>5

LEMMA GroundsStutter ==
  ASSUME NEW v \in Verification, Grounds(v), UNCHANGED vars PROVE Grounds(v)'
BY DEF Grounds, Good, Reason, vars, copy, calls

LEMMA GroundsNext ==
  ASSUME TypeOK, Started, Answered, NEW v \in Verification, Grounds(v), [Next]_vars PROVE Grounds(v)'
<1>1. CASE Elsewhere \/ Publish
  BY <1>1, GroundsElsewhere, GroundsPublish
<1>2. CASE FetchFails
  BY <1>2, GroundsFetchFails
<1>3. CASE KeysEnd
  BY <1>3, GroundsKeysEnd
<1>4. CASE UNCHANGED vars
  BY <1>4, GroundsStutter
<1> QED
  BY <1>1, <1>2, <1>3, <1>4, GroundsVerify, GroundsExpires, GroundsCheck
  DEF Next, Elsewhere, Tenant, FetchEnds, NetworkFails, TooLarge, Timeout, DiscoveryIsInvalid, KeysAreMalformed

-----------------------------------------------------------------------------
LEMMA InvInit == Init => Inv
<1>1. Init => \A v \in Verification : Grounds(v)
  BY DEF Init, Grounds
<1> QED BY <1>1, TypesInit, StartedInit, AnsweredInit DEF Inv

LEMMA InvNext == Inv /\ [Next]_vars => Inv'
BY TypesNext, StartedNext, AnsweredNext, GroundsNext DEF Inv

(* The inductive invariant holds, and with it the types (startAuth0Remote- *)
(* Mcp, createAuth0TokenVerifier).                                         *)
THEOREM Validated == Spec => []Inv
BY InvInit, InvNext, PTL DEF Spec

(* Whatever the tenant answers and publishes, and whenever: the runner     *)
(* listens only after all was validated (createAuth0TokenVerifier).        *)
THEOREM FailedClosed == Spec => []FailsClosed
<1>1. Inv => FailsClosed
  BY DEF Inv, Started, FailsClosed, Preloaded
<1> QED BY <1>1, Validated, PTL

(* A token is accepted only by an edition that is recent enough, for any   *)
(* number of verifications, editions and fetches (verifyAccessToken).      *)
THEOREM Faded == Spec => []WithdrawnKeysFade
<1>1. Inv => WithdrawnKeysFade
  <2> SUFFICES ASSUME Inv, NEW v \in Verification, state[v] = "accepted"
               PROVE  /\ token[v].signed /\ token[v].claims = "good" /\ token[v].size = "normal"
                      /\ token[v].key \in editions[judged[v]].keys
                      /\ judged[v] >= began[v].known
                      /\ began[v].stale => judged[v] >= began[v].current
    BY DEF WithdrawnKeysFade
  <2>1. TypeOK /\ Grounds(v)
    BY DEF Inv
  <2> QED BY <2>1, Parts, Lengths DEF Grounds
<1> QED BY <1>1, Validated, PTL

(* A good token is rejected only for a reason (createAuth0TokenVerifier).  *)
THEOREM Seen == Spec => []RotationIsSeen
<1>1. Inv => RotationIsSeen
  <2> SUFFICES ASSUME Inv, NEW v \in Verification, state[v] = "rejected", Good(v) PROVE Reason(v)
    BY DEF RotationIsSeen
  <2> QED BY DEF Inv, Grounds
<1> QED BY <1>1, Validated, PTL

-----------------------------------------------------------------------------
(* Why waits end.  Whoever waits for the tenant waits for a fetch that is  *)
(* under way, and the timer of a fetch runs for as long as it is.          *)
Timed ==
  /\ fetch.stage # "none" => fetch.what \in {"discovery", "keys"}
  /\ phase = "discovery" => fetch.stage # "none" /\ fetch.what = "discovery"
  /\ phase = "keys" => fetch.stage # "none" /\ fetch.what = "keys"
  /\ \A v \in Verification : state[v] = "waiting" => fetch.stage # "none"

LEMMA TimedFetchFails == ASSUME TypeOK, Timed, FetchFails PROVE Timed'
<1>1. fetch' = None /\ fetch'.stage = "none"
  BY NewFetch DEF FetchFails
<1>2. phase' \notin {"discovery", "keys"}
  BY DEF FetchFails, Starting, Exit
<1>3. \A v \in Verification : state'[v] # "waiting"
  BY DEF FetchFails, Waiting
<1> QED BY <1>1, <1>2, <1>3 DEF Timed

LEMMA TimedAnswer == ASSUME TypeOK, Timed, Answers \/ Continues PROVE Timed'
<1>1. fetch'.stage = "body" /\ fetch'.what = fetch.what /\ fetch.stage # "none"
  BY DEF Answers, Continues, Fetch
<1>2. UNCHANGED <<phase, state>>
  BY DEF Answers, Continues, runner, calls
<1> QED BY <1>1, <1>2 DEF Timed

LEMMA TimedDiscovery == ASSUME TypeOK, Timed, DiscoveryEnds \/ LoadConfig PROVE Timed'
<1>1. CASE DiscoveryEnds
  <2>1. phase' = "keys" /\ state' = state /\ fetch'.stage = "asked" /\ fetch'.what = "keys"
    BY <1>1, NewFetch DEF DiscoveryEnds, calls
  <2> QED BY <2>1 DEF Timed
<1>2. CASE LoadConfig /\ phase' = "discovery" /\ fetch' = Asking("discovery")
  <2>1. state' = state /\ fetch'.stage = "asked" /\ fetch'.what = "discovery"
    BY <1>2, NewFetch DEF LoadConfig, calls
  <2> QED BY <1>2, <2>1 DEF Timed
<1>3. CASE LoadConfig /\ phase' = "exited" /\ fetch' = fetch
  <2>1. state' = state
    BY <1>3 DEF LoadConfig, calls
  <2> QED BY <1>3, <2>1 DEF Timed
<1> QED BY <1>1, <1>2, <1>3 DEF LoadConfig, Exit

LEMMA TimedKeysEnd == ASSUME TypeOK, Timed, KeysEnd PROVE Timed'
<1>1. fetch' = None /\ fetch'.stage = "none" /\ fetch.stage = "body" /\ fetch.what = "keys"
  BY NewFetch DEF KeysEnd
<1>2. phase' \notin {"discovery", "keys"}
  BY <1>1 DEF KeysEnd, Exit, Timed
<1>3. ASSUME NEW v \in Verification PROVE state'[v] # "waiting"
  <2>1. PICK found : state' = [w \in Verification |-> IF w \in Waiting THEN After(found[w]) ELSE state[w]]
    BY DEF KeysEnd
  <2>2. CASE v \in Waiting
    BY <2>1, <2>2, AfterType
  <2>3. CASE v \notin Waiting
    BY <2>1, <2>3 DEF Waiting
  <2> QED BY <2>2, <2>3
<1> QED BY <1>1, <1>2, <1>3 DEF Timed

LEMMA TimedVerify ==
  ASSUME TypeOK, Answered, Timed, NEW v \in Verification, verifyAccessToken(v) \/ Check(v)
  PROVE  Timed'
<1>1. phase' = phase
  BY DEF verifyAccessToken, Check, runner
<1>2. CASE \E state1 \in State \ {"waiting"} : state' = [state EXCEPT ![v] = state1] /\ fetch' = fetch
  BY <1>1, <1>2 DEF Timed, TypeOK
<1>3. CASE verifyAccessToken(v) /\ Wait(v)
  <2>1. fetch'.stage # "none" /\ fetch'.what \in {"discovery", "keys"}
    <3>1. CASE fetch = None
      BY <1>3, <3>1, NewFetch DEF Wait
    <3>2. CASE fetch # None
      BY <1>3, <3>2 DEF Wait, Answered, Timed
    <3> QED BY <3>1, <3>2
  <2>2. phase' = phase /\ phase \notin {"discovery", "keys"}
    BY <1>3 DEF verifyAccessToken, runner
  <2> QED BY <2>1, <2>2 DEF Timed
<1>4. CASE verifyAccessToken(v) /\ \E found : Judge(v, found)
  <2>1. PICK found : Judge(v, found)
    BY <1>4
  <2>2. After(found) \in State \ {"waiting"}
    BY AfterType DEF State
  <2> QED BY <1>2, <2>1, <2>2 DEF Judge
<1>5. CASE Check(v) \/ (verifyAccessToken(v) /\ state' = [state EXCEPT ![v] = "rejected"] /\ fetch' = fetch)
  <2>1. \E state1 \in {"accepted", "rejected"} : state' = [state EXCEPT ![v] = state1] /\ fetch' = fetch
    BY <1>5 DEF Check
  <2>2. {"accepted", "rejected"} \subseteq State \ {"waiting"}
    BY DEF State
  <2> QED BY <1>2, <2>1, <2>2
<1> QED BY <1>3, <1>4, <1>5 DEF verifyAccessToken, resolveKey

LEMMA TimedElsewhere ==
  ASSUME Timed, UNCHANGED <<fetch, state>>, phase' = phase \/ phase' \notin {"discovery", "keys"}
  PROVE  Timed'
BY DEF Timed

LEMMA TimedNext == TypeOK /\ Answered /\ Timed /\ [Next]_vars => Timed'
<1> SUFFICES ASSUME TypeOK, Answered, Timed, [Next]_vars PROVE Timed'
  OBVIOUS
<1>1. CASE ReadArguments \/ Bind \/ Closed \/ Receive
  BY <1>1, TimedElsewhere DEF ReadArguments, Bind, Closed, Receive, Exit, calls
<1>2. CASE Publish \/ Cools \/ Ages \/ UNCHANGED vars
  BY <1>2, TimedElsewhere DEF Publish, Cools, Ages, vars, runner, calls
<1>3. ASSUME NEW v \in Verification, Expires(v) PROVE Timed'
  BY <1>3, TimedElsewhere DEF Expires, runner
<1>4. CASE FetchFails
  BY <1>4, TimedFetchFails
<1> QED
  BY <1>1, <1>2, <1>3, <1>4, TimedAnswer, TimedDiscovery, TimedKeysEnd, TimedVerify
  DEF Next, Tenant, FetchEnds, NetworkFails, TooLarge, Timeout, DiscoveryIsInvalid, KeysAreMalformed

(* A runner that starts, and every verification that waits, waits for a    *)
(* fetch that is under way, and so on its timer: no answer of the tenant   *)
(* and no other waiter ends a fetch without all who wait for it            *)
(* (fetchDiscovery, createRemoteJWKSet).                                   *)
THEOREM WaitsAreTimed == Spec => []Timed
<1>1. Init => Timed
  BY NewFetch DEF Init, Timed
<1>2. Inv => TypeOK /\ Answered
  BY DEF Inv
<1> QED BY <1>1, <1>2, TimedNext, Validated, PTL DEF Spec

-----------------------------------------------------------------------------
(* Every step leads forward.                                               *)
Stage(where) ==
  IF where = "args" THEN 0 ELSE IF where = "config" THEN 1 ELSE IF where = "discovery" THEN 2
  ELSE IF where = "keys" THEN 3 ELSE IF where = "bind" THEN 4 ELSE IF where = "listening" THEN 5
  ELSE IF where = "closing" THEN 6 ELSE 7

Rank(where) ==
  IF where = "idle" THEN 0 ELSE IF where = "waiting" THEN 1 ELSE IF where = "checking" THEN 2 ELSE 3

VerificationsAdvance ==
  /\ \A v \in Verification : Rank(state[v]) <= Rank(state'[v])
  /\ \E v \in Verification : Rank(state[v]) < Rank(state'[v])

FetchAdvances ==
  \/ fetch.stage = "asked" /\ fetch'.stage = "body"
  \/ /\ fetch.stage = "body" /\ fetch'.stage = "body" /\ fetch'.what = fetch.what
     /\ fetch.bytes < fetch'.bytes /\ fetch'.bytes <= MaxBytes[fetch.what]
  \/ fetch.stage # "none" /\ fetch' = None

TimePasses ==
  \/ Len(editions) < Len(editions') /\ Len(editions') <= Editions /\ UNCHANGED <<expired, cooling, fresh>>
  \/ UNCHANGED editions /\ expired' # expired /\ expired \subseteq expired' /\ UNCHANGED <<cooling, fresh>>
  \/ UNCHANGED <<editions, expired>> /\ cooling /\ ~cooling' /\ fresh' = fresh
  \/ UNCHANGED <<editions, expired>> /\ cooling' = cooling /\ fresh /\ ~fresh'

(* The runner goes on; or it stays, and a signal is spent; or else some    *)
(* verifications go on and none goes back; or else the fetch under way     *)
(* goes on within its limit or ends; or else only time passes.             *)
Advances ==
  \/ Stage(phase) < Stage(phase')
  \/ /\ phase' = phase
     /\ \/ handlers' # handlers /\ handlers' \subseteq handlers
        \/ /\ handlers' = handlers
           /\ \/ VerificationsAdvance
              \/ state' = state /\ (FetchAdvances \/ (fetch' = fetch /\ TimePasses))

LEMMA Ranks ==
  /\ Rank("waiting") < Rank("checking") /\ Rank("waiting") < Rank("rejected") /\ Rank("idle") < Rank("waiting")
  /\ Rank("idle") < Rank("checking") /\ Rank("idle") < Rank("rejected") /\ Rank("checking") < Rank("rejected")
  /\ Rank("checking") < Rank("accepted") /\ \A where : Rank(where) \in 0..3 /\ Rank(where) <= Rank(where)
BY DEF Rank

LEMMA OneGoesOn ==
  ASSUME TypeOK, NEW v \in Verification, NEW where, Rank(state[v]) < Rank(where),
         state' = [state EXCEPT ![v] = where]
  PROVE  VerificationsAdvance
<1>1. state'[v] = where /\ \A w \in Verification : w # v => state'[w] = state[w]
  BY DEF TypeOK
<1>2. \A w \in Verification : Rank(state[w]) <= Rank(state'[w])
  <2> TAKE w \in Verification
  <2>1. CASE w = v
    <3>1. Rank(state[v]) \in 0..3 /\ Rank(where) \in 0..3
      BY Ranks
    <3> QED BY <1>1, <2>1, <3>1
  <2>2. CASE w # v
    BY <1>1, <2>2, Ranks
  <2> QED BY <2>1, <2>2
<1> QED BY <1>1, <1>2 DEF VerificationsAdvance

(* All who wait go on when their fetch ends.                               *)
LEMMA WaitersGoOn ==
  ASSUME TypeOK, NEW after, \A v \in Waiting : after[v] \in {"checking", "rejected"},
         state' = [v \in Verification |-> IF v \in Waiting THEN after[v] ELSE state[v]]
  PROVE  VerificationsAdvance \/ (Waiting = {} /\ state' = state)
<1>1. ASSUME NEW v \in Waiting PROVE v \in Verification /\ Rank(state[v]) < Rank(state'[v])
  <2>1. v \in Verification /\ state[v] = "waiting"
    BY <1>1 DEF Waiting
  <2>2. state'[v] \in {"checking", "rejected"}
    BY <1>1, <2>1
  <2> QED BY <2>1, <2>2, Ranks
<1>2. ASSUME NEW v \in Verification PROVE Rank(state[v]) <= Rank(state'[v])
  <2>1. CASE v \in Waiting
    <3>1. Rank(state[v]) \in 0..3 /\ Rank(state'[v]) \in 0..3
      BY Ranks
    <3> QED BY <1>1, <2>1, <3>1
  <2>2. CASE v \notin Waiting
    <3>1. state'[v] = state[v]
      BY <2>2
    <3> QED BY <3>1, Ranks
  <2> QED BY <2>1, <2>2
<1>3. CASE Waiting = {}
  <2>1. state = [v \in Verification |-> state[v]]
    BY DEF TypeOK
  <2> QED BY <1>3, <2>1
<1>4. CASE Waiting # {}
  BY <1>1, <1>2, <1>4 DEF VerificationsAdvance
<1> QED BY <1>3, <1>4

LEMMA FetchFailsAdvances == ASSUME TypeOK, fetch.stage # "none", FetchFails PROVE Advances
<1>1. CASE phase \in Starting
  <2>1. phase' = "exited"
    BY <1>1 DEF FetchFails, Exit
  <2>2. Stage(phase) < Stage("exited")
    BY <1>1 DEF Stage, Starting
  <2> QED BY <2>1, <2>2 DEF Advances
<1>2. CASE phase \notin Starting
  <2>1. phase' = phase /\ handlers' = handlers /\ fetch' = None
    BY <1>2 DEF FetchFails
  <2>2. PICK after : after = [v \in Verification |-> "rejected"]
    OBVIOUS
  <2>3. \A v \in Waiting : v \in Verification /\ after[v] = "rejected"
    BY <2>2 DEF Waiting
  <2>4. state' = [v \in Verification |-> IF v \in Waiting THEN after[v] ELSE state[v]]
    BY <2>2 DEF FetchFails
  <2>5. VerificationsAdvance \/ state' = state
    BY <2>3, <2>4, WaitersGoOn
  <2> QED BY <2>1, <2>5 DEF Advances, FetchAdvances
<1> QED BY <1>1, <1>2

LEMMA KeysEndAdvances == ASSUME TypeOK, KeysEnd PROVE Advances
<1>1. fetch.stage # "none" /\ fetch' = None /\ handlers' = handlers
  BY DEF KeysEnd
<1>2. CASE phase = "keys"
  <2>1. phase' \in {"bind", "exited"}
    BY <1>2 DEF KeysEnd, Exit
  <2> QED BY <1>2, <2>1 DEF Advances, Stage
<1>3. CASE phase # "keys"
  <2>1. PICK found : state' = [v \in Verification |-> IF v \in Waiting THEN After(found[v]) ELSE state[v]]
    BY DEF KeysEnd
  <2>2. PICK after : after = [v \in Verification |-> After(found[v])]
    OBVIOUS
  <2>3. \A v \in Waiting : v \in Verification /\ after[v] \in {"checking", "rejected"}
    BY <2>2, AfterType DEF Waiting
  <2>4. state' = [v \in Verification |-> IF v \in Waiting THEN after[v] ELSE state[v]]
    BY <2>1, <2>2
  <2>5. VerificationsAdvance \/ state' = state
    BY <2>3, <2>4, WaitersGoOn
  <2>6. phase' = phase
    BY <1>3 DEF KeysEnd
  <2> QED BY <1>1, <2>5, <2>6 DEF Advances, FetchAdvances
<1> QED BY <1>2, <1>3

LEMMA FetchGoesOn == ASSUME TypeOK, Timed, Answers \/ Continues PROVE Advances
<1>1. phase' = phase /\ handlers' = handlers /\ state' = state
  BY DEF Answers, Continues, runner, calls
<1>2. CASE Answers
  <2>1. fetch.stage = "asked" /\ fetch'.stage = "body"
    BY <1>2 DEF Answers, Fetch
  <2> QED BY <1>1, <2>1 DEF Advances, FetchAdvances
<1>3. CASE Continues
  <2>1. /\ fetch.stage = "body" /\ fetch.bytes < MaxBytes[fetch.what]
        /\ fetch'.stage = "body" /\ fetch'.what = fetch.what /\ fetch'.bytes = fetch.bytes + 1
    BY <1>3 DEF Continues, Fetch
  <2>2. fetch.bytes \in Nat /\ MaxBytes[fetch.what] \in Nat
    BY <2>1, FetchParts, Auth0Assumption DEF TypeOK, Timed
  <2>3. fetch.bytes < fetch'.bytes /\ fetch'.bytes <= MaxBytes[fetch.what]
    BY <2>1, <2>2
  <2> QED BY <1>1, <2>1, <2>3 DEF Advances, FetchAdvances
<1> QED BY <1>2, <1>3

LEMMA RunnerGoesOn ==
  ASSUME TypeOK, Started, Runs, ReadArguments \/ LoadConfig \/ Bind \/ Closed \/ Receive \/ DiscoveryEnds
  PROVE  Advances
<1>1. CASE ReadArguments \/ LoadConfig \/ Bind \/ Closed
  <2>1. \/ phase = "args" /\ phase' \in {"config", "exited"}
        \/ phase = "config" /\ phase' \in {"discovery", "exited"}
        \/ phase = "bind" /\ phase' \in {"listening", "exited"}
        \/ phase = "closing" /\ phase' = "exited"
    BY <1>1 DEF ReadArguments, LoadConfig, Bind, Closed, Exit
  <2> QED BY <2>1 DEF Advances, Stage
<1>2. CASE DiscoveryEnds
  <2>1. phase \in {"discovery", "exited"} /\ phase' = "keys" /\ phase # "exited"
    BY <1>2 DEF DiscoveryEnds, Started, Runs
  <2> QED BY <2>1 DEF Advances, Stage
<1>3. CASE Receive
  <2>1. CASE phase' = "exited"
    <3>1. phase \in {"args", "config", "discovery", "keys", "bind", "listening", "closing"}
      BY DEF Runs, TypeOK, Phase, Starting
    <3>2. Stage(phase) < Stage("exited")
      BY <3>1 DEF Stage
    <3> QED BY <2>1, <3>2 DEF Advances
  <2>2. CASE phase' # "exited"
    <3>1. PICK signal \in handlers : handlers' = handlers \ {signal} /\ phase' = "closing"
      BY <1>3, <2>2 DEF Receive, Exit
    <3>2. phase \in {"listening", "closing"}
      BY <3>1 DEF Started, Runs
    <3>3. handlers' # handlers /\ handlers' \subseteq handlers
      BY <3>1
    <3> QED BY <3>1, <3>2, <3>3 DEF Advances, Stage
  <2> QED BY <2>1, <2>2
<1> QED BY <1>1, <1>2, <1>3

LEMMA VerifyAdvances ==
  ASSUME TypeOK, NEW v \in Verification, verifyAccessToken(v) \/ Check(v)
  PROVE  Advances
<1>1. phase' = phase /\ handlers' = handlers
  BY DEF verifyAccessToken, Check, runner
<1>2. CASE Check(v)
  <2>1. state[v] = "checking" /\ \E where \in {"accepted", "rejected"} : state' = [state EXCEPT ![v] = where]
    BY <1>2 DEF Check
  <2> QED BY <1>1, <2>1, Ranks, OneGoesOn DEF Advances
<1>3. CASE verifyAccessToken(v)
  <2>1. state[v] = "idle"
        /\ \E where \in {"waiting", "checking", "rejected"} : state' = [state EXCEPT ![v] = where]
    BY <1>3, AfterType DEF verifyAccessToken, resolveKey, Wait, Judge
  <2> QED BY <1>1, <2>1, Ranks, OneGoesOn DEF Advances
<1> QED BY <1>2, <1>3

LEMMA TimeGoesOn ==
  ASSUME TypeOK, Publish \/ Cools \/ Ages \/ \E v \in Verification : Expires(v)
  PROVE  Advances
<1>1. phase' = phase /\ handlers' = handlers /\ state' = state /\ fetch' = fetch
  BY DEF Publish, Cools, Ages, Expires, runner, calls
<1>2. CASE Publish
  <2>1. PICK edition \in Edition : editions' = Append(editions, edition)
    BY <1>2 DEF Publish
  <2>2. Len(editions') = Len(editions) + 1
    BY <2>1, SequenceAppend DEF TypeOK
  <2>3. Len(editions) < Editions /\ Len(editions) \in Nat /\ Editions \in Nat
    BY <1>2, Lengths, Auth0Assumption DEF Publish
  <2>4. Len(editions) < Len(editions') /\ Len(editions') <= Editions
    BY <2>2, <2>3
  <2>5. UNCHANGED <<expired, cooling, fresh>>
    BY <1>2 DEF Publish, copy, calls
  <2> QED BY <1>1, <2>4, <2>5 DEF Advances, TimePasses
<1>3. CASE Cools \/ Ages
  BY <1>1, <1>3 DEF Cools, Ages, Advances, TimePasses, calls
<1>4. ASSUME NEW v \in Verification, Expires(v) PROVE Advances
  <2>1. /\ expired' = expired \cup {v} /\ v \notin expired /\ editions' = editions
        /\ cooling' = cooling /\ fresh' = fresh
    BY <1>4 DEF Expires, copy
  <2>2. expired' # expired /\ expired \subseteq expired'
    BY <2>1
  <2> QED BY <1>1, <2>1, <2>2 DEF Advances, TimePasses
<1> QED BY <1>2, <1>3, <1>4

(* Every step leads forward in a well-founded order, whatever the tenant   *)
(* does: the runner goes on, a signal is spent, verifications go on and    *)
(* none goes back, the fetch under way goes on within its limit or ends,   *)
(* or time passes.  A verification joins one fetch at most and is never    *)
(* sent back to wait for another (startAuth0RemoteMcp, verifyAccessToken,  *)
(* createRemoteJWKSet).                                                    *)
THEOREM VerifierAdvances == Spec => [][Advances]_vars
<1>1. Inv /\ Timed /\ [Next]_vars => [Advances]_vars
  <2> SUFFICES ASSUME Inv, Timed, Next PROVE Advances
    OBVIOUS
  <2>1. TypeOK /\ Started /\ Runs
    BY DEF Inv, Next
  <2>2. FetchFails /\ fetch.stage # "none" => Advances
    BY <2>1, FetchFailsAdvances
  <2> QED
    BY <2>1, <2>2, KeysEndAdvances, FetchGoesOn, RunnerGoesOn, VerifyAdvances, TimeGoesOn
    DEF Next, Tenant, FetchEnds, NetworkFails, TooLarge, Timeout, DiscoveryIsInvalid, KeysAreMalformed
<1> QED BY <1>1, Validated, WaitsAreTimed, PTL DEF Spec

=============================================================================
