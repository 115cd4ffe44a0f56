------------------------ MODULE HerdrExchangeProofs ------------------------
(***************************************************************************)
(* Theorems about one call over the socket, whatever Herdr answers and     *)
(* however it cuts its answer up.                                          *)
(***************************************************************************)
EXTENDS HerdrExchange, Naturals, TLAPS

Sound == Released /\ Provenance /\ Flow

LEMMA SoundInit == Init => Sound
BY DEF Init, Sound, Released, Provenance, Flow

LEMMA ReleasedNext == Released /\ [Next]_vars => Released'
BY DEF Released, Next, vars, local, herdr, Connect, Written, WriteFails, Data, SocketError, Close,
       Timeout, HerdrReads, HerdrAnswers, HerdrCloses, finish, Settle, parseEnvelope

(* What is delivered next and what is left.                                *)
LEMMA Deliveries ==
  /\ Head(<<"whole">>) = "whole" /\ Tail(<<"whole">>) = <<>>
  /\ Head(<<"head", "tail">>) = "head" /\ Tail(<<"head", "tail">>) = <<"tail">>
  /\ Head(<<"tail">>) = "tail" /\ Tail(<<"tail">>) = <<>>
  /\ Head(<<"head">>) = "head" /\ Tail(<<"head">>) = <<>>
OBVIOUS

LEMMA FlowNext == Provenance /\ Flow /\ [Next]_vars => Flow'
<1> SUFFICES ASSUME Provenance, Flow, [Next]_vars PROVE Flow'
  OBVIOUS
<1>1. CASE Data
  BY <1>1, Deliveries DEF Data, Flow
<1>2. CASE HerdrAnswers
  BY <1>2, AnswerAssumption DEF HerdrAnswers, Flow, local
<1>3. ASSUME ~Data, ~HerdrAnswers PROVE UNCHANGED <<answer, wire, buffer>>
  BY <1>3 DEF Next, vars, local, herdr, Connect, Written, WriteFails, SocketError, Close, Timeout,
              HerdrReads, HerdrCloses
<1> QED BY <1>1, <1>2, <1>3 DEF Flow

LEMMA ProvenanceNext == Sound /\ [Next]_vars => Provenance'
<1> SUFFICES ASSUME Sound, [Next]_vars PROVE Provenance'
  OBVIOUS
<1> USE DEF Sound, Released, Provenance
<1>1. CASE Data
  <2>1. CASE Head(wire) = "head"
    BY <1>1, <2>1 DEF Data
  <2>2. CASE Head(wire) # "head"
    <3>1. answer # "none" /\ buffer' = "line"
      BY <1>1, <2>2, Deliveries DEF Data, Flow
    <3> QED BY <1>1, <2>2, <3>1 DEF Data, Flow
  <2> QED BY <2>1, <2>2
<1>2. CASE HerdrAnswers
  BY <1>2, AnswerAssumption DEF HerdrAnswers, local
<1>3. CASE Connect \/ Written \/ HerdrReads \/ HerdrCloses \/ UNCHANGED vars
  BY <1>3 DEF Connect, Written, HerdrReads, HerdrCloses, vars, local, herdr
<1>4. CASE WriteFails \/ SocketError \/ Close \/ Timeout
  BY <1>4 DEF WriteFails, SocketError, Close, Timeout, finish, Settle, herdr
<1> QED BY <1>1, <1>2, <1>3, <1>4 DEF Next

LEMMA SoundNext == Sound /\ [Next]_vars => Sound'
BY ReleasedNext, FlowNext, ProvenanceNext DEF Sound

(* Whoever settles the call, its socket is destroyed and its timer is off; *)
(* until then the timer guards it (Released: closeSocket and the timer).   *)
THEOREM Cleanup == Spec => []Released
BY SoundInit, SoundNext, PTL DEF Spec, Sound

(* An answer is only ever taken from a whole line that Herdr wrote to this *)
(* request (Provenance: the data handler).                                 *)
THEOREM WholeAnswers == Spec => []Provenance
BY SoundInit, SoundNext, PTL DEF Spec, Sound

(* The safety of the promise Gateway Core relies on: a call ends once, and *)
(* in an answer only if Herdr gave it (HerdrSocketClient.call).            *)
THEOREM Implementation == Spec => Promised!Init /\ [][Promised!Next]_(Promised!vars)
<1>1. Init => Promised!Init
  BY DEF Init, Promised!Init
<1>2. Sound /\ [Next]_vars => [Promised!Next]_(Promised!vars)
  <2> SUFFICES ASSUME Sound, [Next]_vars PROVE [Promised!Next]_(Promised!vars)
    OBVIOUS
  <2> USE DEF Sound, Released, Promised!Next, Promised!vars
  <2>1. CASE Data
    <3>1. answer # "none" /\ UNCHANGED <<reached, answer>>
      BY <2>1 DEF Data, Flow
    <3>2. UNCHANGED outcome \/ (outcome = "waiting" /\ outcome' = parseEnvelope(answer))
      BY <2>1 DEF Data, finish, Settle
    <3>3. UNCHANGED outcome \/ Promised!End
      BY <3>1, <3>2 DEF Promised!End, Promised!Understood, parseEnvelope
    <3> QED BY <3>1, <3>3
  <2>2. CASE HerdrAnswers
    BY <2>2 DEF HerdrAnswers, Promised!Say, local
  <2>3. CASE HerdrReads
    BY <2>3 DEF HerdrReads, Promised!Reach, local
  <2>4. CASE Connect \/ Written \/ HerdrCloses \/ UNCHANGED vars
    BY <2>4 DEF Connect, Written, HerdrCloses, vars, local, herdr
  <2>5. CASE WriteFails \/ SocketError \/ Close \/ Timeout
    <3>1. UNCHANGED <<reached, answer>>
      BY <2>5 DEF WriteFails, SocketError, Close, Timeout, herdr
    <3>2. UNCHANGED outcome \/ (outcome = "waiting" /\ outcome' = "transport")
      BY <2>5 DEF WriteFails, SocketError, Close, Timeout, finish, Settle
    <3> QED BY <3>1, <3>2 DEF Promised!End
  <2> QED BY <2>1, <2>2, <2>3, <2>4, <2>5 DEF Next
<1> QED BY <1>1, <1>2, SoundInit, SoundNext, PTL DEF Spec

LEMMA TypesFinish ==
  ASSUME TypeOK, NEW result \in {"transport", "malformed", "result", "error"}, finish(result)
  PROVE  /\ socket' \in {"connecting", "open", "destroyed"} /\ listening' \in BOOLEAN
         /\ timer' \in {"armed", "cleared", "fired"} /\ settled' \in BOOLEAN
         /\ outcome' \in {"waiting", "transport", "malformed", "result", "error"}
BY DEF TypeOK, finish, Settle

LEMMA TypesData == ASSUME TypeOK, Data PROVE TypeOK'
<1>1. wire' \in Seq(Chunk) /\ buffer' \in {"empty", "part", "line"}
  BY DEF Data, TypeOK
<1>2. parseEnvelope(answer) \in {"transport", "malformed", "result", "error"}
  BY DEF parseEnvelope
<1>3. finish(parseEnvelope(answer)) \/ UNCHANGED <<socket, listening, timer, settled, outcome>>
  BY DEF Data
<1>4. UNCHANGED <<write, reached, answer, ended>>
  BY DEF Data
<1> QED BY <1>1, <1>2, <1>3, <1>4, TypesFinish DEF TypeOK

LEMMA TypesNext == TypeOK /\ [Next]_vars => TypeOK'
<1> SUFFICES ASSUME TypeOK, [Next]_vars PROVE TypeOK'
  OBVIOUS
<1>1. CASE Data
  BY <1>1, TypesData
<1>2. CASE WriteFails \/ SocketError \/ Close
  <2>1. finish("transport") /\ write' \in {"no", "handed", "done"} /\ UNCHANGED <<buffer, herdr>>
    BY <1>2 DEF WriteFails, SocketError, Close, TypeOK
  <2> QED BY <2>1, TypesFinish DEF TypeOK, herdr
<1>3. CASE HerdrAnswers
  <2>1. wire' \in Seq(Chunk)
    <3>1. <<"whole">> \in Seq(Chunk) /\ <<"head", "tail">> \in Seq(Chunk) /\ <<"head">> \in Seq(Chunk)
      BY DEF Chunk
    <3> QED BY <1>3, <3>1 DEF HerdrAnswers
  <2> QED BY <1>3, <2>1 DEF HerdrAnswers, TypeOK, local
<1>4. CASE Timeout
  BY <1>4 DEF Timeout, Settle, TypeOK, herdr
<1>5. CASE Connect \/ Written \/ HerdrReads \/ HerdrCloses \/ UNCHANGED vars
  BY <1>5 DEF Connect, Written, HerdrReads, HerdrCloses, TypeOK, vars, local, herdr
<1> QED BY <1>1, <1>2, <1>3, <1>4, <1>5 DEF Next

(* Every variable of a call keeps its type: its promise ends in one of the *)
(* outcomes that Gateway Core tells apart (HerdrSocketClient.call).        *)
THEOREM TypeCorrectness == Spec => []TypeOK
<1>1. Init => TypeOK
  <2>1. <<>> \in Seq(Chunk)
    OBVIOUS
  <2> QED BY <2>1 DEF Init, TypeOK
<1> QED BY <1>1, TypesNext, PTL DEF Spec

-----------------------------------------------------------------------------
(* Why a call ends and leaves nothing behind.                              *)
Stage(state) == IF state = "connecting" THEN 0 ELSE IF state = "open" THEN 1 ELSE 2

(* The socket goes on; or it stays, and one more thing that happens once   *)
(* has happened, and nothing that happened is undone; or a chunk that was  *)
(* written is delivered.                                                   *)
Advances ==
  \/ Stage(socket) < Stage(socket')
  \/ /\ socket' = socket /\ UNCHANGED <<listening, timer, settled, outcome>>
     /\ \/ write = "handed" /\ write' = "done" /\ UNCHANGED herdr
        \/ write' = write /\ ~reached /\ reached' /\ UNCHANGED <<answer, ended>>
        \/ write' = write /\ answer = "none" /\ answer' # "none" /\ UNCHANGED <<reached, ended>>
        \/ write' = write /\ ~ended /\ ended' /\ UNCHANGED <<reached, answer>>
        \/ write' = write /\ Len(wire') < Len(wire) /\ UNCHANGED <<reached, answer, ended>>

(* Every step of a call leads forward in a well-founded order, and once    *)
(* the socket is destroyed the promise, the timer and the handlers stay as *)
(* they are: neither a late chunk nor the callback of the write nor the    *)
(* timer does anything more (closeSocket, finish and the timer).           *)
THEOREM CallAdvances == Spec => [][Advances]_vars
<1>1. ASSUME TypeOK, Sound, Next PROVE Advances
  <2> USE <1>1 DEF Sound, Released
  <2>1. CASE Connect
    BY <2>1 DEF Connect, Advances, Stage
  <2>2. CASE WriteFails \/ SocketError \/ Close \/ Timeout
    <3>1. CASE settled
      <4>1. WriteFails /\ UNCHANGED <<socket, listening, timer, settled, outcome>>
        BY <2>2, <3>1 DEF WriteFails, SocketError, Close, Timeout, finish
      <4> QED BY <4>1 DEF WriteFails, Advances
    <3>2. CASE ~settled
      <4>1. socket' = "destroyed"
        BY <2>2, <3>2 DEF WriteFails, SocketError, Close, Timeout, finish
      <4>2. socket \in {"connecting", "open"}
        BY <3>2 DEF TypeOK
      <4>3. Stage(socket) < Stage(socket')
        BY <4>1, <4>2 DEF Stage
      <4> QED BY <4>3 DEF Advances
    <3> QED BY <3>1, <3>2
  <2>3. CASE Data
    <3>1. socket = "open" /\ wire \in Seq(Chunk) /\ wire # <<>> /\ wire' = Tail(wire)
      BY <2>3 DEF Data, TypeOK
    <3>2. Len(wire') < Len(wire)
      BY <3>1
    <3>3. CASE UNCHANGED <<socket, listening, timer, settled, outcome>>
      BY <2>3, <3>2, <3>3 DEF Data, Advances
    <3>4. CASE socket' = "destroyed"
      BY <3>1, <3>4 DEF Advances, Stage
    <3> QED BY <2>3, <3>3, <3>4 DEF Data, finish
  <2>4. CASE Written \/ HerdrReads \/ HerdrCloses
    BY <2>4 DEF Written, HerdrReads, HerdrCloses, Advances, local, herdr
  <2>5. CASE HerdrAnswers
    BY <2>5, AnswerAssumption DEF HerdrAnswers, Advances, local
  <2> QED BY <1>1, <2>1, <2>2, <2>3, <2>4, <2>5 DEF Next
<1>2. TypeOK /\ Sound /\ [Next]_vars => [Advances]_vars
  BY <1>1
<1> QED BY <1>2, TypeCorrectness, SoundInit, SoundNext, PTL DEF Spec

=============================================================================
