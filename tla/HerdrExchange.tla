--------------------------- MODULE HerdrExchange ---------------------------
(***************************************************************************)
(* One call over a Unix socket (createUnixSocketExchange and               *)
(* HerdrSocketClient.call in src/src/herdr/protocol.ts): a connection of   *)
(* its own, one line out, one line back, and a timer.  Five handlers race  *)
(* for one promise, and some of them still run after it is settled.        *)
(*                                                                         *)
(* A line arrives in chunks; a chunk is whole, the head or the tail.       *)
(***************************************************************************)
EXTENDS Sequences

CONSTANT Answer   \* "result", "error", "otherId", "garbage": what the line holds

ASSUME AnswerAssumption == Answer \subseteq {"result", "error", "otherId", "garbage"}

Chunk == {"whole", "head", "tail"}

VARIABLES
  socket,     \* "connecting", "open" or "destroyed"
  listening,  \* the handlers are attached
  timer,      \* "armed", "cleared" or "fired"
  settled,    \* the guard shared by the handlers
  outcome,    \* what the promise was first settled with, then made of it
  write,      \* the request: "no", "handed" to the kernel, or "done"
  buffer,     \* what has arrived: "empty", "part" of a line or a "line"
  reached,    \* Herdr has read the request
  answer,     \* what it wrote back
  wire,       \* chunks it wrote that have not been delivered
  ended       \* it has closed the connection

local == <<socket, listening, timer, settled, outcome, buffer>>
herdr == <<reached, answer, wire, ended>>
vars == <<local, write, herdr>>

Init ==
  /\ socket = "connecting"
  /\ listening = TRUE
  /\ timer = "armed"
  /\ settled = FALSE
  /\ outcome = "waiting"
  /\ write = "no"
  /\ buffer = "empty"
  /\ reached = FALSE
  /\ answer = "none"
  /\ wire = <<>>
  /\ ended = FALSE

(* A promise keeps the first outcome it is given.                          *)
Settle(result) == outcome' = IF outcome = "waiting" THEN result ELSE outcome

(* finish and closeSocket: the first caller clears the timer, takes the    *)
(* handlers off and destroys the socket; later ones do nothing.            *)
finish(result) ==
  \/ settled /\ UNCHANGED <<socket, listening, timer, settled, outcome>>
  \/ /\ ~settled
     /\ settled' = TRUE
     /\ timer' = "cleared"
     /\ listening' = FALSE
     /\ socket' = "destroyed"
     /\ Settle(result)

-----------------------------------------------------------------------------
Connect ==
  /\ socket = "connecting"
  /\ socket' = "open"
  /\ write' = "handed"
  /\ UNCHANGED <<listening, timer, settled, outcome, buffer, herdr>>

Written ==
  /\ write = "handed"
  /\ write' = "done"
  /\ UNCHANGED <<local, herdr>>

(* The write callback is not a listener: it also runs, with an error, when *)
(* the socket is destroyed under it.                                       *)
WriteFails ==
  /\ write = "handed"
  /\ write' = "done"
  /\ finish("transport")
  /\ UNCHANGED <<buffer, herdr>>

(* Mutant: the id of the answer is not checked.                            *)
parseEnvelopeAnyId(said) ==
  IF said = "garbage" THEN "malformed" ELSE IF said = "otherId" THEN "result" ELSE said

(* parseEnvelope, in the same turn as the promise: the answer must carry   *)
(* the request's id and be one result or one error.                        *)
parseEnvelope(said) == IF said \in {"result", "error"} THEN said ELSE "malformed"

(* Mutant: whatever has arrived is parsed, line or not.                    *)
DataEager ==
  /\ socket = "open"
  /\ listening
  /\ wire # <<>>
  /\ wire' = Tail(wire)
  /\ buffer' = IF Head(wire) = "head" THEN "part" ELSE "line"
  /\ finish(IF Head(wire) = "head" THEN "malformed" ELSE parseEnvelope(answer))
  /\ UNCHANGED <<write, reached, answer, ended>>

Data ==
  /\ socket = "open"
  /\ listening
  /\ wire # <<>>
  /\ wire' = Tail(wire)
  /\ buffer' = IF Head(wire) = "head" THEN "part" ELSE "line"
  /\ \/ Head(wire) = "head" /\ UNCHANGED <<socket, listening, timer, settled, outcome>>
     \/ Head(wire) # "head" /\ finish(parseEnvelope(answer))
  /\ UNCHANGED <<write, reached, answer, ended>>

(* No such socket, connection refused or reset.                            *)
SocketError ==
  /\ socket \in {"connecting", "open"}
  /\ listening
  /\ finish("transport")
  /\ UNCHANGED <<write, buffer, herdr>>

(* The other side closed and everything it wrote has been delivered.       *)
Close ==
  /\ socket = "open"
  /\ listening
  /\ ended
  /\ wire = <<>>
  /\ finish("transport")
  /\ UNCHANGED <<write, buffer, herdr>>

(* Mutant: the timer only rejects.                                         *)
TimeoutLeaks ==
  /\ timer = "armed"
  /\ timer' = "fired"
  /\ \/ settled /\ UNCHANGED <<settled, outcome>>
     \/ /\ ~settled
        /\ settled' = TRUE
        /\ Settle("transport")
  /\ UNCHANGED <<socket, listening, write, buffer, herdr>>

(* The timer destroys the socket but leaves the handlers on it.            *)
Timeout ==
  /\ timer = "armed"
  /\ timer' = "fired"
  /\ \/ settled /\ UNCHANGED <<socket, settled, outcome>>
     \/ /\ ~settled
        /\ settled' = TRUE
        /\ socket' = "destroyed"
        /\ Settle("transport")
  /\ UNCHANGED <<listening, write, buffer, herdr>>

-----------------------------------------------------------------------------
(* Herdr.  What the kernel was handed it may read after the caller is gone.*)

HerdrReads ==
  /\ write # "no"
  /\ ~ended
  /\ ~reached
  /\ reached' = TRUE
  /\ UNCHANGED <<local, write, answer, wire, ended>>

HerdrAnswers ==
  /\ reached
  /\ ~ended
  /\ answer = "none"
  /\ answer' \in Answer
  /\ wire' \in {<<"whole">>, <<"head", "tail">>, <<"head">>}
  /\ UNCHANGED <<local, write, reached, ended>>

HerdrCloses ==
  /\ write # "no"
  /\ ~ended
  /\ ended' = TRUE
  /\ UNCHANGED <<local, write, reached, answer, wire>>

-----------------------------------------------------------------------------
Next ==
  \/ Connect \/ Written \/ WriteFails \/ Data \/ SocketError \/ Close \/ Timeout
  \/ HerdrReads \/ HerdrAnswers \/ HerdrCloses

(* Node runs an expired timer.                                             *)
Spec == Init /\ [][Next]_vars /\ WF_vars(Timeout)

-----------------------------------------------------------------------------
TypeOK ==
  /\ socket \in {"connecting", "open", "destroyed"}
  /\ listening \in BOOLEAN
  /\ timer \in {"armed", "cleared", "fired"}
  /\ settled \in BOOLEAN
  /\ outcome \in {"waiting", "transport", "malformed", "result", "error"}
  /\ write \in {"no", "handed", "done"}
  /\ buffer \in {"empty", "part", "line"}
  /\ reached \in BOOLEAN
  /\ answer \in Answer \cup {"none"}
  /\ wire \in Seq(Chunk)
  /\ ended \in BOOLEAN

(* Whoever settles the call, its socket is destroyed and its timer will    *)
(* not fire into a later one; while it is unsettled the timer guards it    *)
(* (closeSocket and the timer's own callback).                             *)
Released ==
  /\ settled => socket = "destroyed" /\ timer # "armed"
  /\ ~settled => timer = "armed" /\ listening /\ socket # "destroyed"
  /\ settled <=> outcome # "waiting"

(* A call keeps the promise Gateway Core relies on: it ends, once, and in  *)
(* an answer only if Herdr gave that answer (createUnixSocketExchange,     *)
(* HerdrSocketClient.call).                                                *)
Promised == INSTANCE RemoteCall
KeepsThePromise == Promised!Spec

(* A call that never connected has not reached Herdr, and an answer is     *)
(* only taken from a whole line, whatever was cut off (the data handler).  *)
Provenance ==
  /\ reached => write # "no"
  /\ answer # "none" => reached
  /\ outcome \in {"result", "error", "malformed"} =>
       answer # "none" /\ buffer = "line"

(* Why: where the chunks of a line can be.                                 *)
Flow ==
  IF answer = "none"
  THEN wire = <<>> /\ buffer = "empty"
  ELSE \/ wire \in {<<"whole">>, <<"head", "tail">>, <<"head">>} /\ buffer = "empty"
       \/ wire \in {<<"tail">>, <<>>} /\ buffer = "part"
       \/ wire = <<>> /\ buffer = "line"

=============================================================================
