------------------------- MODULE CommandLineProofs -------------------------
(***************************************************************************)
(* Theorems about the command line, for any number of processes started on *)
(* any command lines, any prompt and any limit.  Course says what a        *)
(* process can have done by where it is; LastOpener, who is responsible    *)
(* for what the configuration file holds.                                  *)
(*                                                                         *)
(* The last part is about parseArgs alone: its loop is a fold, defined for *)
(* every command line, and its steps commute.                              *)
(***************************************************************************)
EXTENDS CommandLine, Integers, FiniteSetTheorems, TLAPS

(* A process that has done nothing yet.                                    *)
Untouched(p) ==
  /\ prompt[p] = {} /\ taken[p] = 0 /\ malformed[p] = 0 /\ written[p] = 0
  /\ offered[p]["stdin"] = 0 /\ offered[p]["--file"] = 0
  /\ p \notin opened /\ p \notin accepted

(* No other input competes with the source of a prompt.                    *)
Alone(p) == p \in terminal \/ ("stdin" \in drained[p] /\ offered[p]["stdin"] = 0)

Sent(p, sent) ==
  /\ sent.bytes \in 1..Limit
  /\ sent.source = IF Message(p) THEN "message" ELSE IF FileGiven(p) THEN "--file" ELSE "stdin"
  /\ ~(Message(p) /\ FileGiven(p))
  /\ sent.source # "message" =>
       sent.source \in drained[p] /\ offered[p][sent.source] = taken[p] /\ sent.bytes = decoded(p)
  /\ sent.source # "stdin" => Alone(p)

Course(p) ==
  /\ phase[p] \in {"start", "main", "peek", "access", "prepare", "open"} => Untouched(p)
  /\ phase[p] \in {"access", "prepare", "open", "write"} => Running(p, "init")
  /\ phase[p] \in {"peek", "stdin", "--file"} => Running(p, "send")
  /\ Running(p, "send") => ~(Message(p) /\ FileGiven(p))
  /\ phase[p] \in {"stdin", "--file", "write"} => prompt[p] = {} /\ p \notin accepted
  /\ phase[p] \in {"stdin", "--file"} => taken[p] <= Limit
  /\ phase[p] = "stdin" => ~Message(p) /\ ~FileGiven(p) /\ offered[p]["stdin"] = taken[p]
  /\ phase[p] = "--file" => ~Message(p) /\ FileGiven(p) /\ Alone(p) /\ offered[p]["--file"] = taken[p]
  /\ phase[p] \in {"stdin", "--file", "load", "operation"} => p \notin opened /\ written[p] = 0
  /\ phase[p] \in {"load", "operation"} =>
       p \notin accepted /\ ~Running(p, "init") /\ (Running(p, "send") => prompt[p] # {})
  /\ prompt[p] # {} => Running(p, "send")
  /\ \A sent \in prompt[p] : Sent(p, sent)
  /\ phase[p] = "write" => p \in opened /\ file.exists /\ ~file.own /\ written[p] # Pieces
  /\ exit[p] # "" => phase[p] = "done"
  /\ exit[p] = "2" => p \notin opened /\ p \notin accepted /\ prompt[p] = {}
  /\ exit[p] = "0" /\ Running(p, "init") => p \in opened /\ written[p] = Pieces
  /\ exit[p] = "0" /\ Running(p, "send") => p \in accepted /\ prompt[p] # {}
  /\ p \in accepted => exit[p] = "0"
  /\ p \in opened => Running(p, "init")

LastOpener ==
  opened # {} =>
    \E p \in opened : /\ file.exists /\ ~file.own
                      /\ file = Example(file.pieces) /\ file.pieces \subseteq 1..Pieces
                      /\ 1..written[p] \subseteq file.pieces

Types ==
  /\ call = [p \in Process |-> call[p]]
  /\ phase = [p \in Process |-> phase[p]] /\ exit = [p \in Process |-> exit[p]]
  /\ taken \in [Process -> Nat] /\ malformed \in [Process -> Nat]
  /\ prompt = [p \in Process |-> prompt[p]] /\ drained = [p \in Process |-> drained[p]]
  /\ written \in [Process -> 0..Pieces]
  /\ offered \in [Process -> [{"stdin", "--file"} -> Nat]]

Inv == Types /\ (\A p \in Process : Course(p)) /\ LastOpener

-----------------------------------------------------------------------------
(* A command line names at most one source of the prompt.                  *)
LEMMA OneSource ==
  ASSUME NEW line, Call(line).verdict = "send" PROVE ~(Call(line).message /\ Call(line).file)
<1> DEFINE parsed == Read(line)
<1> DEFINE result == parseArgs(line)
<1>1. Verdict(line) = "send"
  BY DEF Call
<1>2. /\ ~result.error /\ result.flags \cap {"--help", "--version"} = {}
      /\ result.positional[1] = "send"
  BY <1>1 DEF Verdict
<1>3. result = parsed /\ ~Misused(parsed)
  <2>1. ~parsed.error
    BY <1>2 DEF parseArgs
  <2>2. parsed.pending = ""
    BY <1>2, <2>1 DEF parseArgs, Mistaken
  <2>3. parsed.flags \cap {"--help", "--version"} = {}
    BY <1>2, <2>1, <2>2 DEF parseArgs
  <2> QED BY <1>2, <2>1, <2>2, <2>3 DEF parseArgs, Mistaken
<1>4. ~(Len(parsed.positional) = 3 /\ Given(parsed, {"--file"}))
  BY <1>2, <1>3 DEF Misused
<1>5. Call(line).message = (Len(parsed.positional) = 3) /\ Call(line).file = Given(parsed, {"--file"})
  BY <1>3 DEF Call
<1> QED BY <1>4, <1>5

-----------------------------------------------------------------------------
(* Steps of others.                                                        *)

LEMMA Still ==
  ASSUME NEW q \in Process, Course(q), terminal' = terminal,
         call'[q] = call[q], phase'[q] = phase[q], exit'[q] = exit[q], taken'[q] = taken[q],
         malformed'[q] = malformed[q], prompt'[q] = prompt[q], written'[q] = written[q],
         offered'[q] = offered[q], drained'[q] = drained[q],
         q \in opened' <=> q \in opened, q \in accepted' <=> q \in accepted,
         phase[q] = "write" => file'.exists /\ ~file'.own
  PROVE  Course(q)'
<1>1. /\ Running(q, "init")' = Running(q, "init") /\ Running(q, "send")' = Running(q, "send")
      /\ Message(q)' = Message(q) /\ FileGiven(q)' = FileGiven(q)
  BY DEF Running, Message, FileGiven
<1>2. Untouched(q) => Untouched(q)'
  BY DEF Untouched
<1>3. Alone(q)' = Alone(q)
  BY DEF Alone
<1>4. ASSUME NEW sent, Sent(q, sent) PROVE Sent(q, sent)'
  BY <1>1, <1>3, <1>4 DEF Sent, decoded
<1>5. \A sent \in prompt'[q] : Sent(q, sent)'
  BY <1>4 DEF Course
<1> QED BY <1>1, <1>2, <1>3, <1>5 DEF Course

LEMMA Updated ==
  ASSUME NEW S, NEW f, f = [x \in S |-> f[x]], NEW a \in S, NEW v, NEW g, g = [f EXCEPT ![a] = v]
  PROVE  /\ g = [x \in S |-> g[x]]
         /\ g[a] = v
         /\ \A x \in S : x # a => g[x] = f[x]
<1>1. g = [x \in S |-> IF x = a THEN v ELSE f[x]]
  OBVIOUS
<1> QED BY <1>1

(* Where only the process itself changes, and not the file.                *)
LEMMA Elsewhere ==
  ASSUME Inv, NEW p \in Process, terminal' = terminal, UNCHANGED <<writing>>,
         \A q \in Process : q # p =>
           /\ call'[q] = call[q] /\ phase'[q] = phase[q] /\ exit'[q] = exit[q] /\ taken'[q] = taken[q]
           /\ malformed'[q] = malformed[q] /\ prompt'[q] = prompt[q]
           /\ offered'[q] = offered[q] /\ drained'[q] = drained[q] /\ (q \in accepted' <=> q \in accepted),
         Types', Course(p)'
  PROVE  Inv'
<1>1. written' = written /\ file' = file /\ opened' = opened
  BY DEF writing
<1>2. ASSUME NEW q \in Process PROVE Course(q)'
  <2>1. CASE q = p
    BY <2>1
  <2>2. CASE q # p
    <3>1. phase[q] = "write" => file'.exists /\ ~file'.own
      BY <1>1 DEF Inv, Course
    <3> QED BY <2>2, <1>1, <3>1, Still DEF Inv
  <2> QED BY <2>1, <2>2
<1>3. LastOpener'
  BY <1>1 DEF Inv, LastOpener
<1> QED BY <1>2, <1>3 DEF Inv

(* A process that goes on, or exits, and does nothing else.                *)
LEMMA Moved ==
  ASSUME Inv, NEW p \in Process, NEW where, NEW code, phase' = [phase EXCEPT ![p] = where],
         exit' = exit \/ exit' = [exit EXCEPT ![p] = code],
         UNCHANGED <<call, terminal, reading, writing, accepted>>, Course(p)'
  PROVE  Inv'
<1>1. /\ taken' = taken /\ malformed' = malformed /\ prompt' = prompt
      /\ offered' = offered /\ drained' = drained /\ written' = written
  BY DEF reading, writing
<1>2. phase' = [q \in Process |-> phase'[q]] /\ \A q \in Process : q # p => phase'[q] = phase[q]
  BY Updated DEF Inv, Types
<1>3. exit' = [q \in Process |-> exit'[q]] /\ \A q \in Process : q # p => exit'[q] = exit[q]
  BY Updated DEF Inv, Types
<1>4. Types'
  BY <1>1, <1>2, <1>3 DEF Inv, Types
<1> QED BY <1>1, <1>2, <1>3, <1>4, Elsewhere

LEMMA Gone ==
  ASSUME Inv, NEW p \in Process, NEW where, Goes(p, where),
         UNCHANGED <<call, terminal, reading, writing, accepted>>, Course(p)'
  PROVE  Inv'
BY Moved DEF Goes

(* Exits that promise nothing, and those that promise nothing was done.    *)
LEMMA ExitPreserves ==
  ASSUME Inv, NEW p \in Process, NEW code \in {"1", "2", "killed"}, phase[p] # "done", Exits(p, code),
         code = "2" => p \notin opened /\ p \notin accepted /\ prompt[p] = {},
         UNCHANGED <<call, terminal, reading, writing, accepted>>
  PROVE  Inv'
<1> USE DEF reading, writing
<1>1. phase'[p] = "done" /\ exit'[p] = code
  BY DEF Exits, Inv, Types
<1>2. p \notin accepted
  BY DEF Inv, Course
<1>3. /\ Running(p, "init")' = Running(p, "init") /\ Running(p, "send")' = Running(p, "send")
      /\ Message(p)' = Message(p) /\ FileGiven(p)' = FileGiven(p)
  BY DEF Running, Message, FileGiven
<1>4. Alone(p)' = Alone(p)
  BY DEF Alone
<1>5. \A sent \in prompt'[p] : Sent(p, sent)'
  <2>1. ASSUME NEW sent, Sent(p, sent) PROVE Sent(p, sent)'
    BY <1>3, <1>4, <2>1 DEF Sent, decoded
  <2> QED BY <2>1 DEF Inv, Course
<1>6. Course(p)'
  BY <1>1, <1>2, <1>3, <1>5 DEF Inv, Course
<1> QED BY <1>6, Moved DEF Exits

-----------------------------------------------------------------------------
(* main.                                                                   *)

LEMMA ParsePreserves ==
  ASSUME Inv, NEW p \in Process, Parse(p) PROVE Inv'
<1> USE DEF Parse, Goes, reading, writing
<1>1. /\ call'[p] = Call(args[p]) /\ phase'[p] = "main"
  BY DEF Inv, Types
<1>2. Types'
  <2>1. call' = [q \in Process |-> call'[q]]
    <3>1. call' = [call EXCEPT ![p] = Call(args[p])]
      OBVIOUS
    <3> HIDE DEF Parse
    <3> QED BY <3>1, Updated DEF Inv, Types
  <2>2. phase' = [q \in Process |-> phase'[q]]
    <3>1. phase' = [phase EXCEPT ![p] = "main"]
      OBVIOUS
    <3> HIDE DEF Parse
    <3> QED BY <3>1, Updated DEF Inv, Types
  <2> QED BY <2>1, <2>2 DEF Inv, Types
<1>3. Untouched(p)' /\ exit'[p] = "" /\ prompt'[p] = {}
  BY DEF Inv, Course, Untouched
<1>4. Running(p, "send")' => ~(Message(p)' /\ FileGiven(p)')
  BY <1>1, OneSource DEF Running, Message, FileGiven
<1>5. Course(p)'
  <2> HIDE DEF Parse
  <2> QED BY <1>1, <1>3, <1>4 DEF Course, Untouched
<1> QED BY <1>2, <1>5, Elsewhere DEF Inv, Types

(* A prompt that may be sent is the source it comes from.                  *)
LEMMA SendPreserves ==
  ASSUME Inv, NEW p \in Process, NEW source, NEW bytes \in Nat, sendPrompt(p, source, bytes),
         Running(p, "send"), phase[p] \in {"main", "peek", "stdin", "--file"},
         UNCHANGED <<call, terminal, writing, accepted, taken, malformed, offered>>,
         drained' = [drained EXCEPT ![p] = drained'[p]],
         drained[p] \subseteq drained'[p],
         prompt[p] = {}, p \notin opened, p \notin accepted, written[p] = 0,
         source = IF Message(p) THEN "message" ELSE IF FileGiven(p) THEN "--file" ELSE "stdin",
         source # "message" =>
           /\ source \in drained'[p] /\ offered[p][source] = taken[p] /\ bytes = decoded(p),
         source # "stdin" => Alone(p)'
  PROVE  Inv'
<1> USE DEF writing
<1>1. exit[p] = ""
  BY DEF Inv, Course
<1>2. Types'
  <2>1. drained' = [q \in Process |-> drained'[q]]
    BY Updated DEF Inv, Types
  <2>2. prompt' = [q \in Process |-> prompt'[q]]
    <3>1. CASE Refused(p, bytes) # ""
      BY <3>1 DEF sendPrompt, Inv, Types
    <3>2. CASE Refused(p, bytes) = ""
      <4>1. prompt' = [prompt EXCEPT ![p] = {[source |-> source, bytes |-> bytes]}]
        BY <3>2 DEF sendPrompt
      <4> QED BY <4>1, Updated DEF Inv, Types
    <3> QED BY <3>1, <3>2
  <2>3. phase' = [q \in Process |-> phase'[q]] /\ exit' = [q \in Process |-> exit'[q]]
    <3>1. \E where \in {"done", "load"} : phase' = [phase EXCEPT ![p] = where]
      BY DEF sendPrompt, Goes, Exits
    <3>2. \/ exit' = exit
          \/ \E code \in {"1", "2"} : exit' = [exit EXCEPT ![p] = code]
      BY DEF sendPrompt, Goes, Exits, Refused
    <3>3. phase' = [q \in Process |-> phase'[q]]
      BY <3>1, Updated DEF Inv, Types
    <3>4. exit' = [q \in Process |-> exit'[q]]
      BY <3>2, Updated DEF Inv, Types
    <3> QED BY <3>3, <3>4
  <2> QED BY <2>1, <2>2, <2>3 DEF Inv, Types
<1>3. CASE Refused(p, bytes) # ""
  <2>1. /\ phase'[p] = "done" /\ exit'[p] \in {"1", "2"} /\ prompt'[p] = {}
    BY <1>3 DEF sendPrompt, Exits, Refused, Inv, Types
  <2>2. Course(p)'
    BY <2>1 DEF Course, Inv, Running, Message, FileGiven
  <2> QED BY <1>2, <1>3, <2>2, Elsewhere DEF sendPrompt, Exits, Inv, Types
<1>4. CASE Refused(p, bytes) = ""
  <2> DEFINE sent == [source |-> source, bytes |-> bytes]
  <2>1. /\ phase'[p] = "load" /\ exit'[p] = "" /\ prompt'[p] = {sent}
    BY <1>1, <1>4 DEF sendPrompt, Goes, Inv, Types
  <2>2. bytes \in 1..Limit
    BY <1>4, CommandLineAssumption DEF Refused
  <2>3. /\ Running(p, "send")' /\ ~Running(p, "init")'
        /\ Message(p)' = Message(p) /\ FileGiven(p)' = FileGiven(p)
    BY DEF Running, Message, FileGiven
  <2>4. ~(Message(p) /\ FileGiven(p))
    BY DEF Inv, Course
  <2>5. Sent(p, sent)'
    BY <2>2, <2>3, <2>4 DEF Sent, decoded
  <2>6. Course(p)'
    BY <2>1, <2>3, <2>4, <2>5 DEF Course
  <2> QED BY <1>2, <1>4, <2>6, Elsewhere DEF sendPrompt, Goes, Inv, Types
<1> QED BY <1>3, <1>4

(* The prompt, or the source to read it from, once no other input competes. *)
LEMMA ResolvePreserves ==
  ASSUME Inv, NEW p \in Process, resolvePrompt(p), phase[p] \in {"main", "peek"}, Running(p, "send"),
         UNCHANGED <<call, terminal, writing, accepted>>,
         drained' = [drained EXCEPT ![p] = drained'[p]], drained[p] \subseteq drained'[p],
         Message(p) \/ FileGiven(p) => Alone(p)'
  PROVE  Inv'
<1> USE DEF writing
<1>1. /\ exit[p] = "" /\ p \notin opened /\ p \notin accepted
      /\ prompt[p] = {} /\ written[p] = 0 /\ taken[p] = 0
      /\ offered[p]["stdin"] = 0 /\ offered[p]["--file"] = 0
  BY DEF Inv, Course, Untouched
<1>2. ~(Message(p) /\ FileGiven(p))
  BY DEF Inv, Course
<1>3. CASE Message(p)
  <2>1. PICK bytes \in 0..Limit + 1 : sendPrompt(p, "message", bytes)
    BY <1>3 DEF resolvePrompt
  <2>2. UNCHANGED <<taken, malformed, offered>>
    BY <1>3 DEF resolvePrompt
  <2>3. bytes \in Nat
    BY CommandLineAssumption
  <2> QED BY <1>1, <1>3, <2>1, <2>2, <2>3, SendPreserves
<1>4. CASE ~Message(p)
  <2> DEFINE where == IF FileGiven(p) THEN "--file" ELSE "stdin"
  <2>1. Goes(p, where) /\ UNCHANGED <<taken, malformed, prompt, offered>>
    BY <1>4 DEF resolvePrompt
  <2>2. phase' = [phase EXCEPT ![p] = where] /\ exit' = exit
    BY <2>1 DEF Goes
  <2>3. phase'[p] = where /\ exit'[p] = ""
    BY <1>1, <2>2 DEF Inv, Types
  <2>4. /\ Running(p, "send")' /\ ~Running(p, "init")'
        /\ Message(p)' = Message(p) /\ FileGiven(p)' = FileGiven(p)
    BY DEF Running, Message, FileGiven
  <2>5. Course(p)'
    <3>1. taken'[p] <= Limit
      <4>1. taken'[p] = 0
        BY <1>1, <2>1
      <4>2. 0 <= Limit
        BY CommandLineAssumption
      <4> QED BY <4>1, <4>2
    <3> QED BY <1>1, <1>4, <2>1, <2>3, <2>4, <3>1 DEF Course
  <2>6. Types'
    BY <2>1, <2>2, Updated DEF Inv, Types
  <2>7. \A q \in Process : q # p => drained'[q] = drained[q] /\ phase'[q] = phase[q]
    BY <2>2, Updated DEF Inv, Types
  <2> QED BY <2>1, <2>2, <2>5, <2>6, <2>7, Elsewhere
<1> QED BY <1>3, <1>4

LEMMA StartPreserves ==
  ASSUME Inv, NEW p \in Process, Start(p) PROVE Inv'
<1> USE DEF reading, writing
<1>1. /\ phase[p] = "main" /\ exit[p] = "" /\ Untouched(p) /\ p \notin opened /\ p \notin accepted
      /\ prompt[p] = {} /\ written[p] = 0 /\ taken[p] = 0
      /\ offered[p]["stdin"] = 0 /\ offered[p]["--file"] = 0
  BY DEF Start, Inv, Course, Untouched
<1>2. UNCHANGED <<call, terminal, writing, accepted>>
  BY DEF Start
<1>3. /\ Running(p, "init")' = Running(p, "init") /\ Running(p, "send")' = Running(p, "send")
      /\ Message(p)' = Message(p) /\ FileGiven(p)' = FileGiven(p)
  BY <1>2 DEF Running, Message, FileGiven
<1>4. CASE (Running(p, "version") \/ Running(p, "help")) /\ Exits(p, "0") /\ UNCHANGED reading
  <2>1. phase'[p] = "done" /\ exit'[p] = "0"
    BY <1>4 DEF Exits, Inv, Types
  <2>2. ~Running(p, "init") /\ ~Running(p, "send")
    BY <1>4 DEF Running
  <2>3. Course(p)'
    BY <1>1, <1>2, <1>3, <1>4, <2>1, <2>2 DEF Course
  <2> QED BY <1>2, <1>4, <2>3, Moved DEF Exits
<1>5. CASE Exits(p, "2") /\ UNCHANGED reading
  BY <1>1, <1>2, <1>5, ExitPreserves
<1>6. CASE Running(p, "init") /\ (Goes(p, "prepare") \/ Goes(p, "access")) /\ UNCHANGED reading
  <2>1. phase'[p] \in {"prepare", "access"} /\ exit'[p] = ""
    BY <1>1, <1>6 DEF Goes, Inv, Types
  <2>2. ~Running(p, "send")
    BY <1>6 DEF Running
  <2>3. Course(p)'
    BY <1>1, <1>2, <1>3, <1>6, <2>1, <2>2 DEF Course, Untouched
  <2> QED BY <1>2, <1>6, <2>3, Gone
<1>7. CASE Running(p, "send") /\ Goes(p, "peek") /\ UNCHANGED reading
  <2>1. phase'[p] = "peek" /\ exit'[p] = ""
    BY <1>1, <1>7 DEF Goes, Inv, Types
  <2>2. ~(Message(p) /\ FileGiven(p))
    BY <1>7 DEF Inv, Course
  <2>3. Course(p)'
    BY <1>1, <1>2, <1>3, <1>7, <2>1, <2>2 DEF Course, Untouched
  <2> QED BY <1>2, <1>7, <2>3, Gone
<1>8. CASE Running(p, "send") /\ ~shouldInspectStdin(p) /\ resolvePrompt(p) /\ UNCHANGED drained
  <2>1. drained' = [drained EXCEPT ![p] = drained'[p]]
    BY <1>8 DEF Inv, Types
  <2>2. Message(p) \/ FileGiven(p) => Alone(p)'
    BY <1>2, <1>8 DEF shouldInspectStdin, Alone
  <2> QED BY <1>1, <1>2, <1>8, <2>1, <2>2, ResolvePreserves
<1>9. CASE call[p].verdict \in {"targets", "status", "read", "doctor"} /\ Goes(p, "load") /\ UNCHANGED reading
  <2>1. phase'[p] = "load" /\ exit'[p] = ""
    BY <1>1, <1>9 DEF Goes, Inv, Types
  <2>2. ~Running(p, "send") /\ ~Running(p, "init")
    BY <1>9 DEF Running
  <2>3. Course(p)'
    BY <1>1, <1>2, <1>3, <1>9, <2>1, <2>2 DEF Course
  <2> QED BY <1>2, <1>9, <2>3, Gone
<1>10. Goes(p, IF Forced(p) THEN "prepare" ELSE "access") => Goes(p, "prepare") \/ Goes(p, "access")
  <2>1. CASE Forced(p)
    BY <2>1
  <2>2. CASE ~Forced(p)
    BY <2>2
  <2> QED BY <2>1, <2>2
<1> QED BY <1>4, <1>5, <1>6, <1>7, <1>8, <1>9, <1>10 DEF Start, Dispatch

-----------------------------------------------------------------------------
(* Prompt sources.                                                         *)

LEMMA Counted ==
  ASSUME NEW old \in [Process -> [{"stdin", "--file"} -> Nat]], NEW p \in Process,
         NEW counts \in [{"stdin", "--file"} -> Nat]
  PROVE  /\ [old EXCEPT ![p] = counts] \in [Process -> [{"stdin", "--file"} -> Nat]]
         /\ [old EXCEPT ![p] = counts][p] = counts
         /\ \A q \in Process : q # p => [old EXCEPT ![p] = counts][q] = old[q]
OBVIOUS

LEMMA PeekFindsInputPreserves ==
  ASSUME Inv, NEW p \in Process, PeekFindsInput(p) PROVE Inv'
<1> USE DEF writing
<1>1. PICK n \in 1..Chunk : offered' = [offered EXCEPT ![p]["stdin"] = n]
  BY DEF PeekFindsInput
<1>2. n \in Nat
  BY CommandLineAssumption
<1>3. /\ offered' \in [Process -> [{"stdin", "--file"} -> Nat]]
      /\ \A q \in Process : q # p => offered'[q] = offered[q]
  <2> DEFINE counts == [offered[p] EXCEPT !["stdin"] = n]
  <2>1. offered' = [offered EXCEPT ![p] = counts]
    BY <1>1
  <2>2. offered \in [Process -> [{"stdin", "--file"} -> Nat]]
    BY DEF Inv, Types
  <2>3. counts \in [{"stdin", "--file"} -> Nat]
    BY <1>2, <2>2
  <2> HIDE DEF counts
  <2> QED BY <2>1, <2>2, <2>3, Counted
<1>4. Exits(p, "2") /\ UNCHANGED <<call, terminal, taken, malformed, prompt, drained, writing, accepted>>
  BY DEF PeekFindsInput
<1>5. phase' = [phase EXCEPT ![p] = "done"] /\ exit' = [exit EXCEPT ![p] = "2"]
  BY <1>4 DEF Exits
<1>6. Types'
  BY <1>3, <1>4, <1>5, Updated DEF Inv, Types
<1>7. /\ phase'[p] = "done" /\ exit'[p] = "2"
      /\ \A q \in Process : q # p => phase'[q] = phase[q] /\ exit'[q] = exit[q]
  BY <1>5, Updated DEF Inv, Types
<1>8. p \notin opened /\ p \notin accepted /\ prompt[p] = {}
  BY DEF PeekFindsInput, Inv, Course, Untouched
<1>9. /\ Running(p, "init")' = Running(p, "init") /\ Running(p, "send")' = Running(p, "send")
      /\ Message(p)' = Message(p) /\ FileGiven(p)' = FileGiven(p)
  BY <1>4 DEF Running, Message, FileGiven
<1>10. Course(p)'
  BY <1>4, <1>7, <1>8, <1>9 DEF Inv, Course
<1> QED BY <1>3, <1>4, <1>6, <1>7, <1>10, Elsewhere

LEMMA PeekFindsNothingPreserves ==
  ASSUME Inv, NEW p \in Process, PeekFindsNothing(p) PROVE Inv'
<1>1. /\ phase[p] = "peek" /\ drained' = [drained EXCEPT ![p] = @ \cup {"stdin"}] /\ resolvePrompt(p)
      /\ UNCHANGED <<call, terminal, writing, accepted>>
  BY DEF PeekFindsNothing
<1>2. drained'[p] = drained[p] \cup {"stdin"}
  BY <1>1 DEF Inv, Types
<1>3. drained' = [drained EXCEPT ![p] = drained'[p]]
  BY <1>1, <1>2
<1>4. Running(p, "send") /\ offered[p]["stdin"] = 0
  BY <1>1 DEF Inv, Course, Untouched
<1>5. Message(p) \/ FileGiven(p) => Alone(p)'
  <2>1. CASE Message(p)
    <3>1. offered' = offered
      BY <1>1, <2>1 DEF resolvePrompt
    <3> QED BY <1>2, <1>4, <3>1 DEF Alone
  <2>2. CASE ~Message(p)
    <3>1. offered' = offered
      BY <1>1, <2>2 DEF resolvePrompt
    <3> QED BY <1>2, <1>4, <3>1 DEF Alone
  <2> QED BY <2>1, <2>2
<1> QED BY <1>1, <1>2, <1>3, <1>4, <1>5, ResolvePreserves

LEMMA ReadEndsPreserves ==
  ASSUME Inv, NEW p \in Process, ReadEnds(p) PROVE Inv'
<1> DEFINE source == phase[p]
<1>1. /\ source \in {"stdin", "--file"} /\ drained' = [drained EXCEPT ![p] = @ \cup {source}]
      /\ sendPrompt(p, source, decoded(p))
      /\ UNCHANGED <<call, terminal, taken, malformed, offered, writing, accepted>>
  BY DEF ReadEnds
<1>2. drained'[p] = drained[p] \cup {source}
  BY <1>1 DEF Inv, Types
<1>3. drained' = [drained EXCEPT ![p] = drained'[p]]
  BY <1>1, <1>2
<1>4. decoded(p) \in Nat
  BY DEF decoded, Inv, Types
<1>5. /\ Running(p, "send") /\ prompt[p] = {} /\ p \notin opened /\ p \notin accepted /\ written[p] = 0
      /\ offered[p][source] = taken[p]
      /\ source = IF Message(p) THEN "message" ELSE IF FileGiven(p) THEN "--file" ELSE "stdin"
      /\ source = "--file" => Alone(p)
  BY <1>1 DEF Inv, Course
<1>6. source # "stdin" => Alone(p)'
  BY <1>1, <1>2, <1>5 DEF Alone
<1> HIDE DEF source
<1>7. phase[p] \in {"main", "peek", "stdin", "--file"}
  BY <1>1 DEF source
<1> QED BY <1>1, <1>2, <1>3, <1>4, <1>5, <1>6, <1>7, SendPreserves

LEMMA ReadFailsPreserves ==
  ASSUME Inv, NEW p \in Process, ReadFails(p) PROVE Inv'
<1>1. \E code \in {"1", "2"} : Exits(p, code)
  <2>1. CASE phase[p] = "--file"
    BY <2>1 DEF ReadFails
  <2>2. CASE phase[p] # "--file"
    BY <2>2 DEF ReadFails
  <2> QED BY <2>1, <2>2
<1>2. p \notin opened /\ p \notin accepted /\ prompt[p] = {} /\ phase[p] # "done"
  BY DEF ReadFails, Inv, Course, Untouched
<1> QED BY <1>1, <1>2, ExitPreserves DEF ReadFails

LEMMA ReadChunkPreserves ==
  ASSUME Inv, NEW p \in Process, ReadChunk(p) PROVE Inv'
<1> USE DEF writing
<1> DEFINE source == phase[p]
           room == Limit + 1 - taken[p]
           kept(n) == IF n < room THEN n ELSE room
           counts(n) == [offered[p] EXCEPT ![source] = @ + n]
<1>1. source \in {"stdin", "--file"} /\ UNCHANGED <<call, terminal, prompt, drained, writing, accepted>>
  BY DEF ReadChunk
<1>2. PICK n \in 1..Chunk :
        /\ offered' = [offered EXCEPT ![p][source] = @ + n]
        /\ taken' = [taken EXCEPT ![p] = @ + kept(n)]
        /\ \E bad \in 0..kept(n) : malformed' = [malformed EXCEPT ![p] = @ + bad]
        /\ IF kept(n) = room THEN Exits(p, "1") ELSE UNCHANGED <<phase, exit>>
  BY DEF ReadChunk
<1>3. PICK bad \in 0..kept(n) : malformed' = [malformed EXCEPT ![p] = @ + bad]
  BY <1>2
<1>4. /\ n \in Nat /\ room \in Int /\ taken \in [Process -> Nat] /\ malformed \in [Process -> Nat]
      /\ offered \in [Process -> [{"stdin", "--file"} -> Nat]]
  BY CommandLineAssumption DEF Inv, Types
<1>5. /\ offered' = [offered EXCEPT ![p] = counts(n)] /\ counts(n) \in [{"stdin", "--file"} -> Nat]
      /\ counts(n)[source] = offered[p][source] + n
      /\ source = "--file" => counts(n)["stdin"] = offered[p]["stdin"]
  BY <1>1, <1>2, <1>4
<1> HIDE DEF counts
<1>6. /\ offered' \in [Process -> [{"stdin", "--file"} -> Nat]] /\ offered'[p] = counts(n)
      /\ \A q \in Process : q # p => offered'[q] = offered[q]
  BY <1>4, <1>5, Counted
<1>7. /\ taken' \in [Process -> Int] /\ taken'[p] = taken[p] + kept(n)
      /\ \A q \in Process : q # p => taken'[q] = taken[q] /\ malformed'[q] = malformed[q]
  BY <1>2, <1>3, <1>4
<1>8. exit[p] = "" /\ p \notin opened /\ p \notin accepted /\ prompt[p] = {}
  BY <1>1 DEF Inv, Course
<1>9. /\ Running(p, "init")' = Running(p, "init") /\ Running(p, "send")' = Running(p, "send")
      /\ Message(p)' = Message(p) /\ FileGiven(p)' = FileGiven(p)
  BY <1>1 DEF Running, Message, FileGiven
<1>10. taken[p] <= Limit
  BY <1>1 DEF Inv, Course
<1>11. taken' \in [Process -> Nat] /\ malformed' \in [Process -> Nat]
  <2>1. kept(n) \in Nat
    BY <1>4, <1>10, CommandLineAssumption
  <2>2. bad \in Nat
    BY <2>1
  <2> QED BY <1>2, <1>3, <1>4, <2>1, <2>2
<1>12. CASE kept(n) = room
  <2>1. phase' = [phase EXCEPT ![p] = "done"] /\ exit' = [exit EXCEPT ![p] = "1"]
    BY <1>2, <1>12 DEF Exits
  <2>2. /\ phase'[p] = "done" /\ exit'[p] = "1"
        /\ \A q \in Process : q # p => phase'[q] = phase[q] /\ exit'[q] = exit[q]
    BY <2>1, Updated DEF Inv, Types
  <2>3. Types'
    BY <1>1, <1>6, <1>11, <2>1, Updated DEF Inv, Types
  <2>4. Course(p)'
    BY <1>1, <1>8, <1>9, <2>2 DEF Inv, Course
  <2> QED BY <1>1, <1>6, <1>7, <2>2, <2>3, <2>4, Elsewhere
<1>13. CASE kept(n) # room
  <2>1. phase' = phase /\ exit' = exit
    BY <1>2, <1>13
  <2>2. kept(n) = n /\ n < room
    BY <1>13
  <2>3. Types'
    BY <1>1, <1>6, <1>11, <2>1 DEF Inv, Types
  <2>4. offered'[p][source] = taken'[p] /\ taken'[p] <= Limit
    <3>1. offered[p][source] = taken[p]
      BY <1>1 DEF Inv, Course
    <3> QED BY <1>4, <1>5, <1>6, <1>7, <2>2, <3>1, CommandLineAssumption
  <2>5. source = "--file" => Alone(p)'
    <3>1. source = "--file" => Alone(p)
      BY DEF Inv, Course
    <3> QED BY <1>1, <1>5, <1>6, <3>1 DEF Alone
  <2>6. Course(p)'
    BY <1>1, <1>8, <1>9, <2>1, <2>4, <2>5 DEF Inv, Course
  <2> QED BY <1>1, <1>6, <1>7, <2>1, <2>3, <2>6, Elsewhere
<1> QED BY <1>12, <1>13

-----------------------------------------------------------------------------
(* initializeConfig.                                                       *)

LEMMA AccessPreserves ==
  ASSUME Inv, NEW p \in Process, Access(p) \/ Prepare(p) PROVE Inv'
<1>1. /\ phase[p] \in {"access", "prepare"} /\ UNCHANGED <<call, terminal, reading, writing, accepted>>
      /\ Exits(p, "1") \/ \E where \in {"prepare", "open"} : Goes(p, where)
  BY DEF Access, Prepare
<1>2. CASE Exits(p, "1")
  BY <1>1, <1>2, ExitPreserves
<1>3. CASE \E where \in {"prepare", "open"} : Goes(p, where)
  <2>1. PICK where \in {"prepare", "open"} : Goes(p, where)
    BY <1>3
  <2>2. phase'[p] = where /\ exit'[p] = exit[p]
    BY <2>1 DEF Goes, Inv, Types
  <2>3. /\ taken' = taken /\ malformed' = malformed /\ prompt' = prompt /\ offered' = offered
        /\ drained' = drained /\ written' = written /\ opened' = opened
    BY <1>1 DEF reading, writing
  <2>4. /\ Running(p, "init")' = Running(p, "init") /\ Running(p, "send")' = Running(p, "send")
        /\ Running(p, "init") /\ ~Running(p, "send") /\ Untouched(p) /\ prompt[p] = {}
    BY <1>1 DEF Running, Inv, Course, Untouched
  <2>5. Course(p)'
    BY <1>1, <2>2, <2>3, <2>4 DEF Inv, Course, Untouched
  <2> QED BY <1>1, <2>1, <2>5, Gone
<1> QED BY <1>1, <1>2, <1>3

(* The file changes, but what others write to stays a file of theirs.      *)
LEMMA Overwritten ==
  ASSUME Inv, NEW p \in Process, NEW where, NEW code, phase' = [phase EXCEPT ![p] = where],
         exit' = exit \/ exit' = [exit EXCEPT ![p] = code], file'.exists, ~file'.own,
         UNCHANGED <<call, terminal, reading, accepted>>,
         opened' = opened \cup {p}, written' \in [Process -> 0..Pieces],
         \A q \in Process : q # p => written'[q] = written[q], Course(p)', LastOpener'
  PROVE  Inv'
<1>1. /\ taken' = taken /\ malformed' = malformed /\ prompt' = prompt
      /\ offered' = offered /\ drained' = drained
  BY DEF reading
<1>2. phase' = [q \in Process |-> phase'[q]] /\ \A q \in Process : q # p => phase'[q] = phase[q]
  BY Updated DEF Inv, Types
<1>3. exit' = [q \in Process |-> exit'[q]] /\ \A q \in Process : q # p => exit'[q] = exit[q]
  BY Updated DEF Inv, Types
<1>4. Types'
  BY <1>1, <1>2, <1>3 DEF Inv, Types
<1>5. ASSUME NEW q \in Process, q # p PROVE Course(q)'
  <2>1. Course(q)
    BY DEF Inv
  <2>2. (q \in opened' <=> q \in opened) /\ (q \in accepted' <=> q \in accepted)
    BY <1>5
  <2>3. /\ call'[q] = call[q] /\ phase'[q] = phase[q] /\ exit'[q] = exit[q] /\ taken'[q] = taken[q]
        /\ malformed'[q] = malformed[q] /\ prompt'[q] = prompt[q] /\ written'[q] = written[q]
        /\ offered'[q] = offered[q] /\ drained'[q] = drained[q]
    BY <1>1, <1>2, <1>3, <1>5
  <2> QED BY <2>1, <2>2, <2>3, Still
<1> QED BY <1>4, <1>5 DEF Inv

LEMMA OpenPreserves ==
  ASSUME Inv, NEW p \in Process, Open(p) PROVE Inv'
<1>1. phase[p] = "open" /\ UNCHANGED <<call, terminal, reading, written, accepted>>
  BY DEF Open
<1>2. Untouched(p) /\ exit[p] = "" /\ Running(p, "init") /\ prompt[p] = {} /\ written[p] = 0
  BY <1>1 DEF Inv, Course, Untouched
<1>3. CASE Exits(p, "1") /\ UNCHANGED <<file, opened>>
  BY <1>1, <1>3, ExitPreserves DEF writing
<1>4. CASE file' = Example({}) /\ opened' = opened \cup {p} /\ Goes(p, "write")
  <2>1. file'.exists /\ ~file'.own /\ file'.pieces = {} /\ file' = Example(file'.pieces)
    BY <1>4 DEF Example
  <2>2. phase' = [phase EXCEPT ![p] = "write"] /\ exit' = exit
    BY <1>4 DEF Goes
  <2>3. phase'[p] = "write" /\ exit'[p] = "" /\ prompt'[p] = {} /\ written'[p] = 0 /\ p \in opened'
    BY <1>1, <1>2, <1>4, <2>2 DEF Inv, Types, reading
  <2>4. Running(p, "init")' /\ ~Running(p, "send")'
    BY <1>1, <1>2 DEF Running
  <2>5. p \notin accepted'
    BY <1>1, <1>2 DEF Untouched
  <2>6. Pieces # 0
    BY CommandLineAssumption
  <2>7. Course(p)'
    BY <2>1, <2>3, <2>4, <2>5, <2>6 DEF Course
  <2>8. 1..written'[p] \subseteq file'.pieces
    <3>1. 1..0 = {}
      OBVIOUS
    <3> QED BY <2>1, <2>3, <3>1
  <2>9. LastOpener'
    BY <2>1, <2>3, <2>8 DEF LastOpener
  <2>10. written' \in [Process -> 0..Pieces] /\ \A q \in Process : q # p => written'[q] = written[q]
    BY <1>1 DEF Inv, Types
  <2> QED BY <1>1, <1>4, <2>1, <2>2, <2>7, <2>9, <2>10, Overwritten
<1> QED BY <1>3, <1>4 DEF Open

LEMMA Successor ==
  ASSUME NEW m \in Nat, NEW n \in 0..m, n # m PROVE n \in Nat /\ n + 1 \in 1..m
OBVIOUS

LEMMA WritePreserves ==
  ASSUME Inv, NEW p \in Process, Write(p) PROVE Inv'
<1>1. /\ phase[p] = "write" /\ written' = [written EXCEPT ![p] = @ + 1]
      /\ file' = Example(file.pieces \cup {written'[p]})
      /\ IF written'[p] = Pieces THEN Exits(p, "0") ELSE UNCHANGED <<phase, exit>>
      /\ UNCHANGED <<call, terminal, reading, opened, accepted>>
  BY DEF Write
<1>2. /\ p \in opened /\ p \notin accepted /\ prompt[p] = {} /\ Running(p, "init") /\ exit[p] = ""
      /\ written[p] # Pieces /\ ~Running(p, "send")
  BY <1>1 DEF Inv, Course, Running
<1>3. written'[p] = written[p] + 1 /\ written'[p] \in 1..Pieces /\ written[p] \in Nat
  <2>1. written \in [Process -> 0..Pieces] /\ Pieces \in Nat
    BY CommandLineAssumption DEF Inv, Types
  <2>2. written[p] \in 0..Pieces /\ written'[p] = written[p] + 1
    BY <1>1, <2>1
  <2> QED BY <1>2, <2>1, <2>2, Successor
<1>4. written' \in [Process -> 0..Pieces] /\ \A q \in Process : q # p => written'[q] = written[q]
  BY <1>1, <1>3, CommandLineAssumption DEF Inv, Types
<1>5. /\ file'.exists /\ ~file'.own /\ file' = Example(file'.pieces)
      /\ file'.pieces = file.pieces \cup {written'[p]}
  BY <1>1 DEF Example
<1>6. LastOpener'
  <2>1. PICK q \in opened : /\ file.pieces \subseteq 1..Pieces /\ 1..written[q] \subseteq file.pieces
    BY <1>2 DEF Inv, LastOpener
  <2>2. file'.pieces \subseteq 1..Pieces
    BY <1>3, <1>5, <2>1
  <2>3. 1..written'[q] \subseteq file'.pieces
    <3>1. CASE q = p
      <4>1. 1..written'[p] \subseteq (1..written[p]) \cup {written'[p]}
        BY <1>3
      <4> QED BY <1>5, <2>1, <3>1, <4>1
    <3>2. CASE q # p
      <4>1. written'[q] = written[q]
        BY <1>1, <3>2 DEF Inv, Types
      <4> QED BY <1>5, <2>1, <4>1
    <3> QED BY <3>1, <3>2
  <2> QED BY <1>1, <1>5, <2>1, <2>2, <2>3 DEF LastOpener
<1>7. Running(p, "init")' /\ ~Running(p, "send")' /\ prompt'[p] = {} /\ p \in opened' /\ p \notin accepted'
  BY <1>1, <1>2 DEF Running, reading
<1>8. CASE written'[p] = Pieces
  <2>1. phase' = [phase EXCEPT ![p] = "done"] /\ exit' = [exit EXCEPT ![p] = "0"]
    BY <1>1, <1>8 DEF Exits
  <2>2. phase'[p] = "done" /\ exit'[p] = "0"
    BY <2>1 DEF Inv, Types
  <2>3. Course(p)'
    BY <1>7, <1>8, <2>2 DEF Course
  <2> QED BY <1>1, <1>2, <1>4, <1>5, <1>6, <2>1, <2>3, Overwritten
<1>9. CASE written'[p] # Pieces
  <2>1. phase' = phase /\ exit' = exit
    BY <1>1, <1>9
  <2>2. phase' = [phase EXCEPT ![p] = phase[p]]
    BY <2>1 DEF Inv, Types
  <2>3. Course(p)'
    BY <1>1, <1>2, <1>5, <1>7, <1>9, <2>1 DEF Course
  <2>4. opened' = opened \cup {p}
    BY <1>1, <1>2
  <2> QED BY <1>1, <1>4, <1>5, <1>6, <2>1, <2>2, <2>3, <2>4, Overwritten
<1> QED BY <1>8, <1>9

LEMMA WriteFailsPreserves ==
  ASSUME Inv, NEW p \in Process, WriteFails(p) PROVE Inv'
BY ExitPreserves DEF WriteFails

-----------------------------------------------------------------------------
(* Operations, the end of a process, and the operator.                     *)

(* A process that goes on to its operation, or ends in success.            *)
LEMMA OperationPreserves ==
  ASSUME Inv, NEW p \in Process, loadConfigFile(p) \/ Operate(p) PROVE Inv'
<1> USE DEF reading, writing
<1>1. /\ phase[p] \in {"load", "operation"} /\ UNCHANGED <<call, terminal, reading, writing>>
      /\ \/ Exits(p, "1") /\ UNCHANGED accepted
         \/ Exits(p, "0") /\ accepted' = accepted \cup {p}
         \/ Goes(p, "operation") /\ UNCHANGED accepted
  BY DEF loadConfigFile, Operate
<1>2. /\ exit[p] = "" /\ p \notin opened /\ p \notin accepted /\ ~Running(p, "init")
      /\ (Running(p, "send") => prompt[p] # {})
  BY <1>1 DEF Inv, Course
<1>3. /\ Running(p, "init")' = Running(p, "init") /\ Running(p, "send")' = Running(p, "send")
      /\ Message(p)' = Message(p) /\ FileGiven(p)' = FileGiven(p)
  BY <1>1 DEF Running, Message, FileGiven
<1>4. Alone(p)' = Alone(p)
  BY <1>1 DEF Alone
<1>5. \A sent \in prompt'[p] : Sent(p, sent)'
  <2>1. ASSUME NEW sent, Sent(p, sent) PROVE Sent(p, sent)'
    BY <1>1, <1>3, <1>4, <2>1 DEF Sent, decoded
  <2> QED BY <1>1, <2>1 DEF Inv, Course
<1>6. CASE Exits(p, "1") /\ UNCHANGED accepted
  BY <1>1, <1>6, ExitPreserves
<1>7. CASE Goes(p, "operation") /\ UNCHANGED accepted
  <2>1. phase'[p] = "operation" /\ exit'[p] = ""
    BY <1>2, <1>7 DEF Goes, Inv, Types
  <2>2. Course(p)'
    BY <1>1, <1>2, <1>3, <1>5, <1>7, <2>1 DEF Inv, Course
  <2> QED BY <1>1, <1>7, <2>2, Gone
<1>8. CASE Exits(p, "0") /\ accepted' = accepted \cup {p}
  <2>1. phase' = [phase EXCEPT ![p] = "done"] /\ exit' = [exit EXCEPT ![p] = "0"]
    BY <1>8 DEF Exits
  <2>2. /\ phase'[p] = "done" /\ exit'[p] = "0"
        /\ \A q \in Process : q # p => phase'[q] = phase[q] /\ exit'[q] = exit[q]
    BY <2>1, Updated DEF Inv, Types
  <2>3. Types'
    BY <1>1, <2>1, Updated DEF Inv, Types
  <2>4. p \in accepted' /\ \A q \in Process : q # p => (q \in accepted' <=> q \in accepted)
    BY <1>8
  <2>5. Course(p)'
    BY <1>1, <1>2, <1>3, <1>5, <2>2, <2>4 DEF Inv, Course
  <2> QED BY <1>1, <2>2, <2>3, <2>4, <2>5, Elsewhere
<1> QED BY <1>1, <1>6, <1>7, <1>8

LEMMA KillPreserves ==
  ASSUME Inv, NEW p \in Process, Kill(p) PROVE Inv'
BY ExitPreserves DEF Kill

LEMMA OperatorPreserves ==
  ASSUME Inv, OperatorSaves PROVE Inv'
<1>1. /\ taken' = taken /\ malformed' = malformed /\ prompt' = prompt /\ offered' = offered
      /\ drained' = drained /\ written' = written /\ opened' = opened /\ accepted' = accepted
      /\ call' = call /\ terminal' = terminal /\ phase' = phase /\ exit' = exit /\ ~file.exists
  BY DEF OperatorSaves, reading
<1>2. Types'
  BY <1>1 DEF Inv, Types
<1>3. ASSUME NEW q \in Process PROVE Course(q)'
  <2>1. phase[q] # "write"
    BY <1>1 DEF Inv, Course
  <2> QED BY <1>1, <2>1, Still DEF Inv
<1>4. LastOpener'
  BY <1>1 DEF Inv, LastOpener
<1> QED BY <1>2, <1>3, <1>4 DEF Inv

-----------------------------------------------------------------------------
LEMMA Least ==
  ASSUME NEW m \in Nat PROVE 0 \in 0..m
OBVIOUS

LEMMA InvInit == Init => Inv
<1> SUFFICES ASSUME Init PROVE Inv
  OBVIOUS
<1> USE DEF Init
<1>1. Types
  <2>1. /\ call = [p \in Process |-> call[p]] /\ phase = [p \in Process |-> phase[p]]
        /\ exit = [p \in Process |-> exit[p]] /\ prompt = [p \in Process |-> prompt[p]]
        /\ drained = [p \in Process |-> drained[p]]
    <3>1. ASSUME NEW value(_), NEW f, f = [p \in Process |-> value(p)] PROVE f = [p \in Process |-> f[p]]
      BY <3>1
    <3> QED BY <3>1
  <2>2. written \in [Process -> 0..Pieces]
    <3>1. Pieces \in Nat
      BY CommandLineAssumption
    <3>2. 0 \in 0..Pieces
      BY <3>1, Least
    <3> QED BY <3>2
  <2>3. offered \in [Process -> [{"stdin", "--file"} -> Nat]] /\ taken \in [Process -> Nat]
        /\ malformed \in [Process -> Nat]
    OBVIOUS
  <2> QED BY <2>1, <2>2, <2>3 DEF Types
<1>2. ASSUME NEW p \in Process PROVE Course(p)
  <2>1. /\ phase[p] \in {"start", "done"} /\ exit[p] = "" /\ Untouched(p) /\ prompt[p] = {}
        /\ p \notin opened /\ p \notin accepted
    BY DEF Untouched
  <2>2. call[p] = Call(<<>>)
    OBVIOUS
  <2>3. Running(p, "send") => ~(Message(p) /\ FileGiven(p))
    BY <2>2, OneSource DEF Running, Message, FileGiven
  <2> QED BY <2>1, <2>3 DEF Course
<1>3. LastOpener
  BY DEF LastOpener
<1> QED BY <1>1, <1>2, <1>3 DEF Inv

LEMMA InvNext == Inv /\ [Next]_vars => Inv'
<1> SUFFICES ASSUME Inv, [Next]_vars PROVE Inv'
  OBVIOUS
<1>1. CASE UNCHANGED vars
  <2>1. /\ taken' = taken /\ malformed' = malformed /\ prompt' = prompt /\ offered' = offered
        /\ drained' = drained /\ written' = written /\ opened' = opened /\ accepted' = accepted
        /\ call' = call /\ terminal' = terminal /\ phase' = phase /\ exit' = exit /\ file' = file
    BY <1>1 DEF vars, reading, writing
  <2>2. ASSUME NEW q \in Process PROVE Course(q)'
    <3>1. phase[q] = "write" => file'.exists /\ ~file'.own
      BY <2>1 DEF Inv, Course
    <3> QED BY <2>1, <3>1, Still DEF Inv
  <2> QED BY <2>1, <2>2 DEF Inv, Types, LastOpener
<1>2. ASSUME NEW p \in Process, Parse(p) \/ Start(p) PROVE Inv'
  BY <1>2, ParsePreserves, StartPreserves
<1>3. ASSUME NEW p \in Process, Inputs(p) PROVE Inv'
  BY <1>3, PeekFindsInputPreserves, PeekFindsNothingPreserves, ReadChunkPreserves, ReadEndsPreserves,
     ReadFailsPreserves DEF Inputs
<1>4. ASSUME NEW p \in Process, initializeConfig(p) PROVE Inv'
  BY <1>4, AccessPreserves, OpenPreserves, WritePreserves, WriteFailsPreserves DEF initializeConfig
<1>5. ASSUME NEW p \in Process, loadConfigFile(p) \/ Operate(p) PROVE Inv'
  BY <1>5, OperationPreserves
<1>6. ASSUME NEW p \in Process, Kill(p) PROVE Inv'
  BY <1>6, KillPreserves
<1>7. CASE OperatorSaves
  BY <1>7, OperatorPreserves
<1> QED BY <1>1, <1>2, <1>3, <1>4, <1>5, <1>6, <1>7 DEF Next

(* Where a process is says what it has done, and the file is the example   *)
(* as far as some process that opened it has written (main, readBounded-   *)
(* Stream, readBoundedFile, initializeConfig).                             *)
THEOREM Followed == Spec => []Inv
BY InvInit, InvNext, PTL DEF Spec

-----------------------------------------------------------------------------
(* A prompt that reaches Gateway Core is the whole of its one source.      *)
THEOREM Delivered == Spec => []PromptIsTheSource
<1>1. Inv => PromptIsTheSource
  <2> SUFFICES ASSUME Inv, NEW p \in Process, NEW sent \in prompt[p]
               PROVE  /\ sent.bytes \in 1..Limit
                      /\ sent.source = IF Message(p) THEN "message" ELSE IF FileGiven(p) THEN "--file" ELSE "stdin"
                      /\ ~(Message(p) /\ FileGiven(p))
                      /\ sent.source # "message" =>
                           /\ sent.source \in drained[p] /\ offered[p][sent.source] = taken[p]
                           /\ sent.bytes = decoded(p)
                      /\ sent.source # "stdin" /\ p \notin terminal =>
                           "stdin" \in drained[p] /\ offered[p]["stdin"] = 0
    BY DEF PromptIsTheSource
  <2>1. Sent(p, sent)
    BY DEF Inv, Course
  <2> QED BY <2>1 DEF Sent, Alone
<1> QED BY <1>1, Followed, PTL

(* An exit code can be relied on, also when several init write the file.   *)
THEOREM Truthful == Spec => []ExitsTellTheTruth
<1> DEFINE Known == opened \subseteq Process
<1>1. ASSUME Inv, NEW p \in Process
      PROVE  /\ exit[p] = "2" => p \notin opened \cup accepted /\ prompt[p] = {}
             /\ exit[p] = "0" /\ Running(p, "init") => p \in opened
             /\ exit[p] = "0" /\ Running(p, "send") => p \in accepted /\ prompt[p] # {}
             /\ p \in accepted => exit[p] = "0"
  BY <1>1 DEF Inv, Course
<1>2. ASSUME Inv, opened # {}, opened \subseteq Process, \A p \in opened : exit[p] = "0" PROVE file = Whole
  <2>1. PICK p \in opened : /\ file = Example(file.pieces) /\ file.pieces \subseteq 1..Pieces
                            /\ 1..written[p] \subseteq file.pieces
    BY <1>2 DEF Inv, LastOpener
  <2>2. written[p] = Pieces
    BY <1>2 DEF Inv, Course
  <2>3. file.pieces = 1..Pieces
    BY <2>1, <2>2
  <2> QED BY <2>1, <2>3 DEF Whole
<1>3. Init => Known
  BY DEF Init
<1>4. Known /\ [Next]_vars => Known'
  BY DEF Next, vars, writing, Parse, Start, Inputs, PeekFindsInput, PeekFindsNothing, ReadChunk, ReadEnds,
         ReadFails, initializeConfig, Access, Prepare, Open, Write, WriteFails, loadConfigFile, Operate, Kill,
         OperatorSaves
<1>5. Inv /\ Known => ExitsTellTheTruth
  BY <1>1, <1>2 DEF ExitsTellTheTruth
<1> HIDE DEF Known
<1> QED BY <1>3, <1>4, <1>5, Followed, PTL DEF Spec

(* Nothing in the file is lost but to an init with --force that opens it.  *)
THEOREM KeptUnlessForced == Spec => ReplacedOnlyByForce
<1>1. ASSUME Inv, [Next]_vars, Loses
      PROVE  \E p \in Process : Forced(p) /\ phase[p] = "open" /\ phase'[p] = "write"
  <2>1. file' # file /\ file.exists
    BY <1>1 DEF Loses
  <2>2. PICK p \in Process : Open(p) \/ Write(p)
    BY <1>1, <2>1 DEF Next, vars, writing, Parse, Start, Inputs, PeekFindsInput, PeekFindsNothing, ReadChunk,
         ReadEnds, ReadFails, initializeConfig, Access, Prepare, WriteFails, loadConfigFile, Operate, Kill,
         OperatorSaves
  <2>3. CASE Open(p)
    <3>1. phase[p] = "open" /\ Forced(p) /\ Goes(p, "write")
      BY <2>1, <2>3 DEF Open
    <3> QED BY <1>1, <3>1 DEF Goes, Inv, Types
  <2>4. CASE Write(p)
    <3>1. ~file.own
      BY <1>1, <2>4 DEF Write, Inv, Course
    <3>2. file' = Example(file.pieces \cup {written'[p]})
      BY <2>4 DEF Write
    <3>3. file'.exists /\ file'.own = FALSE /\ file.pieces \subseteq file'.pieces
      BY <3>2 DEF Example
    <3>4. file.own \in BOOLEAN
      <4>1. file = Example(file.pieces)
        BY <1>1, <2>4 DEF Write, Inv, Course, LastOpener
      <4>2. Example(file.pieces).own = FALSE
        BY DEF Example
      <4> QED BY <4>1, <4>2
    <3> QED BY <1>1, <3>1, <3>3, <3>4 DEF Loses
  <2> QED BY <2>2, <2>3, <2>4
<1>2. Inv /\ [Next]_vars =>
        [Loses => \E p \in Process : Forced(p) /\ phase[p] = "open" /\ phase'[p] = "write"]_vars
  BY <1>1
<1> QED BY <1>2, Followed, PTL DEF Spec, ReplacedOnlyByForce

-----------------------------------------------------------------------------
(* The types of everything a process has and of the file.                  *)
Phases == {"start", "main", "peek", "stdin", "--file", "access", "prepare", "open", "write",
           "load", "operation", "done"}
Codes == {"", "0", "1", "2", "killed"}
Prompts == [source : {"message", "stdin", "--file"}, bytes : Nat]

CourseTyped == phase \in [Process -> Phases] /\ exit \in [Process -> Codes]

(* No more bytes are malformed than were kept.                             *)
ReadingTyped ==
  /\ taken \in [Process -> 0..Limit + 1]
  /\ malformed \in [Process -> Nat] /\ \A p \in Process : malformed[p] <= taken[p]
  /\ prompt \in [Process -> SUBSET Prompts]
  /\ offered \in [Process -> [{"stdin", "--file"} -> Nat]]
  /\ drained \in [Process -> SUBSET {"stdin", "--file"}]

WritingTyped ==
  /\ written \in [Process -> 0..Pieces]
  /\ file \in [exists : BOOLEAN, own : BOOLEAN, pieces : SUBSET (1..Pieces)]
  /\ opened \subseteq Process

LinesTyped ==
  /\ DOMAIN args \subseteq Process /\ args \in [DOMAIN args -> Seq(Argument)]
  /\ call \in [Process -> Calls]
  /\ terminal \subseteq Process /\ accepted \subseteq Process

Typed == CourseTyped /\ ReadingTyped /\ WritingTyped /\ LinesTyped

LEMMA CallTyped == ASSUME NEW line PROVE Call(line) \in Calls
<1> DEFINE parsed == Read(line)
           result == parseArgs(line)
<1>1. Verdict(line) \in Command \cup {"version", "help", "usage"}
  <2>1. CASE "--version" \in result.flags \/ "--help" \in result.flags \/ line = <<>> \/ result.error
    BY <2>1 DEF Verdict
  <2>2. CASE ~("--version" \in result.flags \/ "--help" \in result.flags \/ line = <<>> \/ result.error)
    <3>1. Verdict(line) = result.positional[1]
      BY <2>2 DEF Verdict
    <3>2. Mistaken(parsed).error
      BY DEF Mistaken
    <3>3. ~ parsed.error /\ parsed.pending = "" /\ result = parsed /\ ~Misused(parsed)
      BY <2>2, <3>2 DEF parseArgs
    <3>4. parsed.positional[1] \in Command
      BY <3>3 DEF Misused
    <3> QED BY <3>1, <3>3, <3>4
  <2> QED BY <2>1, <2>2
<1> HIDE DEF result
<1>2. \E f, m, g, r \in BOOLEAN :
        Call(line) = [verdict |-> Verdict(line), force |-> f, message |-> m, file |-> g, refusable |-> r]
  <2> DEFINE f == "--force" \in result.flags
             m == Len(result.positional) = 3
             g == Given(result, {"--file"})
             r == \/ Len(result.positional) > 1 /\ result.positional[2] = ""
                  \/ result.value["--count"] \in OutOfRange
  <2>1. Call(line) = [verdict |-> Verdict(line), force |-> f, message |-> m, file |-> g, refusable |-> r]
    BY DEF Call, result
  <2>2. f \in BOOLEAN /\ m \in BOOLEAN /\ g \in BOOLEAN /\ r \in BOOLEAN
    BY DEF Given
  <2> HIDE DEF f, m, g, r
  <2> QED BY <2>1, <2>2
<1> QED BY <1>1, <1>2 DEF Calls

LEMMA TypedGoes ==
  ASSUME CourseTyped, NEW p \in Process, NEW where \in Phases, Goes(p, where)
  PROVE  CourseTyped'
BY DEF CourseTyped, Goes

LEMMA TypedExits ==
  ASSUME CourseTyped, NEW p \in Process, NEW code \in Codes, Exits(p, code)
  PROVE  CourseTyped'
<1>1. "done" \in Phases
  BY DEF Phases
<1> QED BY <1>1 DEF CourseTyped, Exits

LEMMA SendTyped ==
  ASSUME CourseTyped, NEW p \in Process, NEW source \in {"message", "stdin", "--file"}, NEW bytes \in Nat,
         prompt \in [Process -> SUBSET Prompts], sendPrompt(p, source, bytes)
  PROVE  CourseTyped' /\ prompt' \in [Process -> SUBSET Prompts]
<1>1. CASE Exits(p, Refused(p, bytes)) /\ UNCHANGED prompt
  <2>1. Refused(p, bytes) \in Codes
    BY DEF Refused, Codes
  <2> QED BY <1>1, <2>1, TypedExits
<1>2. CASE /\ prompt' = [prompt EXCEPT ![p] = {[source |-> source, bytes |-> bytes]}]
           /\ Goes(p, "load")
  <2>1. "load" \in Phases /\ [source |-> source, bytes |-> bytes] \in Prompts
    BY DEF Phases, Prompts
  <2> QED BY <1>2, <2>1, TypedGoes
<1> QED BY <1>1, <1>2 DEF sendPrompt

LEMMA ResolveTyped ==
  ASSUME CourseTyped, ReadingTyped, NEW p \in Process, resolvePrompt(p),
         drained' \in [Process -> SUBSET {"stdin", "--file"}]
  PROVE  CourseTyped' /\ ReadingTyped'
<1>1. CASE /\ \E bytes \in 0..Limit + 1 : sendPrompt(p, "message", bytes)
           /\ UNCHANGED <<taken, malformed, offered>>
  <2>1. PICK bytes \in Nat : sendPrompt(p, "message", bytes)
    BY <1>1, CommandLineAssumption
  <2> QED BY <1>1, <2>1, SendTyped DEF ReadingTyped
<1>2. CASE /\ Goes(p, "--file") \/ Goes(p, "stdin")
           /\ UNCHANGED <<taken, malformed, prompt, offered>>
  <2>1. "--file" \in Phases /\ "stdin" \in Phases
    BY DEF Phases
  <2> QED BY <1>2, <2>1, TypedGoes DEF ReadingTyped
<1> QED BY <1>1, <1>2 DEF resolvePrompt

LEMMA StartTyped == ASSUME Typed, NEW p \in Process, Start(p) PROVE Typed'
<1>1. CASE UNCHANGED reading
  <2>1. (\E code \in Codes : Exits(p, code)) \/ (\E where \in Phases : Goes(p, where)) \/ resolvePrompt(p)
    <3>1. "0" \in Codes /\ "2" \in Codes /\ "prepare" \in Phases /\ "access" \in Phases /\ "peek" \in Phases
          /\ "load" \in Phases
      BY DEF Codes, Phases
    <3> QED BY <3>1 DEF Start, Dispatch
  <2>2. ReadingTyped' /\ drained' \in [Process -> SUBSET {"stdin", "--file"}]
    BY <1>1 DEF Typed, reading, ReadingTyped
  <2>3. CourseTyped'
    BY <2>1, <2>2, TypedExits, TypedGoes, ResolveTyped DEF Typed
  <2> QED BY <2>2, <2>3 DEF Typed, Start, writing, WritingTyped, LinesTyped
<1>2. CASE resolvePrompt(p) /\ UNCHANGED drained
  <2>1. drained' \in [Process -> SUBSET {"stdin", "--file"}]
    BY <1>2 DEF Typed, ReadingTyped
  <2>2. CourseTyped' /\ ReadingTyped'
    BY <1>2, <2>1, ResolveTyped DEF Typed
  <2> QED BY <2>2 DEF Typed, Start, writing, WritingTyped, LinesTyped
<1> QED BY <1>1, <1>2 DEF Start, Dispatch

LEMMA ReadChunkTyped == ASSUME Typed, NEW p \in Process, ReadChunk(p) PROVE Typed'
<1>1. phase[p] \in {"stdin", "--file"}
  BY DEF ReadChunk
<1>2. PICK n \in 1..Chunk :
        LET room == Limit + 1 - taken[p]
            kept == IF n < room THEN n ELSE room
        IN /\ offered' = [offered EXCEPT ![p][phase[p]] = @ + n]
           /\ taken' = [taken EXCEPT ![p] = @ + kept]
           /\ \E bad \in 0..kept : malformed' = [malformed EXCEPT ![p] = @ + bad]
           /\ Exits(p, "1") \/ UNCHANGED <<phase, exit>>
  BY DEF ReadChunk
<1>3. n \in Nat /\ taken[p] \in 0..Limit + 1 /\ Limit \in Nat /\ malformed[p] \in Nat /\ malformed[p] <= taken[p]
  BY CommandLineAssumption DEF Typed, ReadingTyped
<1>4. PICK got : got = IF n < Limit + 1 - taken[p] THEN n ELSE Limit + 1 - taken[p]
  OBVIOUS
<1>a. got \in 0..Limit + 1 - taken[p] /\ taken' = [taken EXCEPT ![p] = @ + got]
  BY <1>2, <1>3, <1>4
<1>b. PICK bad \in 0..got : malformed' = [malformed EXCEPT ![p] = @ + bad]
  BY <1>2, <1>4
<1>5. taken' \in [Process -> 0..Limit + 1] /\ malformed' \in [Process -> Nat]
  BY <1>3, <1>a, <1>b DEF Typed, ReadingTyped
<1>6. \A q \in Process : malformed'[q] <= taken'[q]
  BY <1>3, <1>a, <1>b DEF Typed, ReadingTyped
<1>7. offered' \in [Process -> [{"stdin", "--file"} -> Nat]]
  BY <1>1, <1>2, <1>3 DEF Typed, ReadingTyped
<1>8. CourseTyped'
  <2>1. "1" \in Codes
    BY DEF Codes
  <2>2. CASE UNCHANGED <<phase, exit>>
    BY <2>2 DEF Typed, CourseTyped
  <2> QED BY <1>2, <2>1, <2>2, TypedExits DEF Typed
<1> QED BY <1>5, <1>6, <1>7, <1>8 DEF Typed, ReadChunk, ReadingTyped, writing, WritingTyped, LinesTyped

LEMMA ReadEndsTyped == ASSUME Typed, NEW p \in Process, ReadEnds(p) PROVE Typed'
<1>1. phase[p] \in {"stdin", "--file"}
  BY DEF ReadEnds
<1>2. decoded(p) \in Nat
  BY CommandLineAssumption DEF Typed, ReadingTyped, decoded
<1>3. CourseTyped' /\ prompt' \in [Process -> SUBSET Prompts]
  BY <1>1, <1>2, SendTyped DEF ReadEnds, Typed, ReadingTyped
<1>4. drained' \in [Process -> SUBSET {"stdin", "--file"}]
  BY <1>1 DEF ReadEnds, Typed, ReadingTyped
<1> QED BY <1>3, <1>4 DEF Typed, ReadEnds, ReadingTyped, writing, WritingTyped, LinesTyped

LEMMA PeekTyped == ASSUME Typed, NEW p \in Process, PeekFindsInput(p) \/ PeekFindsNothing(p) PROVE Typed'
<1>1. CASE PeekFindsInput(p)
  <2>1. CourseTyped'
    <3>1. "2" \in Codes
      BY DEF Codes
    <3> QED BY <1>1, <3>1, TypedExits DEF PeekFindsInput, Typed
  <2>2. offered' \in [Process -> [{"stdin", "--file"} -> Nat]]
    BY <1>1, CommandLineAssumption DEF PeekFindsInput, Typed, ReadingTyped
  <2> QED BY <1>1, <2>1, <2>2 DEF Typed, PeekFindsInput, ReadingTyped, writing, WritingTyped, LinesTyped
<1>2. CASE PeekFindsNothing(p)
  <2>1. drained' \in [Process -> SUBSET {"stdin", "--file"}]
    BY <1>2 DEF PeekFindsNothing, Typed, ReadingTyped
  <2>2. CourseTyped' /\ ReadingTyped'
    BY <1>2, <2>1, ResolveTyped DEF PeekFindsNothing, Typed
  <2> QED BY <1>2, <2>2 DEF Typed, PeekFindsNothing, writing, WritingTyped, LinesTyped
<1> QED BY <1>1, <1>2

LEMMA ParseTyped == ASSUME Typed, NEW p \in Process, Parse(p) PROVE Typed'
<1>1. CourseTyped'
  <2>1. "main" \in Phases
    BY DEF Phases
  <2> QED BY <2>1, TypedGoes DEF Parse, Typed
<1>2. call' \in [Process -> Calls]
  BY CallTyped DEF Parse, Typed, LinesTyped
<1>3. DOMAIN args' \subseteq Process /\ args' \in [DOMAIN args' -> Seq(Argument)]
  <2>1. args' = [args EXCEPT ![p] = <<>>] /\ <<>> \in Seq(Argument)
    BY DEF Parse
  <2> QED BY <2>1 DEF Typed, LinesTyped
<1> QED BY <1>1, <1>2, <1>3 DEF Typed, Parse, reading, ReadingTyped, writing, WritingTyped, LinesTyped

(* Steps that only move on or exit, or that write.                         *)
LEMMA WriteTyped == ASSUME Inv, Typed, NEW p \in Process, Open(p) \/ Write(p) PROVE Typed'
<1>1. "1" \in Codes /\ "0" \in Codes /\ "write" \in Phases
  BY DEF Codes, Phases
<1>2. CASE Open(p)
  <2>1. CourseTyped'
    BY <1>1, <1>2, TypedExits, TypedGoes DEF Open, Typed
  <2>2. WritingTyped'
    <3>1. Example({}) \in [exists : BOOLEAN, own : BOOLEAN, pieces : SUBSET (1..Pieces)]
      BY DEF Example
    <3>2. written' = written /\ (file' = Example({}) \/ file' = file) /\ (opened' = opened \cup {p} \/ opened' = opened)
      BY <1>2 DEF Open
    <3> QED BY <3>1, <3>2 DEF Typed, WritingTyped
  <2> QED BY <1>2, <2>1, <2>2 DEF Typed, Open, reading, ReadingTyped, LinesTyped
<1>3. CASE Write(p)
  <2>1. CourseTyped'
    <3>1. CASE UNCHANGED <<phase, exit>>
      BY <3>1 DEF Typed, CourseTyped
    <3> QED BY <1>1, <1>3, <3>1, TypedExits DEF Write, Typed
  <2>2. /\ phase[p] = "write" /\ written' = [written EXCEPT ![p] = @ + 1]
        /\ file' = Example(file.pieces \cup {written'[p]})
        /\ UNCHANGED <<args, call, terminal, taken, malformed, prompt, offered, drained, opened, accepted>>
    BY <1>3 DEF Write, reading
  <2>3. Pieces \in Nat /\ written[p] \in 0..Pieces /\ written[p] # Pieces
    BY <2>2, CommandLineAssumption DEF Typed, WritingTyped, Inv, Course
  <2>4. written'[p] \in 1..Pieces /\ written' \in [Process -> 0..Pieces]
    BY <2>2, <2>3 DEF Typed, WritingTyped
  <2>5. file' \in [exists : BOOLEAN, own : BOOLEAN, pieces : SUBSET (1..Pieces)]
    BY <2>2, <2>4 DEF Typed, WritingTyped, Example
  <2> QED BY <2>1, <2>2, <2>4, <2>5 DEF Typed, ReadingTyped, WritingTyped, LinesTyped
<1> QED BY <1>2, <1>3

LEMMA PlainTyped ==
  ASSUME Typed, NEW p \in Process,
         ReadFails(p) \/ Access(p) \/ Prepare(p) \/ WriteFails(p) \/ loadConfigFile(p) \/ Operate(p) \/ Kill(p)
  PROVE  Typed'
<1>1. (\E code \in Codes : Exits(p, code)) \/ (\E where \in Phases : Goes(p, where))
  <2>1. {"0", "1", "2", "killed"} \subseteq Codes /\ {"prepare", "open", "operation"} \subseteq Phases
    BY DEF Codes, Phases
  <2> QED BY <2>1 DEF ReadFails, Access, Prepare, WriteFails, loadConfigFile, Operate, Kill
<1>2. CourseTyped'
  BY <1>1, TypedExits, TypedGoes DEF Typed
<1>3. accepted' = accepted \/ accepted' = accepted \cup {p}
  BY DEF ReadFails, Access, Prepare, WriteFails, loadConfigFile, Operate, Kill
<1>4. UNCHANGED <<args, call, terminal, reading, writing>>
  BY DEF ReadFails, Access, Prepare, WriteFails, loadConfigFile, Operate, Kill
<1> QED BY <1>2, <1>3, <1>4 DEF Typed, reading, ReadingTyped, writing, WritingTyped, LinesTyped

LEMMA TypedNext == Inv /\ Typed /\ [Next]_vars => Typed'
<1> SUFFICES ASSUME Inv, Typed, [Next]_vars PROVE Typed'
  OBVIOUS
<1>1. CASE OperatorSaves
  <2>1. Own \in [exists : BOOLEAN, own : BOOLEAN, pieces : SUBSET (1..Pieces)]
    BY DEF Own
  <2> QED BY <1>1, <2>1 DEF OperatorSaves, Typed, CourseTyped, reading, ReadingTyped, WritingTyped, LinesTyped
<1>2. CASE UNCHANGED vars
  BY <1>2 DEF vars, Typed, CourseTyped, reading, ReadingTyped, writing, WritingTyped, LinesTyped
<1> QED BY <1>1, <1>2, ParseTyped, StartTyped, PeekTyped, ReadChunkTyped, ReadEndsTyped, WriteTyped, PlainTyped
        DEF Next, Inputs, initializeConfig

LEMMA TypedInit == Init => Typed
<1> SUFFICES ASSUME Init PROVE Typed
  OBVIOUS
<1>1. CourseTyped
  BY DEF Init, CourseTyped, Phases, Codes
<1>2. ReadingTyped
  <2>1. /\ taken = [p \in Process |-> 0] /\ malformed = [p \in Process |-> 0] /\ prompt = [p \in Process |-> {}]
        /\ offered = [p \in Process |-> [source \in {"stdin", "--file"} |-> 0]]
        /\ drained = [p \in Process |-> {}]
    BY DEF Init
  <2> QED BY <2>1, CommandLineAssumption DEF ReadingTyped
<1>3. WritingTyped
  <2>1. written = [p \in Process |-> 0] /\ file \in {Absent, Own} /\ opened = {}
    BY DEF Init
  <2>2. {Absent, Own} \subseteq [exists : BOOLEAN, own : BOOLEAN, pieces : SUBSET (1..Pieces)]
    BY DEF Absent, Own
  <2>3. written \in [Process -> 0..Pieces]
    BY <2>1, CommandLineAssumption
  <2> QED BY <2>1, <2>2, <2>3 DEF WritingTyped
<1>4. call \in [Process -> Calls]
  BY CallTyped DEF Init
<1>5. LinesTyped
  BY <1>4, CommandLineAssumption DEF Init, LinesTyped
<1> QED BY <1>1, <1>2, <1>3, <1>5 DEF Typed

(* Every variable of CommandLine keeps its type: a process is somewhere in *)
(* main and exits with a code it documents, never has more than a byte     *)
(* beyond the limit of its prompt, and a command is one of those that      *)
(* parseArgs knows, whatever the command line.                             *)
THEOREM TypeCorrectness == Spec => []TypeOK
<1>1. Typed => TypeOK
  <2>1. ASSUME ReadingTyped PROVE malformed \in [Process -> 0..Limit + 1]
    BY <2>1, CommandLineAssumption DEF ReadingTyped
  <2> QED BY <2>1 DEF Typed, CourseTyped, ReadingTyped, WritingTyped, LinesTyped, TypeOK, Phases, Codes, Prompts
<1> QED BY <1>1, Followed, TypedInit, TypedNext, PTL DEF Spec

-----------------------------------------------------------------------------
(* Why commands exit: every step of a process brings it nearer to its end. *)
Steps(p) ==
  Parse(p) \/ Start(p) \/ Inputs(p) \/ initializeConfig(p) \/ loadConfigFile(p) \/ Operate(p) \/ Kill(p)

Stage(where) ==
  IF where = "start" THEN 0 ELSE IF where = "main" THEN 1 ELSE IF where = "peek" THEN 2
  ELSE IF where \in {"stdin", "--file", "access"} THEN 3 ELSE IF where = "prepare" THEN 4
  ELSE IF where = "open" THEN 5 ELSE IF where \in {"write", "load"} THEN 6
  ELSE IF where = "operation" THEN 7 ELSE 8

Advances(p) ==
  \/ Stage(phase[p]) < Stage(phase'[p])
  \/ /\ phase'[p] = phase[p]
     /\ \/ phase[p] \in {"stdin", "--file"} /\ taken[p] < taken'[p] /\ taken'[p] <= Limit
        \/ phase[p] = "write" /\ written[p] < written'[p] /\ written'[p] < Pieces

LEMMA GoesFurther ==
  ASSUME Types, NEW p \in Process, NEW where, Stage(phase[p]) < Stage(where), Goes(p, where)
  PROVE  Advances(p)
<1>1. phase'[p] = where
  BY DEF Goes, Types
<1> QED BY <1>1 DEF Advances

LEMMA ExitsFurther ==
  ASSUME Types, NEW p \in Process, NEW code, phase[p] # "done", Stage(phase[p]) < 8, Exits(p, code)
  PROVE  Advances(p)
<1>1. phase'[p] = "done"
  BY DEF Exits, Types
<1>2. Stage("done") = 8
  BY DEF Stage
<1> QED BY <1>1, <1>2 DEF Advances

LEMMA SendsFurther ==
  ASSUME Types, NEW p \in Process, NEW source, NEW bytes, phase[p] \in {"main", "peek", "stdin", "--file"},
         sendPrompt(p, source, bytes)
  PROVE  Advances(p)
<1>1. Stage(phase[p]) < Stage("load") /\ Stage(phase[p]) < 8 /\ phase[p] # "done"
  BY DEF Stage
<1>2. Goes(p, "load") \/ \E code : Exits(p, code)
  BY DEF sendPrompt
<1> QED BY <1>1, <1>2, GoesFurther, ExitsFurther

LEMMA ResolvesFurther ==
  ASSUME Types, NEW p \in Process, phase[p] \in {"main", "peek"}, resolvePrompt(p)
  PROVE  Advances(p)
<1>1. Stage(phase[p]) < Stage("--file") /\ Stage(phase[p]) < Stage("stdin")
  BY DEF Stage
<1>2. (\E bytes : sendPrompt(p, "message", bytes)) \/ Goes(p, "--file") \/ Goes(p, "stdin")
  BY DEF resolvePrompt
<1> QED BY <1>1, <1>2, GoesFurther, SendsFurther

LEMMA StartsFurther == ASSUME Types, NEW p \in Process, Start(p) PROVE Advances(p)
<1>1. phase[p] = "main"
  BY DEF Start
<1>2. /\ Stage(phase[p]) < 8 /\ Stage(phase[p]) < Stage("prepare") /\ Stage(phase[p]) < Stage("access")
      /\ Stage(phase[p]) < Stage("peek") /\ Stage(phase[p]) < Stage("load")
  BY <1>1 DEF Stage
<1>3. \/ \E code : Exits(p, code)
      \/ Goes(p, "prepare") \/ Goes(p, "access") \/ Goes(p, "peek") \/ Goes(p, "load")
      \/ resolvePrompt(p)
  BY DEF Start, Dispatch
<1> QED BY <1>1, <1>2, <1>3, GoesFurther, ExitsFurther, ResolvesFurther

(* A source is read a byte at a time at least, and no further than one     *)
(* byte beyond the limit.                                                  *)
LEMMA ReadsFurther == ASSUME Inv, NEW p \in Process, ReadChunk(p) PROVE Advances(p)
<1>1. phase[p] \in {"stdin", "--file"} /\ taken[p] <= Limit /\ taken[p] \in Nat /\ Limit \in Nat
  BY CommandLineAssumption DEF ReadChunk, Inv, Course, Types
<1>2. PICK kept \in Nat :
        /\ 0 < kept /\ kept <= Limit + 1 - taken[p]
        /\ taken' = [taken EXCEPT ![p] = @ + kept]
        /\ IF kept = Limit + 1 - taken[p] THEN Exits(p, "1") ELSE UNCHANGED <<phase, exit>>
  <2>1. PICK n \in 1..Chunk :
          LET room == Limit + 1 - taken[p]
              kept == IF n < room THEN n ELSE room
          IN /\ taken' = [taken EXCEPT ![p] = @ + kept]
             /\ IF kept = room THEN Exits(p, "1") ELSE UNCHANGED <<phase, exit>>
    BY DEF ReadChunk
  <2>2. n \in Nat /\ 0 < n
    BY <2>1, CommandLineAssumption
  <2>3. Limit + 1 - taken[p] \in Nat /\ 0 < Limit + 1 - taken[p]
    BY <1>1
  <2>4. PICK got : got = IF n < Limit + 1 - taken[p] THEN n ELSE Limit + 1 - taken[p]
    OBVIOUS
  <2>5. got \in Nat /\ 0 < got /\ got <= Limit + 1 - taken[p]
    BY <2>2, <2>3, <2>4
  <2>6. taken' = [taken EXCEPT ![p] = @ + got]
    BY <2>1, <2>4
  <2>7. IF got = Limit + 1 - taken[p] THEN Exits(p, "1") ELSE UNCHANGED <<phase, exit>>
    BY <2>1, <2>4
  <2> QED BY <2>5, <2>6, <2>7
<1>3. taken'[p] = taken[p] + kept
  BY <1>2 DEF Inv, Types
<1>4. CASE Exits(p, "1")
  <2>1. Stage(phase[p]) < 8 /\ phase[p] # "done"
    BY <1>1 DEF Stage
  <2> QED BY <1>4, <2>1, ExitsFurther DEF Inv
<1>5. CASE kept # Limit + 1 - taken[p] /\ UNCHANGED phase
  BY <1>1, <1>2, <1>3, <1>5 DEF Advances
<1> QED BY <1>2, <1>4, <1>5

LEMMA WritesFurther == ASSUME Inv, NEW p \in Process, Write(p) PROVE Advances(p)
<1>1. phase[p] = "write" /\ written[p] \in 0..Pieces /\ written[p] # Pieces /\ Pieces \in Nat
  BY CommandLineAssumption DEF Write, Inv, Types, Course
<1>2. written'[p] = written[p] + 1
  BY DEF Write, Inv, Types
<1>3. CASE Exits(p, "0")
  <2>1. Stage(phase[p]) < 8 /\ phase[p] # "done"
    BY <1>1 DEF Stage
  <2> QED BY <1>3, <2>1, ExitsFurther DEF Inv
<1>4. CASE written'[p] # Pieces /\ UNCHANGED phase
  BY <1>1, <1>2, <1>4 DEF Advances
<1> QED BY <1>3, <1>4 DEF Write

(* Every step of a process brings it nearer to its end: it goes to a later *)
(* part of the command, takes more of its prompt without passing the       *)
(* limit, or writes a further piece of the example.  No step leads back,   *)
(* so a command whose awaits end exits (main, readBoundedStream,           *)
(* initializeConfig).                                                      *)
THEOREM CommandsAdvance == Spec => [][\A p \in Process : Steps(p) => Advances(p)]_vars
<1>1. ASSUME Inv, Typed, NEW p \in Process, Steps(p) PROVE Advances(p)
  <2>1. Types
    BY <1>1 DEF Inv
  <2>2. CASE Parse(p)
    <3>1. phase[p] = "start" /\ Goes(p, "main") /\ Stage("start") < Stage("main")
      BY <2>2 DEF Parse, Stage
    <3> QED BY <2>1, <3>1, GoesFurther
  <2>3. CASE PeekFindsInput(p) \/ ReadFails(p) \/ WriteFails(p) \/ Kill(p)
    <3>1. phase[p] # "done" /\ \E code : Exits(p, code)
      BY <2>3 DEF PeekFindsInput, ReadFails, WriteFails, Kill
    <3>2. phase[p] \in Phases
      BY <1>1 DEF Typed, CourseTyped
    <3>3. Stage(phase[p]) < 8
      BY <3>1, <3>2 DEF Stage, Phases
    <3> QED BY <2>1, <3>1, <3>3, ExitsFurther
  <2>4. CASE PeekFindsNothing(p)
    BY <2>1, <2>4, ResolvesFurther DEF PeekFindsNothing
  <2>5. CASE ReadEnds(p)
    BY <2>1, <2>5, SendsFurther DEF ReadEnds
  <2>6. CASE Access(p) \/ Prepare(p) \/ Open(p)
    <3>1. /\ phase[p] \in {"access", "prepare", "open"}
          /\ (\E code : Exits(p, code)) \/ (phase[p] = "access" /\ Goes(p, "prepare"))
               \/ (phase[p] = "prepare" /\ Goes(p, "open")) \/ (phase[p] = "open" /\ Goes(p, "write"))
      BY <2>6 DEF Access, Prepare, Open
    <3>2. /\ Stage(phase[p]) < 8 /\ phase[p] # "done" /\ Stage("access") < Stage("prepare")
          /\ Stage("prepare") < Stage("open") /\ Stage("open") < Stage("write")
      BY <3>1 DEF Stage
    <3> QED BY <2>1, <3>1, <3>2, GoesFurther, ExitsFurther
  <2>7. CASE loadConfigFile(p) \/ Operate(p)
    <3>1. /\ phase[p] \in {"load", "operation"}
          /\ (\E code : Exits(p, code)) \/ (phase[p] = "load" /\ Goes(p, "operation"))
      BY <2>7 DEF loadConfigFile, Operate
    <3>2. Stage(phase[p]) < 8 /\ phase[p] # "done" /\ Stage("load") < Stage("operation")
      BY <3>1 DEF Stage
    <3> QED BY <2>1, <3>1, <3>2, GoesFurther, ExitsFurther
  <2> QED BY <1>1, <2>1, <2>2, <2>3, <2>4, <2>5, <2>6, <2>7, StartsFurther, ReadsFurther, WritesFurther
          DEF Steps, Inputs, initializeConfig
<1>2. Inv /\ Typed /\ [Next]_vars => [\A p \in Process : Steps(p) => Advances(p)]_vars
  BY <1>1
<1> QED BY <1>2, Followed, TypedInit, TypedNext, PTL DEF Spec

-----------------------------------------------------------------------------
(* Induction along an interval, on a set instead of a predicate: a set     *)
(* that holds 0 and, with each number below n, its successor, holds n.     *)
(* Were n missing, adding one would map the members below n injectively    *)
(* into those above 0, which are one fewer.                                *)
LEMMA IntervalInduction ==
  ASSUME NEW n \in Nat, NEW S, 0 \in S,
         \A i \in 0..n : i \in S /\ i # n => i + 1 \in S
  PROVE n \in S
  <1>. SUFFICES ASSUME n \notin S
                PROVE FALSE
    OBVIOUS
  <1>. DEFINE D == S \cap 0..n
              up == [i \in D |-> i + 1]
  <1>1. IsFiniteSet(D)
    <2>1. IsFiniteSet(0..n)
      BY FS_Interval
    <2>2. D \in SUBSET (0..n)
      OBVIOUS
    <2>. HIDE DEF D
    <2>. QED
      BY <2>1, <2>2, FS_Subset
  <1>2. 0 \in D
    OBVIOUS
  <1>3. /\ IsFiniteSet(D \ {0})
        /\ Cardinality(D \ {0}) = Cardinality(D) - 1
    BY <1>1, <1>2, FS_RemoveElement
  <1>4. Cardinality(D) \in Nat
    BY <1>1, FS_CardinalityType
  <1>5. up \in [D -> D \ {0}]
    OBVIOUS
  <1>6. \A x, y \in D : up[x] = up[y] => x = y
    OBVIOUS
  <1>7. Cardinality(D \ {0}) < Cardinality(D)
    BY <1>3, <1>4
  <1>. HIDE DEF D, up
  <1>8. \E x, y \in D : x # y /\ up[x] = up[y]
    BY <1>1, <1>3, <1>5, <1>7, FS_PigeonHole
  <1>. QED
    BY <1>6, <1>8

-----------------------------------------------------------------------------
(* What the loop of parseArgs knows after each of the first m arguments,   *)
(* and the recursive function in Read, which is some function that         *)
(* satisfies its equation if there is one.  There is: one for m arguments  *)
(* extends to one for m + 1.                                               *)
Reads(list, m, f) == f = [i \in 0..m |-> IF i = 0 THEN Fresh ELSE Take(f[i - 1], list[i])]

After(list) == CHOOSE f : Reads(list, Len(list), f)

LEMMA ReadIsAfter ==
  ASSUME NEW list
  PROVE Read(list) = After(list)[Len(list)]
  BY Zenon DEF Read, After, Reads

LEMMA OneMore ==
  ASSUME NEW list, NEW m \in Nat, NEW f, Reads(list, m, f)
  PROVE \E g : Reads(list, m + 1, g)
  <1>. DEFINE g == [i \in 0..m + 1 |-> IF i = m + 1 THEN Take(f[m], list[m + 1]) ELSE f[i]]
  <1>1. \A i \in 0..m : f[i] = IF i = 0 THEN Fresh ELSE Take(f[i - 1], list[i])
    BY DEF Reads
  <1>2. \A i \in 0..m : g[i] = f[i]
    OBVIOUS
  <1>3. g[m + 1] = Take(f[m], list[m + 1])
    OBVIOUS
  <1>4. g = [i \in 0..m + 1 |-> g[i]]
    OBVIOUS
  <1>. HIDE DEF g
  <1>5. ASSUME NEW i \in 0..m + 1
        PROVE g[i] = IF i = 0 THEN Fresh ELSE Take(g[i - 1], list[i])
    <2>1. CASE i \in 0..m /\ i # 0
      <3>1. i - 1 \in 0..m
        BY <2>1
      <3>. QED
        BY <1>1, <1>2, <2>1, <3>1
    <2>2. CASE i = 0
      BY <1>1, <1>2, <2>2
    <2>3. CASE i = m + 1
      <3>1. i - 1 = m /\ m \in 0..m /\ i # 0
        BY <2>3
      <3>. QED
        BY <1>2, <1>3, <2>3, <3>1
    <2>. QED
      BY <2>1, <2>2, <2>3
  <1>6. Reads(list, m + 1, g)
    BY <1>4, <1>5 DEF Reads
  <1>. QED
    BY <1>6

LEMMA LoopIsDefined ==
  ASSUME NEW list, Len(list) \in Nat
  PROVE Reads(list, Len(list), After(list))
  <1>. DEFINE S == {m \in Nat : \E f : Reads(list, m, f)}
  <1>1. 0 \in S
    <2>. DEFINE f == [i \in 0..0 |-> Fresh]
    <2>1. f = [i \in 0..0 |-> IF i = 0 THEN Fresh ELSE Take(f[i - 1], list[i])]
      <3>1. \A i \in 0..0 : i = 0
        OBVIOUS
      <3>2. \A i \in 0..0 : f[i] = Fresh
        OBVIOUS
      <3>3. f = [i \in 0..0 |-> f[i]]
        OBVIOUS
      <3>. HIDE DEF f
      <3>. QED
        BY <3>1, <3>2, <3>3
    <2>2. Reads(list, 0, f)
      BY <2>1 DEF Reads
    <2>. HIDE DEF f
    <2>. QED
      BY <2>2
  <1>2. \A i \in 0..Len(list) : i \in S /\ i # Len(list) => i + 1 \in S
    BY OneMore
  <1>. HIDE DEF S
  <1>3. Len(list) \in S
    BY <1>1, <1>2, IntervalInduction
  <1>4. \E f : Reads(list, Len(list), f)
    BY <1>3 DEF S
  <1>. QED
    BY <1>4 DEF After

(* One argument more is one turn more: the loop does the same with the     *)
(* arguments before it.                                                    *)
LEMMA OneArgumentMore ==
  ASSUME NEW S, NEW list \in Seq(S), NEW a \in S
  PROVE Read(Append(list, a)) = Take(Read(list), a)
  <1>. DEFINE n == Len(list)
              longer == Append(list, a)
              f == After(longer)
              g == After(list)
              T == {i \in 0..n : f[i] = g[i]}
  <1>1. /\ n \in Nat /\ Len(longer) = n + 1 /\ longer[n + 1] = a
        /\ \A i \in 1..n : longer[i] = list[i]
    OBVIOUS
  <1>. HIDE DEF n, longer
  <1>2. f = [i \in 0..n + 1 |-> IF i = 0 THEN Fresh ELSE Take(f[i - 1], longer[i])]
    BY <1>1, LoopIsDefined DEF Reads
  <1>3. g = [i \in 0..n |-> IF i = 0 THEN Fresh ELSE Take(g[i - 1], list[i])]
    BY <1>1, LoopIsDefined DEF Reads, n
  <1>. HIDE DEF f, g
  <1>4. 0 \in T
    BY <1>1, <1>2, <1>3
  <1>5. ASSUME NEW i \in 0..n, i \in T, i # n
        PROVE i + 1 \in T
    <2>1. /\ i + 1 \in 0..n /\ i + 1 \in 0..n + 1 /\ i + 1 # 0 /\ (i + 1) - 1 = i
          /\ longer[i + 1] = list[i + 1]
      BY <1>1, <1>5
    <2>2. f[i + 1] = Take(f[i], list[i + 1])
      BY <1>2, <2>1
    <2>3. g[i + 1] = Take(g[i], list[i + 1])
      BY <1>3, <2>1
    <2>. QED
      BY <1>5, <2>1, <2>2, <2>3
  <1>. HIDE DEF T
  <1>6. n \in T
    BY <1>1, <1>4, <1>5, IntervalInduction
  <1>7. f[n] = g[n]
    BY <1>6 DEF T
  <1>8. f[n + 1] = Take(f[n], a)
    <2>1. n + 1 \in 0..n + 1 /\ n + 1 # 0 /\ (n + 1) - 1 = n
      BY <1>1
    <2>. QED
      BY <1>1, <1>2, <2>1
  <1>9. Read(longer) = f[n + 1] /\ Read(list) = g[n]
    BY <1>1, ReadIsAfter DEF f, g, n
  <1>. QED
    BY <1>7, <1>8, <1>9 DEF longer

LEMMA TwoArgumentsMore ==
  ASSUME NEW S, NEW list \in Seq(S), NEW a \in S, NEW b \in S
  PROVE Read(Append(Append(list, a), b)) = Take(Take(Read(list), a), b)
  <1>1. Append(list, a) \in Seq(S)
    OBVIOUS
  <1>. QED
    BY <1>1, OneArgumentMore

-----------------------------------------------------------------------------
(* The record the loop works on, by its parts, so that the provers see the *)
(* parts a step changes.                                                   *)
Loop(flags, value, positional, terminated, pending, error) ==
  [flags |-> flags, value |-> value, positional |-> positional,
   terminated |-> terminated, pending |-> pending, error |-> error]

LEMMA Fields ==
  ASSUME NEW f, NEW v, NEW w, NEW t, NEW p, NEW e
  PROVE /\ Loop(f, v, w, t, p, e).flags = f
        /\ Loop(f, v, w, t, p, e).value = v
        /\ Loop(f, v, w, t, p, e).positional = w
        /\ Loop(f, v, w, t, p, e).terminated = t
        /\ Loop(f, v, w, t, p, e).pending = p
        /\ Loop(f, v, w, t, p, e).error = e
  BY DEF Loop

(* What the loop knows always has its six parts, and a value, maybe "",    *)
(* for every option that takes one.                                        *)
Complete(v) == v = [o \in Valued |-> v[o]]

WellFormed(x) ==
  /\ x = Loop(x.flags, x.value, x.positional, x.terminated, x.pending, x.error)
  /\ Complete(x.value)

LEMMA Built ==
  ASSUME NEW f, NEW v, NEW w, NEW t, NEW p, NEW e, Complete(v)
  PROVE WellFormed(Loop(f, v, w, t, p, e))
  <1>. DEFINE x == Loop(f, v, w, t, p, e)
  <1>1. x.flags = f /\ x.value = v /\ x.positional = w /\ x.terminated = t /\ x.pending = p /\ x.error = e
    BY Fields
  <1>2. x = Loop(x.flags, x.value, x.positional, x.terminated, x.pending, x.error)
    BY <1>1
  <1>. HIDE DEF x
  <1>3. WellFormed(x)
    BY <1>1, <1>2 DEF WellFormed
  <1>. QED
    BY <1>3 DEF x

(* The loop's operators on what the loop knows, part by part.              *)
Failed(f, v, w, t, p) == Loop(f, v, w, t, p, TRUE)

Refuses(v, o, x) == ~Valid(o, x) \/ (v[o] # "" /\ (o = "--mode" => v[o] # x))

Update(v, o, x) == [v EXCEPT ![o] = x]

LEMMA MistakenBuilds ==
  ASSUME NEW f, NEW v, NEW w, NEW t, NEW p, NEW e
  PROVE Mistaken(Loop(f, v, w, t, p, e)) = Failed(f, v, w, t, p)
  BY DEF Mistaken, Loop, Failed

LEMMA SetBuilds ==
  ASSUME NEW f, NEW v, NEW w, NEW t, NEW p, NEW e, NEW o, NEW x
  PROVE Set(Loop(f, v, w, t, p, e), o, x) =
          IF Refuses(v, o, x) THEN Failed(f, v, w, t, p)
          ELSE Loop(f, Update(v, o, x), w, t, p, e)
  <1>1. Loop(f, v, w, t, p, e).value = v
    BY Fields
  <1>2. Mistaken(Loop(f, v, w, t, p, e)) = Failed(f, v, w, t, p)
    BY MistakenBuilds
  <1>3. [Loop(f, v, w, t, p, e) EXCEPT !.value[o] = x] = Loop(f, Update(v, o, x), w, t, p, e)
    BY DEF Loop, Update
  <1>. QED
    BY <1>1, <1>2, <1>3 DEF Set, Refuses

(* One turn of the loop keeps what the loop knows well formed.             *)
LEMMA SetKeepsForm ==
  ASSUME NEW f, NEW v, NEW w, NEW t, NEW p, NEW e, NEW o, NEW x,
         Complete(v)
  PROVE WellFormed(Set(Loop(f, v, w, t, p, e), o, x))
  <1>1. Complete(Update(v, o, x))
    BY DEF Complete, Update
  <1>2. WellFormed(Loop(f, Update(v, o, x), w, t, p, e))
    BY <1>1, Built
  <1>3. WellFormed(Failed(f, v, w, t, p))
    BY Built, Zenon DEF Failed
  <1>. QED
    BY <1>2, <1>3, SetBuilds

LEMMA TurnKeepsForm ==
  ASSUME NEW f, NEW v, NEW w, NEW t, NEW p, NEW e, NEW a,
         Complete(v)
  PROVE WellFormed(Turn(Loop(f, v, w, t, p, e), a))
  <1>. DEFINE x == Loop(f, v, w, t, p, e)
  <1>1. WellFormed([x EXCEPT !.positional = Append(@, TextOf(a))])
    <2>1. [x EXCEPT !.positional = Append(@, TextOf(a))] = Loop(f, v, Append(w, TextOf(a)), t, p, e)
      BY Fields DEF Loop
    <2>. QED
      BY <2>1, Built
  <1>2. WellFormed([x EXCEPT !.terminated = TRUE])
    <2>1. \A y : [x EXCEPT !.terminated = y] = Loop(f, v, w, y, p, e)
      BY DEF Loop
    <2>2. \A y : WellFormed(Loop(f, v, w, y, p, e))
      BY Built
    <2>. QED
      BY <2>1, <2>2, Zenon
  <1>3. WellFormed([x EXCEPT !.pending = a.option])
    <2>1. [x EXCEPT !.pending = a.option] = Loop(f, v, w, t, a.option, e)
      BY DEF Loop
    <2>. QED
      BY <2>1, Built
  <1>4. WellFormed([x EXCEPT !.flags = @ \cup {a.option}])
    <2>1. [x EXCEPT !.flags = @ \cup {a.option}] = Loop(f \cup {a.option}, v, w, t, p, e)
      BY Fields DEF Loop
    <2>. QED
      BY <2>1, Built
  <1>5. WellFormed(Mistaken(x))
    <2>1. WellFormed(Failed(f, v, w, t, p))
      BY Built, Zenon DEF Failed
    <2>. QED
      BY <2>1, MistakenBuilds
  <1>6. WellFormed(Set(x, a.option, a.text))
    BY SetKeepsForm
  <1>7. WellFormed(Set(x, "--mode", "semantic"))
    BY SetKeepsForm, Zenon
  <1>. HIDE DEF x
  <1>8. WellFormed(Turn(x, a))
    BY <1>1, <1>2, <1>3, <1>4, <1>5, <1>6, <1>7, Zenon DEF Turn
  <1>. QED
    BY <1>8 DEF x

LEMMA TakeKeepsForm ==
  ASSUME NEW x, NEW a, WellFormed(x)
  PROVE WellFormed(Take(x, a))
  <1>1. PICK f, v, w, t, p, e : x = Loop(f, v, w, t, p, e) /\ Complete(v)
    BY DEF WellFormed
  <1>2. [x EXCEPT !.pending = ""] = Loop(f, v, w, t, "", e)
    <2>1. \A y : [Loop(f, v, w, t, p, e) EXCEPT !.pending = y] = Loop(f, v, w, t, y, e)
      BY DEF Loop
    <2>. QED
      BY <1>1, <2>1, Zenon
  <1>3. WellFormed(Turn(x, a))
    BY <1>1, TurnKeepsForm
  <1>4. WellFormed(Set([x EXCEPT !.pending = ""], x.pending, TextOf(a)))
    BY <1>1, <1>2, SetKeepsForm
  <1>. QED
    BY <1>3, <1>4 DEF Take

(* What the loop knows after any arguments is well formed.                 *)
LEMMA ReadWellFormed ==
  ASSUME NEW S, NEW list \in Seq(S)
  PROVE WellFormed(Read(list))
  <1>. DEFINE n == Len(list)
              after == After(list)
              T == {i \in 0..n : WellFormed(after[i])}
  <1>1. n \in Nat
    OBVIOUS
  <1>2. after = [i \in 0..n |-> IF i = 0 THEN Fresh ELSE Take(after[i - 1], list[i])]
    BY <1>1, LoopIsDefined DEF Reads
  <1>. HIDE DEF n, after
  <1>3. 0 \in T
    <2>1. 0 \in 0..n /\ after[0] = Fresh
      BY <1>1, <1>2
    <2>2. Fresh = Loop({}, [o \in Valued |-> ""], <<>>, FALSE, "", FALSE)
      BY DEF Fresh, Loop
    <2>3. Complete([o \in Valued |-> ""])
      BY DEF Complete
    <2>4. WellFormed(Loop({}, [o \in Valued |-> ""], <<>>, FALSE, "", FALSE))
      BY <2>3, Built, Zenon
    <2>5. WellFormed(Fresh)
      BY <2>2, <2>4, Zenon
    <2>. QED
      BY <2>1, <2>5
  <1>4. ASSUME NEW i \in 0..n, i \in T, i # n
        PROVE i + 1 \in T
    <2>1. i + 1 \in 0..n /\ i + 1 # 0 /\ (i + 1) - 1 = i
      BY <1>1, <1>4
    <2>2. after[i + 1] = Take(after[i], list[i + 1])
      BY <1>2, <2>1
    <2>. QED
      BY <1>4, <2>1, <2>2, TakeKeepsForm
  <1>. HIDE DEF T
  <1>5. n \in T
    BY <1>1, <1>3, <1>4, IntervalInduction
  <1>6. WellFormed(after[n])
    BY <1>5 DEF T
  <1>. QED
    BY <1>6, ReadIsAfter DEF after, n

-----------------------------------------------------------------------------
(* What one argument does to a loop that goes on.                          *)
Going(x) == ~x.error /\ x.pending = "" /\ ~x.terminated

Failing(x) == x.error

Same(x, z) == x = z \/ (x.error /\ z.error)

WithWord(x, y) == [x EXCEPT !.positional = Append(@, y)]
WithFlag(x, o) == [x EXCEPT !.flags = @ \cup {o}]
WithValue(x, o, y) == [x EXCEPT !.value[o] = y]

(* They change one part each.                                              *)
LEMMA WordAdded ==
  ASSUME NEW x, NEW y, WellFormed(x)
  PROVE /\ WellFormed(WithWord(x, y))
        /\ WithWord(x, y).flags = x.flags /\ WithWord(x, y).value = x.value
        /\ Going(x) => Going(WithWord(x, y))
  <1>1. /\ WithWord(x, y) = Loop(x.flags, x.value, Append(x.positional, y), x.terminated, x.pending, x.error)
        /\ WithWord(x, y).flags = x.flags /\ WithWord(x, y).value = x.value
        /\ WithWord(x, y).positional = Append(x.positional, y)
        /\ WithWord(x, y).terminated = x.terminated /\ WithWord(x, y).pending = x.pending
        /\ WithWord(x, y).error = x.error
    BY DEF WellFormed, Loop, WithWord
  <1>2. WellFormed(WithWord(x, y))
    BY <1>1, Zenon DEF WellFormed
  <1>. QED
    BY <1>1, <1>2 DEF Going

LEMMA FlagAdded ==
  ASSUME NEW x, NEW o, WellFormed(x)
  PROVE /\ WellFormed(WithFlag(x, o))
        /\ WithFlag(x, o).flags = x.flags \cup {o} /\ WithFlag(x, o).value = x.value
        /\ Going(x) => Going(WithFlag(x, o))
  <1>1. /\ WithFlag(x, o) = Loop(x.flags \cup {o}, x.value, x.positional, x.terminated, x.pending, x.error)
        /\ WithFlag(x, o).flags = x.flags \cup {o} /\ WithFlag(x, o).value = x.value
        /\ WithFlag(x, o).positional = x.positional
        /\ WithFlag(x, o).terminated = x.terminated /\ WithFlag(x, o).pending = x.pending
        /\ WithFlag(x, o).error = x.error
    BY DEF WellFormed, Loop, WithFlag
  <1>2. WellFormed(WithFlag(x, o))
    BY <1>1, Zenon DEF WellFormed
  <1>. QED
    BY <1>1, <1>2 DEF Going

LEMMA ValueAdded ==
  ASSUME NEW x, NEW o, NEW y, WellFormed(x)
  PROVE /\ WellFormed(WithValue(x, o, y))
        /\ WithValue(x, o, y).flags = x.flags /\ WithValue(x, o, y).value = Update(x.value, o, y)
        /\ Going(x) => Going(WithValue(x, o, y))
  <1>1. /\ WithValue(x, o, y) =
             Loop(x.flags, Update(x.value, o, y), x.positional, x.terminated, x.pending, x.error)
        /\ WithValue(x, o, y).flags = x.flags /\ WithValue(x, o, y).value = Update(x.value, o, y)
        /\ WithValue(x, o, y).positional = x.positional
        /\ WithValue(x, o, y).terminated = x.terminated /\ WithValue(x, o, y).pending = x.pending
        /\ WithValue(x, o, y).error = x.error
    BY DEF WellFormed, Loop, WithValue, Update
  <1>2. Complete(Update(x.value, o, y))
    BY DEF Complete, Update, WellFormed
  <1>3. WellFormed(WithValue(x, o, y))
    BY <1>1, <1>2, Zenon DEF WellFormed
  <1>. QED
    BY <1>1, <1>3 DEF Going

LEMMA UpdatedAt ==
  ASSUME NEW v, NEW o \in Valued, NEW y, Complete(v)
  PROVE /\ Update(v, o, y)[o] = y
        /\ \A i \in Valued : i # o => Update(v, o, y)[i] = v[i]
  BY DEF Complete, Update

(* So any two of different parts commute.                                  *)
LEMMA WordAndFlag ==
  ASSUME NEW x, NEW y, NEW o, WellFormed(x)
  PROVE WithWord(WithFlag(x, o), y) = WithFlag(WithWord(x, y), o)
  <1>1. PICK f, v, w, t, p, e : x = Loop(f, v, w, t, p, e)
    BY DEF WellFormed
  <1>2. WithWord(WithFlag(Loop(f, v, w, t, p, e), o), y) = WithFlag(WithWord(Loop(f, v, w, t, p, e), y), o)
    BY DEF Loop, WithWord, WithFlag
  <1>. QED
    BY <1>1, <1>2, Zenon

LEMMA WordAndValue ==
  ASSUME NEW x, NEW y, NEW o, NEW z, WellFormed(x)
  PROVE WithWord(WithValue(x, o, z), y) = WithValue(WithWord(x, y), o, z)
  <1>1. PICK f, v, w, t, p, e : x = Loop(f, v, w, t, p, e)
    BY DEF WellFormed
  <1>2. WithWord(WithValue(Loop(f, v, w, t, p, e), o, z), y) = WithValue(WithWord(Loop(f, v, w, t, p, e), y), o, z)
    BY DEF Loop, WithWord, WithValue
  <1>. QED
    BY <1>1, <1>2, Zenon

LEMMA FlagAndValue ==
  ASSUME NEW x, NEW y, NEW o, NEW z, WellFormed(x)
  PROVE WithFlag(WithValue(x, o, z), y) = WithValue(WithFlag(x, y), o, z)
  <1>1. PICK f, v, w, t, p, e : x = Loop(f, v, w, t, p, e)
    BY DEF WellFormed
  <1>2. WithFlag(WithValue(Loop(f, v, w, t, p, e), o, z), y) = WithValue(WithFlag(Loop(f, v, w, t, p, e), y), o, z)
    BY DEF Loop, WithFlag, WithValue
  <1>. QED
    BY <1>1, <1>2, Zenon

LEMMA TwoFlags ==
  ASSUME NEW x, NEW y, NEW o, WellFormed(x)
  PROVE WithFlag(WithFlag(x, o), y) = WithFlag(WithFlag(x, y), o)
  <1>1. PICK f, v, w, t, p, e : x = Loop(f, v, w, t, p, e)
    BY DEF WellFormed
  <1>2. (f \cup {o}) \cup {y} = (f \cup {y}) \cup {o}
    OBVIOUS
  <1>3. WithFlag(WithFlag(Loop(f, v, w, t, p, e), o), y) = WithFlag(WithFlag(Loop(f, v, w, t, p, e), y), o)
    BY <1>2 DEF Loop, WithFlag
  <1>. QED
    BY <1>1, <1>3, Zenon

LEMMA TwoValues ==
  ASSUME NEW x, NEW o, NEW y, NEW q, NEW z, WellFormed(x), o # q
  PROVE WithValue(WithValue(x, o, y), q, z) = WithValue(WithValue(x, q, z), o, y)
  <1>1. PICK f, v, w, t, p, e : x = Loop(f, v, w, t, p, e)
    BY DEF WellFormed
  <1>2. [[v EXCEPT ![o] = y] EXCEPT ![q] = z] = [[v EXCEPT ![q] = z] EXCEPT ![o] = y]
    OBVIOUS
  <1>3. WithValue(WithValue(Loop(f, v, w, t, p, e), o, y), q, z)
          = WithValue(WithValue(Loop(f, v, w, t, p, e), q, z), o, y)
    BY <1>2 DEF Loop, WithValue
  <1>. QED
    BY <1>1, <1>3, Zenon

-----------------------------------------------------------------------------
(* What each kind of argument does while the loop goes on: a word, a flag, *)
(* an option with its value, or a mistake, after which nothing changes.    *)
Setting(a, o, y) ==
  \/ a = Inline(o, y)
  \/ a = Plain("--semantic") /\ o = "--mode" /\ y = "semantic"

LEMMA TakesWord ==
  ASSUME NEW x, Going(x), NEW y
  PROVE Take(x, Word(y)) = WithWord(x, y)
  BY DEF Going, Take, Turn, Word, TextOf, WithWord

LEMMA TakesFlag ==
  ASSUME NEW x, Going(x), NEW o \in Flag
  PROVE Take(x, Plain(o)) = IF o = "--force" /\ o \in x.flags THEN Mistaken(x) ELSE WithFlag(x, o)
  BY DEF Going, Take, Turn, Plain, Flag, Valued, WithFlag

LEMMA TakesUnknown ==
  ASSUME NEW x, Going(x)
  PROVE Take(x, Plain("unknown")) = Mistaken(x)
  BY DEF Going, Take, Turn, Plain, Valued

LEMMA TakesSetting ==
  ASSUME NEW x, Going(x), NEW o \in Valued, NEW y, NEW a, Setting(a, o, y)
  PROVE Take(x, a) = IF Refuses(x.value, o, y) THEN Mistaken(x) ELSE WithValue(x, o, y)
  <1>1. Take(x, a) = Set(x, o, y)
    <2>1. CASE a = Inline(o, y)
      BY <2>1 DEF Going, Take, Turn, Inline, Valued
    <2>2. CASE a = Plain("--semantic") /\ o = "--mode" /\ y = "semantic"
      BY <2>2 DEF Going, Take, Turn, Plain, Valued
    <2>. QED
      BY <2>1, <2>2 DEF Setting
  <1>. QED
    BY <1>1 DEF Set, Refuses, WithValue

LEMMA MistakeStays ==
  ASSUME NEW x
  PROVE /\ Failing(Mistaken(x))
        /\ \A a : Failing(x) => Take(x, a) = x
  BY DEF Failing, Mistaken, Take

LEMMA BothFail ==
  ASSUME NEW x, NEW z, Failing(x), Failing(z)
  PROVE Same(x, z)
  BY DEF Failing, Same

(* Whether a value is refused depends on that option alone.                *)
LEMMA RefusedAlone ==
  ASSUME NEW v, Complete(v), NEW o \in Valued, NEW y, NEW q \in Valued, NEW z
  PROVE /\ o # q => (Refuses(Update(v, o, y), q, z) <=> Refuses(v, q, z))
        /\ ~Refuses(v, o, y) => y # ""
  <1>1. o # q => Update(v, o, y)[q] = v[q]
    BY UpdatedAt
  <1>2. ~Refuses(v, o, y) => y # ""
    BY ArgumentsAssumption DEF Refuses, Valid, Valued
  <1>. QED
    BY <1>1, <1>2 DEF Refuses

-----------------------------------------------------------------------------
(* Two arguments, by kind.                                                 *)
LEMMA SettingAndWord ==
  ASSUME NEW x, WellFormed(x), Going(x),
         NEW o \in Valued, NEW y, NEW a, Setting(a, o, y), NEW z
  PROVE Same(Take(Take(x, a), Word(z)), Take(Take(x, Word(z)), a))
  <1>1. /\ Take(x, Word(z)) = WithWord(x, z) /\ Going(WithWord(x, z))
        /\ WithWord(x, z).value = x.value
    BY TakesWord, WordAdded
  <1>2. CASE Refuses(x.value, o, y)
    <2>1. Take(x, a) = Mistaken(x) /\ Take(WithWord(x, z), a) = Mistaken(WithWord(x, z))
      BY <1>1, <1>2, TakesSetting
    <2>. QED
      BY <1>1, <2>1, MistakeStays, BothFail
  <1>3. CASE ~Refuses(x.value, o, y)
    <2>1. /\ Take(x, a) = WithValue(x, o, y)
          /\ Take(WithWord(x, z), a) = WithValue(WithWord(x, z), o, y)
      BY <1>1, <1>3, TakesSetting
    <2>2. Take(WithValue(x, o, y), Word(z)) = WithWord(WithValue(x, o, y), z)
      BY ValueAdded, TakesWord
    <2>. QED
      BY <1>1, <2>1, <2>2, WordAndValue DEF Same
  <1>. QED
    BY <1>2, <1>3

LEMMA SettingAndFlag ==
  ASSUME NEW x, WellFormed(x), Going(x),
         NEW o \in Valued, NEW y, NEW a, Setting(a, o, y), NEW g \in Flag
  PROVE Same(Take(Take(x, a), Plain(g)), Take(Take(x, Plain(g)), a))
  <1>1. /\ Going(WithFlag(x, g)) /\ WithFlag(x, g).value = x.value
        /\ Going(WithValue(x, o, y)) /\ WithValue(x, o, y).flags = x.flags
    BY FlagAdded, ValueAdded
  <1>2. CASE Refuses(x.value, o, y)
    <2>1. Take(x, a) = Mistaken(x) /\ Take(WithFlag(x, g), a) = Mistaken(WithFlag(x, g))
      BY <1>1, <1>2, TakesSetting
    <2>2. Failing(Take(Take(x, a), Plain(g)))
      BY <2>1, MistakeStays
    <2>3. Failing(Take(Take(x, Plain(g)), a))
      <3>1. Take(x, Plain(g)) \in {Mistaken(x), WithFlag(x, g)}
        BY TakesFlag
      <3>. QED
        BY <2>1, <3>1, MistakeStays
    <2>. QED
      BY <2>2, <2>3, BothFail
  <1>3. CASE ~Refuses(x.value, o, y) /\ g = "--force" /\ g \in x.flags
    <2>1. /\ Take(x, a) = WithValue(x, o, y) /\ Take(x, Plain(g)) = Mistaken(x)
          /\ Take(WithValue(x, o, y), Plain(g)) = Mistaken(WithValue(x, o, y))
      BY <1>1, <1>3, TakesSetting, TakesFlag
    <2>. QED
      BY <2>1, MistakeStays, BothFail
  <1>4. CASE ~Refuses(x.value, o, y) /\ ~(g = "--force" /\ g \in x.flags)
    <2>1. /\ Take(x, a) = WithValue(x, o, y) /\ Take(x, Plain(g)) = WithFlag(x, g)
          /\ Take(WithValue(x, o, y), Plain(g)) = WithFlag(WithValue(x, o, y), g)
          /\ Take(WithFlag(x, g), a) = WithValue(WithFlag(x, g), o, y)
      BY <1>1, <1>4, TakesSetting, TakesFlag
    <2>. QED
      BY <2>1, FlagAndValue DEF Same
  <1>. QED
    BY <1>2, <1>3, <1>4

(* Settings of one option: a second is refused, or, of --mode, says the    *)
(* same or is refused whichever comes first.                               *)
LEMMA SameOption ==
  ASSUME NEW x, WellFormed(x), Going(x), NEW o \in Valued,
         NEW y, NEW a, Setting(a, o, y), NEW z, NEW b, Setting(b, o, z)
  PROVE Same(Take(Take(x, a), b), Take(Take(x, b), a))
  <1>1. CASE y = z
    <2>1. Take(x, a) = Take(x, b)
      BY <1>1, TakesSetting
    <2>2. Take(WithValue(x, o, y), a) = Take(WithValue(x, o, y), b)
      BY <1>1, ValueAdded, TakesSetting
    <2>3. Take(x, a) \in {Mistaken(x), WithValue(x, o, y)}
      BY TakesSetting
    <2>. QED
      BY <2>1, <2>2, <2>3, MistakeStays DEF Same
  <1>2. ASSUME NEW c, NEW s, Setting(c, o, s), NEW d, NEW r, Setting(d, o, r), s # r
        PROVE Failing(Take(Take(x, c), d))
    <2>1. CASE Refuses(x.value, o, s)
      BY <1>2, <2>1, TakesSetting, MistakeStays
    <2>2. CASE ~Refuses(x.value, o, s)
      <3>1. Take(x, c) = WithValue(x, o, s) /\ Going(WithValue(x, o, s))
        BY <1>2, <2>2, TakesSetting, ValueAdded
      <3>2. WithValue(x, o, s).value[o] = s
        BY ValueAdded, UpdatedAt DEF WellFormed
      <3>3. Complete(x.value)
        BY DEF WellFormed
      <3>4. s # ""
        BY <2>2, <3>3, RefusedAlone
      <3>5. Refuses(WithValue(x, o, s).value, o, r)
        BY <1>2, <3>2, <3>4 DEF Refuses
      <3>. QED
        BY <1>2, <3>1, <3>5, TakesSetting, MistakeStays
    <2>. QED
      BY <2>1, <2>2
  <1>3. CASE y # z
    BY <1>2, <1>3, BothFail
  <1>. QED
    BY <1>1, <1>3

LEMMA TwoSettings ==
  ASSUME NEW x, WellFormed(x), Going(x),
         NEW o \in Valued, NEW y, NEW a, Setting(a, o, y),
         NEW q \in Valued, NEW z, NEW b, Setting(b, q, z)
  PROVE Same(Take(Take(x, a), b), Take(Take(x, b), a))
  <1>1. CASE o = q
    BY <1>1, SameOption
  <1>2. CASE o # q
    <2>1. /\ Refuses(WithValue(x, o, y).value, q, z) <=> Refuses(x.value, q, z)
          /\ Refuses(WithValue(x, q, z).value, o, y) <=> Refuses(x.value, o, y)
      <3>1. Complete(x.value)
        BY DEF WellFormed
      <3>2. /\ Refuses(Update(x.value, o, y), q, z) <=> Refuses(x.value, q, z)
            /\ Refuses(Update(x.value, q, z), o, y) <=> Refuses(x.value, o, y)
        BY <1>2, <3>1, RefusedAlone
      <3>. QED
        BY <3>2, ValueAdded
    <2>2. Going(WithValue(x, o, y)) /\ Going(WithValue(x, q, z))
      BY ValueAdded
    <2>3. CASE ~Refuses(x.value, o, y) /\ ~Refuses(x.value, q, z)
      <3>1. /\ Take(x, a) = WithValue(x, o, y) /\ Take(x, b) = WithValue(x, q, z)
            /\ Take(WithValue(x, o, y), b) = WithValue(WithValue(x, o, y), q, z)
            /\ Take(WithValue(x, q, z), a) = WithValue(WithValue(x, q, z), o, y)
        BY <2>1, <2>2, <2>3, TakesSetting
      <3>. QED
        BY <1>2, <3>1, TwoValues DEF Same
    <2>4. CASE Refuses(x.value, o, y)
      <3>1. Take(x, a) = Mistaken(x) /\ Take(WithValue(x, q, z), a) = Mistaken(WithValue(x, q, z))
        BY <2>1, <2>2, <2>4, TakesSetting
      <3>2. Take(x, b) \in {Mistaken(x), WithValue(x, q, z)}
        BY TakesSetting
      <3>. QED
        BY <3>1, <3>2, MistakeStays, BothFail
    <2>5. CASE Refuses(x.value, q, z)
      <3>1. Take(x, b) = Mistaken(x) /\ Take(WithValue(x, o, y), b) = Mistaken(WithValue(x, o, y))
        BY <2>1, <2>2, <2>5, TakesSetting
      <3>2. Take(x, a) \in {Mistaken(x), WithValue(x, o, y)}
        BY TakesSetting
      <3>. QED
        BY <3>1, <3>2, MistakeStays, BothFail
    <2>. QED
      BY <2>3, <2>4, <2>5
  <1>. QED
    BY <1>1, <1>2

LEMMA FlagAndWord ==
  ASSUME NEW x, WellFormed(x), Going(x), NEW g \in Flag, NEW z
  PROVE Same(Take(Take(x, Plain(g)), Word(z)), Take(Take(x, Word(z)), Plain(g)))
  <1>1. /\ Take(x, Word(z)) = WithWord(x, z) /\ Going(WithWord(x, z))
        /\ WithWord(x, z).flags = x.flags
    BY TakesWord, WordAdded
  <1>2. CASE g = "--force" /\ g \in x.flags
    <2>1. Take(x, Plain(g)) = Mistaken(x) /\ Take(WithWord(x, z), Plain(g)) = Mistaken(WithWord(x, z))
      BY <1>1, <1>2, TakesFlag
    <2>. QED
      BY <1>1, <2>1, MistakeStays, BothFail
  <1>3. CASE ~(g = "--force" /\ g \in x.flags)
    <2>1. /\ Take(x, Plain(g)) = WithFlag(x, g)
          /\ Take(WithWord(x, z), Plain(g)) = WithFlag(WithWord(x, z), g)
      BY <1>1, <1>3, TakesFlag
    <2>2. Take(WithFlag(x, g), Word(z)) = WithWord(WithFlag(x, g), z)
      BY FlagAdded, TakesWord
    <2>. QED
      BY <1>1, <2>1, <2>2, WordAndFlag DEF Same
  <1>. QED
    BY <1>2, <1>3

LEMMA FlagAndFlag ==
  ASSUME NEW x, WellFormed(x), Going(x), NEW g \in Flag, NEW h \in Flag
  PROVE Same(Take(Take(x, Plain(g)), Plain(h)), Take(Take(x, Plain(h)), Plain(g)))
  <1>1. /\ Going(WithFlag(x, g)) /\ WithFlag(x, g).flags = x.flags \cup {g}
        /\ Going(WithFlag(x, h)) /\ WithFlag(x, h).flags = x.flags \cup {h}
    BY FlagAdded
  <1>2. CASE g = h
    BY <1>2 DEF Same
  <1>3. CASE g # h
    <2>1. CASE ~(g = "--force" /\ g \in x.flags) /\ ~(h = "--force" /\ h \in x.flags)
      <3>1. /\ Take(x, Plain(g)) = WithFlag(x, g) /\ Take(x, Plain(h)) = WithFlag(x, h)
            /\ Take(WithFlag(x, g), Plain(h)) = WithFlag(WithFlag(x, g), h)
            /\ Take(WithFlag(x, h), Plain(g)) = WithFlag(WithFlag(x, h), g)
        BY <1>1, <1>3, <2>1, TakesFlag
      <3>. QED
        BY <3>1, TwoFlags DEF Same
    <2>2. CASE g = "--force" /\ g \in x.flags
      <3>1. Take(x, Plain(g)) = Mistaken(x) /\ Take(WithFlag(x, h), Plain(g)) = Mistaken(WithFlag(x, h))
        BY <1>1, <2>2, TakesFlag
      <3>2. Take(x, Plain(h)) \in {Mistaken(x), WithFlag(x, h)}
        BY TakesFlag
      <3>. QED
        BY <3>1, <3>2, MistakeStays, BothFail
    <2>3. CASE h = "--force" /\ h \in x.flags
      <3>1. Take(x, Plain(h)) = Mistaken(x) /\ Take(WithFlag(x, g), Plain(h)) = Mistaken(WithFlag(x, g))
        BY <1>1, <2>3, TakesFlag
      <3>2. Take(x, Plain(g)) \in {Mistaken(x), WithFlag(x, g)}
        BY TakesFlag
      <3>. QED
        BY <3>1, <3>2, MistakeStays, BothFail
    <2>. QED
      BY <2>1, <2>2, <2>3
  <1>. QED
    BY <1>2, <1>3

(* Every argument that does not wait for its value is of one of the kinds. *)
LEMMA Kinds ==
  ASSUME NEW a \in SelfContained
  PROVE \/ \E z : a = Word(z)
        \/ \E g \in Flag : a = Plain(g)
        \/ \E o \in Valued : \E y : Setting(a, o, y)
        \/ a = Plain("unknown")
  BY DEF SelfContained, Setting, Valued

LEMMA UnknownAndAny ==
  ASSUME NEW x, WellFormed(x), Going(x), NEW a \in SelfContained
  PROVE Same(Take(Take(x, Plain("unknown")), a), Take(Take(x, a), Plain("unknown")))
  <1>1. Failing(Take(Take(x, Plain("unknown")), a))
    BY TakesUnknown, MistakeStays
  <1>2. Going(Take(x, a)) \/ Failing(Take(x, a))
    <2>1. ASSUME NEW z, a = Word(z)
          PROVE Going(Take(x, a))
      BY <2>1, TakesWord, WordAdded
    <2>2. ASSUME NEW g \in Flag, a = Plain(g)
          PROVE Going(Take(x, a)) \/ Failing(Take(x, a))
      BY <2>2, TakesFlag, FlagAdded, MistakeStays
    <2>3. ASSUME NEW o \in Valued, NEW y, Setting(a, o, y)
          PROVE Going(Take(x, a)) \/ Failing(Take(x, a))
      BY <2>3, TakesSetting, ValueAdded, MistakeStays
    <2>4. CASE a = Plain("unknown")
      BY <2>4, TakesUnknown, MistakeStays
    <2>. QED
      BY <2>1, <2>2, <2>3, <2>4, Kinds
  <1>3. Failing(Take(Take(x, a), Plain("unknown")))
    BY <1>2, TakesUnknown, MistakeStays
  <1>. QED
    BY <1>1, <1>3, BothFail

LEMMA SameEitherWay ==
  ASSUME NEW x, NEW z, Same(x, z)
  PROVE Same(z, x)
  BY DEF Same

(* An option and another argument mean the same in either order while the  *)
(* loop goes on, or are a mistake in either.                               *)
LEMMA EitherOrder ==
  ASSUME NEW x, WellFormed(x), Going(x),
         NEW a \in SelfContained, NEW b \in SelfContained, a.option # "word"
  PROVE Same(Take(Take(x, a), b), Take(Take(x, b), a))
  <1>1. ASSUME NEW g \in Flag, a = Plain(g)
        PROVE Same(Take(Take(x, a), b), Take(Take(x, b), a))
    <2>1. ASSUME NEW z, b = Word(z)
          PROVE Same(Take(Take(x, a), b), Take(Take(x, b), a))
      BY <1>1, <2>1, FlagAndWord
    <2>2. ASSUME NEW h \in Flag, b = Plain(h)
          PROVE Same(Take(Take(x, a), b), Take(Take(x, b), a))
      BY <1>1, <2>2, FlagAndFlag
    <2>3. ASSUME NEW o \in Valued, NEW y, Setting(b, o, y)
          PROVE Same(Take(Take(x, a), b), Take(Take(x, b), a))
      BY <1>1, <2>3, SettingAndFlag, SameEitherWay
    <2>4. CASE b = Plain("unknown")
      BY <2>4, UnknownAndAny, SameEitherWay
    <2>. QED
      BY <2>1, <2>2, <2>3, <2>4, Kinds
  <1>2. ASSUME NEW o \in Valued, NEW y, Setting(a, o, y)
        PROVE Same(Take(Take(x, a), b), Take(Take(x, b), a))
    <2>1. ASSUME NEW z, b = Word(z)
          PROVE Same(Take(Take(x, a), b), Take(Take(x, b), a))
      BY <1>2, <2>1, SettingAndWord
    <2>2. ASSUME NEW h \in Flag, b = Plain(h)
          PROVE Same(Take(Take(x, a), b), Take(Take(x, b), a))
      BY <1>2, <2>2, SettingAndFlag
    <2>3. ASSUME NEW q \in Valued, NEW z, Setting(b, q, z)
          PROVE Same(Take(Take(x, a), b), Take(Take(x, b), a))
      BY <1>2, <2>3, TwoSettings
    <2>4. CASE b = Plain("unknown")
      BY <2>4, UnknownAndAny, SameEitherWay
    <2>. QED
      BY <2>1, <2>2, <2>3, <2>4, Kinds
  <1>3. CASE a = Plain("unknown")
    BY <1>3, UnknownAndAny
  <1>4. \A z : a # Word(z)
    BY DEF Word
  <1>. QED
    BY <1>1, <1>2, <1>3, <1>4, Kinds

(* One argument: the loop goes on or fails, and only then has seen a flag. *)
LEMMA OneTurn ==
  ASSUME NEW x, WellFormed(x), Going(x), NEW a \in SelfContained
  PROVE /\ WellFormed(Take(x, a))
        /\ \/ Failing(Take(x, a)) /\ Take(x, a).flags = x.flags
           \/ /\ Going(Take(x, a))
              /\ x.flags \subseteq Take(x, a).flags
              /\ Take(x, a).flags \subseteq x.flags \cup {a.option}
  <1>1. Failing(Mistaken(x)) /\ Mistaken(x).flags = x.flags
    BY DEF Failing, Mistaken
  <1>2. ASSUME NEW z, a = Word(z)
        PROVE Going(Take(x, a)) /\ Take(x, a).flags = x.flags
    BY <1>2, TakesWord, WordAdded
  <1>3. ASSUME NEW g \in Flag, a = Plain(g)
        PROVE \/ Take(x, a) = Mistaken(x)
              \/ Going(Take(x, a)) /\ Take(x, a).flags = x.flags \cup {a.option}
    <2>1. a.option = g
      BY <1>3 DEF Plain
    <2>. QED
      BY <1>3, <2>1, TakesFlag, FlagAdded
  <1>4. ASSUME NEW o \in Valued, NEW y, Setting(a, o, y)
        PROVE Take(x, a) = Mistaken(x) \/ (Going(Take(x, a)) /\ Take(x, a).flags = x.flags)
    BY <1>4, TakesSetting, ValueAdded
  <1>5. CASE a = Plain("unknown")
    <2>1. Take(x, a) = Mistaken(x)
      BY <1>5, TakesUnknown
    <2>. QED
      BY <1>1, <2>1, TakeKeepsForm
  <1>6. \/ Failing(Take(x, a)) /\ Take(x, a).flags = x.flags
        \/ /\ Going(Take(x, a))
           /\ x.flags \subseteq Take(x, a).flags
           /\ Take(x, a).flags \subseteq x.flags \cup {a.option}
    BY <1>1, <1>2, <1>3, <1>4, <1>5, Kinds
  <1>. QED
    BY <1>6, TakeKeepsForm

(* A flag counts in one order of two arguments and not in the other only   *)
(* if it comes first there, and the mistake second.                        *)
LEMMA FlagsSeen ==
  ASSUME NEW x, WellFormed(x), Going(x), NEW a \in SelfContained, NEW b \in SelfContained,
         Failing(Take(Take(x, a), b))
  PROVE Take(Take(x, a), b).flags \ Take(Take(x, b), a).flags \subseteq {a.option}
  <1>1. Take(Take(x, a), b).flags \subseteq x.flags \cup {a.option}
    <2>1. CASE Failing(Take(x, a)) /\ Take(x, a).flags = x.flags
      BY <2>1, MistakeStays
    <2>2. CASE Going(Take(x, a)) /\ Take(x, a).flags \subseteq x.flags \cup {a.option}
      <3>1. ~Going(Take(Take(x, a), b))
        BY DEF Going, Failing
      <3>. QED
        BY <2>2, <3>1, OneTurn
    <2>. QED
      BY <2>1, <2>2, OneTurn
  <1>2. x.flags \subseteq Take(Take(x, b), a).flags
    <2>1. CASE Failing(Take(x, b)) /\ Take(x, b).flags = x.flags
      BY <2>1, MistakeStays
    <2>2. CASE Going(Take(x, b)) /\ x.flags \subseteq Take(x, b).flags
      <3>1. Take(x, b).flags \subseteq Take(Take(x, b), a).flags
        BY <2>2, OneTurn
      <3>. QED
        BY <2>2, <3>1
    <2>. QED
      BY <2>1, <2>2, OneTurn
  <1>. QED
    BY <1>1, <1>2

LEMMA EitherSpelling ==
  ASSUME NEW x, WellFormed(x), Going(x), NEW o \in Valued, NEW y
  PROVE Take(Take(x, Plain(o)), Word(y)) = Take(x, Inline(o, y))
  <1>1. Take(x, Plain(o)) = [x EXCEPT !.pending = o]
    BY DEF Going, Take, Turn, Plain, Valued
  <1>2. PICK f, v, w, t, p, e : x = Loop(f, v, w, t, p, e)
    BY DEF WellFormed
  <1>3. \A i : [Loop(f, v, w, t, p, e) EXCEPT !.pending = i] = Loop(f, v, w, t, i, e)
    BY DEF Loop
  <1>4. Take(x, Plain(o)) = Loop(f, v, w, t, o, e)
    BY <1>1, <1>2, <1>3, Zenon
  <1>5. [Loop(f, v, w, t, o, e) EXCEPT !.pending = ""] = x
    <2>1. \A i : [Loop(f, v, w, t, o, e) EXCEPT !.pending = i] = Loop(f, v, w, t, i, e)
      BY DEF Loop
    <2>2. x.pending = p
      BY <1>2 DEF Loop
    <2>3. p = ""
      BY <2>2 DEF Going
    <2>. QED
      BY <1>2, <2>1, <2>3, Zenon
  <1>6. Loop(f, v, w, t, o, e).pending = o /\ ~Loop(f, v, w, t, o, e).error
    <2>1. x.error = e /\ Loop(f, v, w, t, o, e).error = e /\ Loop(f, v, w, t, o, e).pending = o
      BY <1>2 DEF Loop
    <2>. QED
      BY <2>1 DEF Going
  <1>7. Take(Loop(f, v, w, t, o, e), Word(y)) = Set(x, o, y)
    BY <1>5, <1>6 DEF Take, Valued, TextOf, Word
  <1>8. Take(x, Inline(o, y)) = Set(x, o, y)
    BY DEF Going, Take, Turn, Inline, Valued
  <1>. QED
    BY <1>4, <1>7, <1>8

(* The checks after the loop ask only what the loop has found.             *)
LEMMA ChecksFollowTheLoop ==
  ASSUME NEW one, NEW other, Read(one) = Read(other)
  PROVE parseArgs(one) = parseArgs(other)
  BY Zenon DEF parseArgs

(* After any command line, of any length.                                  *)
LEMMA EveryLineCommutes ==
  ASSUME NEW list \in Seq(Argument)
  PROVE Commutes(list)
  <1>1. PICK x : x = Read(list)
    OBVIOUS
  <1>2. WellFormed(x)
    BY <1>1, ReadWellFormed
  <1>3. SUFFICES ASSUME Going(x)
                 PROVE /\ \A one, other \in SelfContained : one.option # "word" => Interchangeable(list, one, other)
                       /\ \A option \in Valued, text \in Text : SpelledAlike(list, option, text)
    BY <1>1, Zenon DEF Commutes, Going
  <1>4. ASSUME NEW a \in SelfContained, NEW b \in SelfContained, a.option # "word"
        PROVE Interchangeable(list, a, b)
    <2>. DEFINE here == Append(Append(list, a), b)
                there == Append(Append(list, b), a)
    <2>1. a \in Argument /\ b \in Argument
      BY DEF Argument
    <2>2. Read(here) = Take(Take(x, a), b) /\ Read(there) = Take(Take(x, b), a)
      BY <1>1, <2>1, TwoArgumentsMore
    <2>3. Same(Take(Take(x, a), b), Take(Take(x, b), a))
      BY <1>2, <1>3, <1>4, EitherOrder
    <2>. HIDE DEF here, there
    <2>4. CASE Read(here) = Read(there)
      <3>1. parseArgs(here) = parseArgs(there)
        BY <2>4, ChecksFollowTheLoop
      <3>. QED
        BY <3>1, Zenon DEF Interchangeable, here, there
    <2>5. CASE Read(here).error /\ Read(there).error
      <3>1. /\ Read(here).flags \ Read(there).flags \subseteq {a.option}
            /\ Read(there).flags \ Read(here).flags \subseteq {b.option}
        BY <1>2, <1>3, <2>2, <2>5, FlagsSeen DEF Failing
      <3>. QED
        BY <2>5, <3>1, Zenon DEF Interchangeable, here, there
    <2>. QED
      BY <2>2, <2>3, <2>4, <2>5 DEF Same
  <1>5. ASSUME NEW o \in Valued, NEW y \in Text
        PROVE SpelledAlike(list, o, y)
    <2>1. Plain(o) \in Argument /\ Word(y) \in Argument /\ Inline(o, y) \in Argument
      BY DEF Argument, SelfContained
    <2>2. Read(Append(Append(list, Plain(o)), Word(y))) = Read(Append(list, Inline(o, y)))
      BY <1>1, <1>2, <1>3, <2>1, OneArgumentMore, TwoArgumentsMore, EitherSpelling
    <2>. QED
      BY <2>2, ChecksFollowTheLoop DEF SpelledAlike
  <1>. QED
    BY <1>4, <1>5

(* The command line of every process is a list of arguments.               *)
Lines == \A p \in DOMAIN args : args[p] \in Seq(Argument)

LEMMA LinesKept == Spec => []Lines
  <1>1. Init => Lines
    <2>. SUFFICES ASSUME Init
                  PROVE Lines
      OBVIOUS
    <2>1. args \in Invocations
      BY DEF Init
    <2>2. args \in [DOMAIN args -> Seq(Argument)]
      BY <2>1, CommandLineAssumption
    <2>. QED
      BY <2>2 DEF Lines
  <1>2. ASSUME Lines, [Next]_vars
        PROVE Lines'
    <2>1. ASSUME NEW p \in Process, Parse(p)
          PROVE Lines'
      <3>1. args' = [args EXCEPT ![p] = <<>>]
        BY <2>1 DEF Parse
      <3>2. DOMAIN args' = DOMAIN args /\ \A i \in DOMAIN args : args'[i] \in {args[i], <<>>}
        BY <3>1
      <3>3. <<>> \in Seq(Argument)
        OBVIOUS
      <3>. QED
        BY <1>2, <3>2, <3>3 DEF Lines
    <2>2. CASE UNCHANGED args
      BY <1>2, <2>2 DEF Lines
    <2>3. ASSUME NEW p \in Process,
                 Start(p) \/ Inputs(p) \/ initializeConfig(p) \/ loadConfigFile(p) \/ Operate(p) \/ Kill(p)
          PROVE UNCHANGED args
      BY <2>3 DEF Start, Inputs, PeekFindsInput, PeekFindsNothing, ReadChunk, ReadEnds, ReadFails,
                  initializeConfig, Access, Prepare, Open, Write, WriteFails, loadConfigFile, Operate, Kill
    <2>. QED
      BY <1>2, <2>1, <2>2, <2>3 DEF Next, OperatorSaves, vars
  <1>. QED
    BY <1>1, <1>2, PTL DEF Spec

(* On a command line of any length, no option is lost or overrides another *)
(* because of where or how it is written; order matters only on a line     *)
(* that is mistaken in any order, and there it decides only which flags    *)
(* came before the mistake (OptionsCommute, parseArgs).                    *)
THEOREM OptionsInAnyOrder == Spec => []OptionsCommute
  <1>1. Lines => OptionsCommute
    BY EveryLineCommutes DEF Lines, OptionsCommute
  <1>. QED
    BY <1>1, LinesKept, PTL

=============================================================================
