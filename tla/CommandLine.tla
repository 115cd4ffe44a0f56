---------------------------- MODULE CommandLine ----------------------------
(***************************************************************************)
(* Processes of `firstmate-gateway` (src/src/cli.ts), started on their     *)
(* command lines, on one machine with one configuration file: how each     *)
(* finds its prompt, how `init` (src/src/init.ts) creates the file the     *)
(* others load (src/src/config.ts), and how each exits.                    *)
(*                                                                         *)
(* A step is what a process does between two awaits.  Text is counted in   *)
(* bytes.  The file holds the operator's own configuration, or those       *)
(* pieces of the packaged example that were written so far.  An operator   *)
(* writes a configuration only where there is none.                        *)
(***************************************************************************)
EXTENDS Arguments, FiniteSets

CONSTANTS
  Process,
  Invocations,  \* what may be started: argument lists of some of Process
  Limit,        \* MAX_PROMPT_BYTES
  Chunk,        \* bound: the most bytes that arrive at once
  Pieces        \* pieces in which the example is written

ASSUME CommandLineAssumption ==
  /\ \A started \in Invocations :
       DOMAIN started \subseteq Process /\ started \in [DOMAIN started -> Seq(Argument)]
  /\ Limit \in Nat \ {0} /\ Chunk \in Nat \ {0} /\ Pieces \in Nat \ {0}

VARIABLES
  args,      \* the command line of each process, until it has looked at it
  call,      \* what it asks for, once it has
  terminal,  \* those that look at their standard input and find a terminal
  phase,     \* the await a process is at
  taken,     \* bytes it has of its prompt
  malformed, \* bytes among them that are not UTF-8
  prompt,    \* the prompt it passed to Gateway Core, in a set
  written,   \* pieces of the example it has written
  exit,      \* its exit code, "" while it runs
  file,      \* the configuration file
  offered,   \* history: bytes that were there for it, by source
  drained,   \* history: sources it has read to their end
  opened,    \* history: processes that opened the file to write it
  accepted   \* history: processes whose operation Gateway Core completed

reading == <<taken, malformed, prompt, offered, drained>>
writing == <<written, file, opened>>
vars == <<args, call, terminal, phase, exit, reading, writing, accepted>>

Absent == [exists |-> FALSE, own |-> FALSE, pieces |-> {}]
Own == [exists |-> TRUE, own |-> TRUE, pieces |-> {}]
Example(pieces) == [exists |-> TRUE, own |-> FALSE, pieces |-> pieces]
Whole == Example(1..Pieces)

Running(p, command) == call[p].verdict = command
Forced(p) == call[p].force
Message(p) == call[p].message
FileGiven(p) == call[p].file

Init ==
  /\ args \in Invocations
  /\ call = [p \in Process |-> Call(<<>>)]
  /\ terminal \in SUBSET {p \in DOMAIN args : Verdict(args[p]) = "send"}
  /\ phase = [p \in Process |-> IF p \in DOMAIN args THEN "start" ELSE "done"]
  /\ taken = [p \in Process |-> 0]
  /\ malformed = [p \in Process |-> 0]
  /\ prompt = [p \in Process |-> {}]
  /\ written = [p \in Process |-> 0]
  /\ exit = [p \in Process |-> ""]
  /\ file \in {Absent, Own}
  /\ offered = [p \in Process |-> [source \in {"stdin", "--file"} |-> 0]]
  /\ drained = [p \in Process |-> {}]
  /\ opened = {}
  /\ accepted = {}

Goes(p, where) == phase' = [phase EXCEPT ![p] = where] /\ UNCHANGED exit

Exits(p, code) ==
  /\ phase' = [phase EXCEPT ![p] = "done"]
  /\ exit' = [exit EXCEPT ![p] = code]

-----------------------------------------------------------------------------
(* Into Gateway Core, which refuses what it can refuse at once.            *)

(* Mutant: the size is taken to have been checked by whoever read it.      *)
RefusedUnmeasured(p, bytes) == IF call[p].refusable \/ bytes = 0 THEN "2" ELSE ""

(* validateSendInput: "" is a prompt that may go on.                       *)
Refused(p, bytes) ==
  IF call[p].refusable \/ bytes = 0 THEN "2" ELSE IF bytes > Limit THEN "1" ELSE ""

sendPrompt(p, source, bytes) ==
  IF Refused(p, bytes) # ""
  THEN Exits(p, Refused(p, bytes)) /\ UNCHANGED prompt
  ELSE /\ prompt' = [prompt EXCEPT ![p] = {[source |-> source, bytes |-> bytes]}]
       /\ Goes(p, "load")

(* The prompt, unless it is in the command line, is still to be read.      *)
resolvePrompt(p) ==
  IF Message(p)
  THEN /\ \E bytes \in 0..Limit + 1 : sendPrompt(p, "message", bytes)
       /\ UNCHANGED <<taken, malformed, offered>>
  ELSE /\ Goes(p, IF FileGiven(p) THEN "--file" ELSE "stdin")
       /\ UNCHANGED <<taken, malformed, prompt, offered>>

-----------------------------------------------------------------------------
(* main.                                                                   *)

(* Mutant: a terminal is waited for like any other input.                  *)
shouldInspectStdinAlways(p) == Message(p) \/ FileGiven(p)

(* An explicit source and an input that may compete with it.               *)
shouldInspectStdin(p) == (Message(p) \/ FileGiven(p)) /\ p \notin terminal

(* What follows from the command line, once it has been parsed.            *)
Dispatch(p) ==
  \/ /\ Running(p, "version") \/ Running(p, "help")
     /\ Exits(p, "0")
     /\ UNCHANGED reading
  \/ /\ Running(p, "usage")
     /\ Exits(p, "2")
     /\ UNCHANGED reading
  \/ /\ Running(p, "init")
     /\ Goes(p, IF Forced(p) THEN "prepare" ELSE "access")
     /\ UNCHANGED reading
  \/ /\ Running(p, "send") /\ shouldInspectStdin(p)
     /\ Goes(p, "peek")
     /\ UNCHANGED reading
  \/ /\ Running(p, "send") /\ ~shouldInspectStdin(p)
     /\ resolvePrompt(p)
     /\ UNCHANGED drained
  \/ /\ call[p].verdict \in {"targets", "status", "read", "doctor"}
     /\ IF call[p].refusable THEN Exits(p, "2") ELSE Goes(p, "load")
     /\ UNCHANGED reading

Parse(p) ==
  /\ phase[p] = "start"
  /\ args' = [args EXCEPT ![p] = <<>>]
  /\ call' = [call EXCEPT ![p] = Call(args[p])]
  /\ Goes(p, "main")
  /\ UNCHANGED <<terminal, reading, writing, accepted>>

Start(p) ==
  /\ phase[p] = "main"
  /\ Dispatch(p)
  /\ UNCHANGED <<args, call, terminal, writing, accepted>>

-----------------------------------------------------------------------------
(* Prompt sources: readBoundedStream, readBoundedFile.                     *)

(* A source that competes with an explicit one is looked at for a byte.    *)
PeekFindsInput(p) ==
  /\ phase[p] = "peek"
  /\ \E n \in 1..Chunk : offered' = [offered EXCEPT ![p]["stdin"] = n]
  /\ Exits(p, "2")
  /\ UNCHANGED <<args, call, terminal, taken, malformed, prompt, drained, writing, accepted>>

PeekFindsNothing(p) ==
  /\ phase[p] = "peek"
  /\ drained' = [drained EXCEPT ![p] = @ \cup {"stdin"}]
  /\ resolvePrompt(p)
  /\ UNCHANGED <<args, call, terminal, writing, accepted>>

(* Mutant: reads no more than is allowed, and so never sees there is more. *)
ReadToTheLimit(p) ==
  /\ phase[p] \in {"stdin", "--file"}
  /\ \E n \in 1..Chunk : \E bad \in 0..n :
       /\ offered' = [offered EXCEPT ![p][phase[p]] = @ + n]
       /\ taken' = [taken EXCEPT ![p] = IF @ + n > Limit THEN Limit ELSE @ + n]
       /\ malformed' = [malformed EXCEPT ![p] = @ + bad]
       /\ IF taken'[p] < Limit THEN UNCHANGED <<phase, exit, prompt>>
          ELSE sendPrompt(p, phase[p], Limit)
  /\ UNCHANGED <<args, call, terminal, drained, writing, accepted>>

(* Reading stops one byte beyond the limit.  Only the bytes that are kept  *)
(* count as malformed; a file is never asked for more.                     *)
ReadChunk(p) ==
  /\ phase[p] \in {"stdin", "--file"}
  /\ \E n \in 1..Chunk :
       LET room == Limit + 1 - taken[p]
           kept == IF n < room THEN n ELSE room
       IN /\ phase[p] = "--file" => n <= room
          /\ offered' = [offered EXCEPT ![p][phase[p]] = @ + n]
          /\ taken' = [taken EXCEPT ![p] = @ + kept]
          /\ \E bad \in 0..kept : malformed' = [malformed EXCEPT ![p] = @ + bad]
          /\ IF kept = room THEN Exits(p, "1") ELSE UNCHANGED <<phase, exit>>
  /\ UNCHANGED <<args, call, terminal, prompt, drained, writing, accepted>>

(* Decoding puts a character of three bytes for each byte that is not      *)
(* UTF-8, at the worst; it may put one for a few that belong together.     *)
decoded(p) == taken[p] + 2 * malformed[p]

ReadEnds(p) ==
  /\ phase[p] \in {"stdin", "--file"}
  /\ drained' = [drained EXCEPT ![p] = @ \cup {phase[p]}]
  /\ sendPrompt(p, phase[p], decoded(p))
  /\ UNCHANGED <<args, call, terminal, taken, malformed, offered, writing, accepted>>

ReadFails(p) ==
  /\ phase[p] \in {"peek", "stdin", "--file"}
  /\ Exits(p, IF phase[p] = "--file" THEN "2" ELSE "1")
  /\ UNCHANGED <<args, call, terminal, reading, writing, accepted>>

-----------------------------------------------------------------------------
(* initializeConfig.                                                       *)

Access(p) ==
  /\ phase[p] = "access"
  /\ \/ ~file.exists /\ Goes(p, "prepare")
     \/ Exits(p, "1")    \* the file exists, or access fails otherwise
  /\ UNCHANGED <<args, call, terminal, reading, writing, accepted>>

(* The example is read and the directory made.                             *)
Prepare(p) ==
  /\ phase[p] = "prepare"
  /\ Goes(p, "open") \/ Exits(p, "1")
  /\ UNCHANGED <<args, call, terminal, reading, writing, accepted>>

(* Mutant: the check before is thought to be enough.                       *)
OpenAnyway(p) ==
  /\ phase[p] = "open"
  /\ file' = Example({})
  /\ opened' = opened \cup {p}
  /\ Goes(p, "write")
  /\ UNCHANGED <<args, call, terminal, reading, written, accepted>>

(* Flag "wx" fails on a file that exists, "w" empties it.                  *)
Open(p) ==
  /\ phase[p] = "open"
  /\ \/ /\ Forced(p) \/ ~file.exists
        /\ file' = Example({})
        /\ opened' = opened \cup {p}
        /\ Goes(p, "write")
     \/ /\ Exits(p, "1")
        /\ UNCHANGED <<file, opened>>
  /\ UNCHANGED <<args, call, terminal, reading, written, accepted>>

(* A piece goes where it belongs, whatever others have done to the file.   *)
Write(p) ==
  /\ phase[p] = "write"
  /\ written' = [written EXCEPT ![p] = @ + 1]
  /\ file' = Example(file.pieces \cup {written'[p]})
  /\ IF written'[p] = Pieces THEN Exits(p, "0") ELSE UNCHANGED <<phase, exit>>
  /\ UNCHANGED <<args, call, terminal, reading, opened, accepted>>

(* Mutant: a failure after the file was created is passed over.            *)
WriteFailsUnnoticed(p) ==
  /\ phase[p] = "write"
  /\ Exits(p, "0")
  /\ UNCHANGED <<args, call, terminal, reading, writing, accepted>>

(* What was written stays.                                                 *)
WriteFails(p) ==
  /\ phase[p] = "write"
  /\ Exits(p, "1")
  /\ UNCHANGED <<args, call, terminal, reading, writing, accepted>>

-----------------------------------------------------------------------------
(* A command that Gateway Core carries out.  It loads the file (half of    *)
(* the example may or may not be a configuration), and then succeeds or    *)
(* fails; listing the targets takes no more than the file.                 *)

loadConfigFile(p) ==
  /\ phase[p] = "load"
  /\ \/ Exits(p, "1") /\ UNCHANGED accepted
     \/ /\ file.exists /\ file # Example({})
        /\ IF Running(p, "targets")
           THEN Exits(p, "0") /\ accepted' = accepted \cup {p}
           ELSE Goes(p, "operation") /\ UNCHANGED accepted
  /\ UNCHANGED <<args, call, terminal, reading, writing>>

Operate(p) ==
  /\ phase[p] = "operation"
  /\ \/ Exits(p, "0") /\ accepted' = accepted \cup {p}
     \/ Exits(p, "1") /\ UNCHANGED accepted
  /\ UNCHANGED <<args, call, terminal, reading, writing>>

-----------------------------------------------------------------------------
(* A process may be killed anywhere; the operator may come with a          *)
(* configuration.                                                          *)
Kill(p) ==
  /\ phase[p] # "done"
  /\ Exits(p, "killed")
  /\ UNCHANGED <<args, call, terminal, reading, writing, accepted>>

OperatorSaves ==
  /\ ~file.exists
  /\ file' = Own
  /\ UNCHANGED <<args, call, terminal, phase, exit, reading, written, opened, accepted>>

Inputs(p) == PeekFindsInput(p) \/ PeekFindsNothing(p) \/ ReadChunk(p) \/ ReadEnds(p) \/ ReadFails(p)

initializeConfig(p) == Access(p) \/ Prepare(p) \/ Open(p) \/ Write(p) \/ WriteFails(p)

Next ==
  \/ \E p \in Process :
       \/ Parse(p) \/ Start(p) \/ Inputs(p) \/ initializeConfig(p) \/ loadConfigFile(p) \/ Operate(p)
       \/ Kill(p)
  \/ OperatorSaves

Spec == Init /\ [][Next]_vars

(* Calls of the file system return and operations of Gateway Core end; a   *)
(* file or a pipe yields more or ends.  A person at a terminal need not.   *)
FairSpec ==
  /\ Spec
  /\ \A p \in Process :
       /\ WF_vars(Parse(p) \/ Start(p) \/ initializeConfig(p) \/ loadConfigFile(p) \/ Operate(p))
       /\ WF_vars((p \notin terminal \/ phase[p] = "--file") /\ Inputs(p))

-----------------------------------------------------------------------------
(* The types.                                                              *)
TypeOK ==
  /\ DOMAIN args \subseteq Process /\ args \in [DOMAIN args -> Seq(Argument)]
  /\ call \in [Process -> Calls]
  /\ terminal \subseteq Process
  /\ phase \in [Process -> {"start", "main", "peek", "stdin", "--file", "access", "prepare", "open", "write",
                           "load", "operation", "done"}]
  /\ exit \in [Process -> {"", "0", "1", "2", "killed"}]
  /\ taken \in [Process -> 0..Limit + 1]
  /\ malformed \in [Process -> 0..Limit + 1]
  /\ prompt \in [Process -> SUBSET [source : {"message", "stdin", "--file"}, bytes : Nat]]
  /\ written \in [Process -> 0..Pieces]
  /\ file \in [exists : BOOLEAN, own : BOOLEAN, pieces : SUBSET (1..Pieces)]
  /\ offered \in [Process -> [{"stdin", "--file"} -> Nat]]
  /\ drained \in [Process -> SUBSET {"stdin", "--file"}]
  /\ opened \subseteq Process /\ accepted \subseteq Process

(* A configuration, or a part of one, is lost in no step but that in which *)
(* an init with --force opens it: "Existing files are never replaced       *)
(* unless the caller explicitly opts into force mode" (initializeConfig),  *)
(* even if the file appears after init has looked for it.                  *)
Loses ==
  file.exists /\ (~file'.exists \/ file'.own # file.own \/ ~(file.pieces \subseteq file'.pieces))

ReplacedOnlyByForce ==
  [][Loses => \E p \in Process : Forced(p) /\ phase[p] = "open" /\ phase'[p] = "write"]_vars

(* A prompt that reaches Gateway Core is within the limit and is the whole *)
(* of the one source there was: the source was read to its end, nothing of *)
(* it was left out, and an input that might compete with it had ended      *)
(* without a byte (resolvePrompt, readBoundedStream, readBoundedFile).     *)
PromptIsTheSource ==
  \A p \in Process : \A sent \in prompt[p] :
    /\ sent.bytes \in 1..Limit
    /\ sent.source = IF Message(p) THEN "message" ELSE IF FileGiven(p) THEN "--file" ELSE "stdin"
    /\ ~(Message(p) /\ FileGiven(p))
    /\ sent.source # "message" =>
         sent.source \in drained[p] /\ offered[p][sent.source] = taken[p] /\ sent.bytes = decoded(p)
    /\ sent.source # "stdin" /\ p \notin terminal =>
         "stdin" \in drained[p] /\ offered[p]["stdin"] = 0

(* An exit code can be relied on.  Nothing was done by a process that      *)
(* exits with 2; a send that exits with 0 was accepted; and when every     *)
(* init that opened the file has exited with 0, the file is the whole      *)
(* example, even if they wrote over one another (main, initializeConfig).  *)
ExitsTellTheTruth ==
  /\ \A p \in Process :
       /\ exit[p] = "2" => p \notin opened \cup accepted /\ prompt[p] = {}
       /\ exit[p] = "0" /\ Running(p, "init") => p \in opened
       /\ exit[p] = "0" /\ Running(p, "send") => p \in accepted /\ prompt[p] # {}
       /\ p \in accepted => exit[p] = "0"
  /\ opened # {} /\ (\A p \in opened : exit[p] = "0") => file = Whole

(* Every command exits, but for a send that takes its prompt from a        *)
(* terminal.  One with an explicit source waits for a byte or the end of   *)
(* an input that is not a terminal (shouldInspectStdin).                   *)
FromTerminal(p) == Running(p, "send") /\ ~Message(p) /\ ~FileGiven(p) /\ p \in terminal

EveryCommandExits ==
  \A p \in Process : phase[p] = "main" /\ ~FromTerminal(p) ~> phase[p] = "done"

(* On the command line of every process, when they are started: no option  *)
(* is lost or overrides another because of where or how it is written. The *)
(* order of options matters only on a line that is mistaken in any order,  *)
(* which is never carried out: parseArgs stops at the mistake, so --help,  *)
(* --version and --json count only if they come before it (parseArgs,      *)
(* main).                                                                  *)
OptionsCommute ==
  (\A p \in DOMAIN args : phase[p] = "start") => \A p \in DOMAIN args : Commutes(args[p])

=============================================================================
