----------------------------- MODULE Arguments -----------------------------
(***************************************************************************)
(* The command line of `firstmate-gateway`: parseArgs in src/src/cli.ts,   *)
(* a loop over the arguments that stops at the first mistake, and the      *)
(* checks that follow it.                                                  *)
(*                                                                         *)
(* An argument is what the loop tells apart: the option it names, or       *)
(* "word"; the text it carries, and whether that is part of the argument   *)
(* (--file=text) or is to be the next one (--file text).                   *)
(***************************************************************************)
EXTENDS Naturals, Sequences

CONSTANTS
  Text,         \* texts an option may be given, "" among them
  ReadSource,   \* those that name a source of raw output
  Count,        \* those that are a safe non-negative integer
  OutOfRange    \* those of Count that Gateway Core refuses as a line count

ASSUME ArgumentsAssumption ==
  /\ {"", "raw", "semantic"} \subseteq Text
  /\ ReadSource \subseteq Text \ {""}
  /\ Count \subseteq Text \ {""}
  /\ OutOfRange \subseteq Count

Command == {"targets", "status", "doctor", "send", "read", "init"}

Flag == {"--json", "--help", "--version", "--force"}

(* --lines is --count under another name.                                  *)
Valued == {"--path", "--file", "--source", "--count", "--mode"}

Word(text) == [option |-> "word", text |-> text, inline |-> FALSE]
Plain(option) == [option |-> option, text |-> "", inline |-> FALSE]
Inline(option, text) == [option |-> option, text |-> text, inline |-> TRUE]

SelfContained ==
  {Word(text) : text \in Text \cup Command}
    \cup {Plain(option) : option \in Flag \cup {"--semantic", "unknown"}}
    \cup {Inline(option, text) : option \in Valued, text \in Text}

Argument == SelfContained \cup {Plain(option) : option \in Valued \cup {"--"}}

(* The text of an argument that is taken as the value of an option.        *)
TextOf(argument) == IF argument.option = "word" THEN argument.text ELSE "-"

(* What the loop knows; "" is an option that was not given.                *)
Fresh ==
  [flags |-> {}, value |-> [option \in Valued |-> ""], positional |-> <<>>,
   terminated |-> FALSE, pending |-> "", error |-> FALSE]

Mistaken(parsed) ==
  [flags |-> parsed.flags, value |-> parsed.value, positional |-> parsed.positional,
   terminated |-> parsed.terminated, pending |-> parsed.pending, error |-> TRUE]

Valid(option, text) ==
  CASE option \in {"--path", "--file"} -> text # ""
    [] option = "--source" -> text \in ReadSource
    [] option = "--count" -> text \in Count
    [] option = "--mode" -> text \in {"raw", "semantic"}

(* Mutant: the last value wins.                                            *)
SetLast(parsed, option, text) ==
  IF ~Valid(option, text) THEN Mistaken(parsed) ELSE [parsed EXCEPT !.value[option] = text]

(* Only --mode may be repeated, and only to say the same.                  *)
Set(parsed, option, text) ==
  IF \/ ~Valid(option, text)
     \/ parsed.value[option] # "" /\ (option = "--mode" => parsed.value[option] # text)
  THEN Mistaken(parsed)
  ELSE [parsed EXCEPT !.value[option] = text]

(* One turn of the loop, for an argument that is not the value of another. *)
Turn(parsed, argument) ==
  LET option == argument.option
  IN IF parsed.terminated \/ option = "word"
     THEN [parsed EXCEPT !.positional = Append(@, TextOf(argument))]
     ELSE IF option = "--" THEN [parsed EXCEPT !.terminated = TRUE]
     ELSE IF option = "--semantic" THEN Set(parsed, "--mode", "semantic")
     ELSE IF option \in Valued
          THEN IF argument.inline THEN Set(parsed, option, argument.text)
               ELSE [parsed EXCEPT !.pending = option]
     ELSE IF option = "unknown" \/ (option = "--force" /\ option \in parsed.flags) THEN Mistaken(parsed)
     ELSE [parsed EXCEPT !.flags = @ \cup {option}]

Take(parsed, argument) ==
  IF parsed.error THEN parsed
  ELSE IF parsed.pending # ""
       THEN Set([parsed EXCEPT !.pending = ""], parsed.pending, TextOf(argument))
       ELSE Turn(parsed, argument)

Read(args) ==
  LET after[i \in 0..Len(args)] == IF i = 0 THEN Fresh ELSE Take(after[i - 1], args[i])
  IN after[Len(args)]

Given(parsed, options) == \E option \in options : parsed.value[option] # ""

(* The checks after the loop.                                              *)
Misused(parsed) ==
  LET words == Len(parsed.positional)
      command == parsed.positional[1]
      Is(commands) == command \in commands
  IN \/ words = 0
     \/ ~Is(Command)
     \/ Is({"status", "send", "read"}) /\ words < 2
     \/ Is({"targets", "doctor", "init"}) /\ words > 1
     \/ Is({"status", "read"}) /\ words > 2
     \/ Is({"send"}) /\ (words > 3 \/ (words = 3 /\ Given(parsed, {"--file"})))
     \/ ~Is({"read"}) /\ Given(parsed, {"--source", "--count", "--mode"})
     \/ ~Is({"send"}) /\ Given(parsed, {"--file"})
     \/ parsed.value["--mode"] = "semantic" /\ Given(parsed, {"--source", "--count"})
     \/ ~Is({"init"}) /\ (Given(parsed, {"--path"}) \/ "--force" \in parsed.flags)

parseArgs(args) ==
  LET parsed == Read(args)
  IN IF parsed.error THEN parsed
     ELSE IF parsed.pending # "" THEN Mistaken(parsed)
     ELSE IF parsed.flags \cap {"--help", "--version"} # {} THEN parsed
     ELSE IF Misused(parsed) THEN Mistaken(parsed) ELSE parsed

(* What main does with it; help is given even if a mistake follows it.     *)
Verdict(args) ==
  LET parsed == parseArgs(args)
  IN IF "--version" \in parsed.flags THEN "version"
     ELSE IF "--help" \in parsed.flags \/ args = <<>> THEN "help"
     ELSE IF parsed.error THEN "usage"
     ELSE parsed.positional[1]

(* The rest of what main and Gateway Core take from it; validateTargetAlias *)
(* and normalizeReadInput refuse some of it.                               *)
Call(args) ==
  LET parsed == parseArgs(args)
      words == Len(parsed.positional)
  IN [verdict |-> Verdict(args),
      force |-> "--force" \in parsed.flags,
      message |-> words = 3,
      file |-> Given(parsed, {"--file"}),
      refusable |-> \/ words > 1 /\ parsed.positional[2] = ""
                    \/ parsed.value["--count"] \in OutOfRange]

Calls == [verdict : Command \cup {"version", "help", "usage"},
          force : BOOLEAN, message : BOOLEAN, file : BOOLEAN, refusable : BOOLEAN]

-----------------------------------------------------------------------------
(* Two more arguments, of which one is an option, in either order: the     *)
(* command line means the same to the last detail; or one of them is a     *)
(* mistake, whichever is first, and only a flag before it is still seen.   *)
Interchangeable(args, one, other) ==
  LET here == Append(Append(args, one), other)
      there == Append(Append(args, other), one)
  IN \/ parseArgs(here) = parseArgs(there)
     \/ /\ Read(here).error /\ Read(there).error
        /\ Read(here).flags \ Read(there).flags \subseteq {one.option}
        /\ Read(there).flags \ Read(here).flags \subseteq {other.option}

(* However the value of an option is attached, it means the same, even if  *)
(* it is a mistake.                                                        *)
SpelledAlike(args, option, text) ==
  parseArgs(Append(Append(args, Plain(option)), Word(text))) = parseArgs(Append(args, Inline(option, text)))

(* After these arguments, if the loop still goes on and takes options.     *)
Commutes(args) ==
  LET parsed == Read(args)
  IN ~parsed.error /\ parsed.pending = "" /\ ~parsed.terminated =>
       /\ \A one, other \in SelfContained : one.option # "word" => Interchangeable(args, one, other)
       /\ \A option \in Valued, text \in Text : SpelledAlike(args, option, text)

=============================================================================
