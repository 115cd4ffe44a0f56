--------------------------- MODULE MCCommandLine ---------------------------
(***************************************************************************)
(* Small instance of CommandLine for TLC: one process on every command     *)
(* line of up to one argument after the command and target; processes     *)
(* that find their prompts in every way beside an init; and up to three    *)
(* processes that create or load the file.                                 *)
(***************************************************************************)
EXTENDS CommandLine, TLC

CONSTANTS first, second, third

CreateAnyway == <<Word("init"), Plain("--force")>>
Create == <<Word("init")>>

Some ==
  {Plain(option) : option \in {"--", "--semantic", "unknown", "--json", "--help", "--force", "--file", "--mode"}}
    \cup {Inline("--file", "home"), Inline("--path", "home"), Inline("--path", ""), Inline("--source", "recent"),
          Inline("--source", "home"), Inline("--count", "0"), Inline("--mode", "raw"), Inline("--mode", "semantic"),
          Word("home"), Word("")}

Starts == {<<>>, <<Word("home")>>} \cup {<<Word(command)>> : command \in {"init", "targets"}}
            \cup {<<Word(command), Word("home")>> : command \in {"send", "read", "status"}}

Lines == Starts \cup {start \o <<one>> : start \in Starts, one \in Some}

Sends ==
  { <<Word("send"), Word("home")>>,
    <<Word("send"), Word("home"), Word("raw")>>,
    <<Word("send"), Word("home"), Inline("--file", "home")>> }

MCInvocations ==
  {first :> line : line \in Lines}
    \cup {(first :> send) @@ (second :> init) : send \in Sends, init \in {Create, CreateAnyway}}
    \cup {(first :> one) @@ (second :> other) @@ (third :> <<Word("targets")>>) :
            one \in {Create, CreateAnyway}, other \in {Create, CreateAnyway}}

=============================================================================
