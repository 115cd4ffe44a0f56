-------------------------- MODULE MCAuth0Verifier --------------------------
(***************************************************************************)
(* Small instance of Auth0Verifier for TLC: two verifications, of either   *)
(* pair of tokens, while the tenant publishes up to three editions of its  *)
(* key set, with one key, the other, or both and a flaw.                   *)
(***************************************************************************)
EXTENDS Auth0Verifier

CONSTANTS old, new, first, second

Of(key, claims) == [key |-> key, signed |-> TRUE, claims |-> claims, size |-> "normal"]

Pair(one, other) == [v \in Verification |-> IF v = first THEN one ELSE other]

MCTokens ==
  { Pair(Of(old, "good"), Of(new, "good")),
    Pair(Of(old, "more resources"), [Of(new, "good") EXCEPT !.signed = FALSE]) }

MCEdition ==
  {[keys |-> keys, flawed |-> FALSE] : keys \in {{old}, {new}}}
    \cup {[keys |-> {old, new}, flawed |-> TRUE]}

MCMaxBytes == [what \in {"discovery", "keys"} |-> IF what = "discovery" THEN 1 ELSE 0]

=============================================================================
