-------------------------- MODULE MCHerdrExchange --------------------------
(***************************************************************************)
(* One call with every answer Herdr can give, for TLC.                     *)
(***************************************************************************)
EXTENDS HerdrExchange

AllAnswers == {"result", "error", "otherId", "garbage"}

=============================================================================
