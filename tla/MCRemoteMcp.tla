---------------------------- MODULE MCRemoteMcp ----------------------------
(***************************************************************************)
(* Small instance of RemoteMcp for TLC: one request of every shape that    *)
(* goes its own way through the handler, with at most one oddity each, and *)
(* a second one that is a plain send.                                      *)
(***************************************************************************)
EXTENDS RemoteMcp, TLC

CONSTANTS first, second, operator, viewer, stranger, home, lab

MCPolicy == (operator :> {home, lab}) @@ (viewer :> {home})

Token(kind, principal, scopes) == [kind |-> kind, principal |-> principal, scopes |-> scopes]

Plain ==
  [host |-> TRUE, path |-> "mcp", declared |-> "fits", chunked |-> FALSE, origin |-> TRUE,
   method |-> "POST", json |-> TRUE, credential |-> Token("genuine", operator, Scope),
   size |-> 1, wellFormed |-> TRUE, operation |-> "send", target |-> home]

Odd ==
  { [Plain EXCEPT !.host = FALSE], [Plain EXCEPT !.path = "other"], [Plain EXCEPT !.origin = FALSE],
    [Plain EXCEPT !.path = "metadata"],
    [Plain EXCEPT !.declared = "malformed"], [Plain EXCEPT !.declared = "over"],
    [Plain EXCEPT !.method = "GET"], [Plain EXCEPT !.json = FALSE], [Plain EXCEPT !.wellFormed = FALSE] }

Bodies ==
  {[Plain EXCEPT !.declared = "none", !.chunked = TRUE, !.size = n] : n \in 0..MaxBody + 2}
    \cup {[Plain EXCEPT !.declared = "none", !.size = 0]}
    \cup {[Plain EXCEPT !.size = MaxBody]}

Bodiless ==
  {[Plain EXCEPT !.declared = "none", !.size = 0, !.method = method, !.path = path] :
     method \in {"GET", "HEAD", "OPTIONS", "DELETE", "PUT"}, path \in {"mcp", "metadata"}}

Callers ==
  {[Plain EXCEPT !.credential = Token(kind, operator, Scope)] : kind \in {"none", "bad", "foreign"}}
    \cup {[Plain EXCEPT !.credential = Token("genuine", stranger, Scope)]}
    \cup {[Plain EXCEPT !.credential = Token("genuine", viewer, scopes),
                        !.operation = operation, !.target = target] :
            scopes \in {{"read"}, {"send"}, {"read", "diagnostics"}},
            operation \in Operation, target \in {home, lab}}

MCArrivals ==
  {[r \in Request |-> IF r = first THEN s ELSE Plain] : s \in {Plain} \cup Odd \cup Bodies \cup Bodiless \cup Callers}

=============================================================================
