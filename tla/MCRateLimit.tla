--------------------------- MODULE MCRateLimit ---------------------------
(* An instance of RateLimit: two requests of one user on two replicas.      *)
(* Rule user counts their tokens on use and in mode: report, all is the     *)
(* deployment's limit of requests in flight, mm names the model both are    *)
(* tried on; a's estimate alone exceeds its tokens.                         *)
EXTENDS RateLimit, TLC

CONSTANTS a, b, p1, p2, user, all, mm, m

OnBoth == (a :> p1) @@ (b :> p2)
PerRule == (user :> "own") @@ (all :> "shared") @@ (mm :> "model")
CountsOf == (user :> {a, b}) @@ (all :> {a, b}) @@ (mm :> {})
DimsOf == (user :> {"tpm"}) @@ (all :> {"slot"}) @@ (mm :> {"tpm"})
Limits == [k \in Rules |-> [rpm |-> 1, tpm |-> IF k = user THEN 3 ELSE 1, slot |-> 1]]
NamesOf == (user :> {}) @@ (all :> {}) @@ (mm :> {m})
Plans == (a :> {m}) @@ (b :> {m})
Guess == (a :> 2) @@ (b :> 1)
Spent == (a :> 3) @@ (b :> 1)
==========================================================================
