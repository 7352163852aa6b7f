---------------------------- MODULE MCIdempotency ----------------------------
(* Small instances of Idempotency.                                         *)
EXTENDS Idempotency, TLC

CONSTANTS r1, r2, r3

OneBody  == [r \in Requests |-> "a"]
TwoBodies == [r \in Requests |-> IF r = r2 THEN "b" ELSE "a"]
Alike    == Permutations(Requests)
=============================================================================
