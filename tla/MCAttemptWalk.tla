-------------------------- MODULE MCAttemptWalk --------------------------
(* An instance of AttemptWalk: a request whose plan has three candidates    *)
(* beside a streamed one of the same session with a plan of one.            *)
EXTENDS AttemptWalk, TLC

CONSTANTS r1, r2, x, y, z, s1

Plans == (r1 :> {x, y, z}) @@ (r2 :> {x})
SameSession == [r \in Requests |-> s1]
Costs == [c \in Candidates |-> IF c = y THEN 2 ELSE 1]
==========================================================================
