--------------------------- MODULE MCBudgetLedger ---------------------------
(* Small instances of BudgetLedger. *)
EXTENDS BudgetLedger, TLC

CONSTANTS u1, u2, c1, c2, c3, r1, r2, r3

Amount(u, t, q) == "usd" :> u @@ "tokens" :> t @@ "requests" :> q

MCRank == c1 :> 1 @@ c2 :> 2
ThreeRank == c1 :> 1 @@ c2 :> 2 @@ c3 :> 3
OneRank == c1 :> 1
MCUserOf == [r \in Requests |-> u1]
OwnUser  == [r \in Requests |-> IF r = r1 THEN u1 ELSE u2]

\* Dollars are capped on the user, dollars and requests on the ceilings.
Caps(user, ceil, reqs) ==
  [k \in Cells |-> CASE k[2] = "usd" -> IF k[1] \in Users THEN user ELSE ceil
                     [] k[2] = "requests" /\ k[1] \in Ceilings -> reqs
                     [] OTHER -> NoCap]
TightCaps == Caps(3, 3, 2)
PairCaps  == Caps(2, 2, 2)

\* A request on a free model holds no dollars.
MCSize        == [r \in Requests |-> Amount(IF r \in Free THEN 0 ELSE 1, 1, 1)]
MCGrown       == [r \in Requests |-> Amount(IF r \in Free THEN 0 ELSE 2, 1, 0)]
MCFallbackUsd == [r \in Requests |-> IF r \in Free THEN 0 ELSE 2]
MCUses        == [r \in Requests |-> {Amount(1, 1, 1)}]

NoChange   == [r \in Requests |-> 0]
OneChange  == [r \in Requests |-> IF r = r1 THEN 1 ELSE 0]
TwoChanges == [r \in Requests |-> IF r = r1 THEN 2 ELSE 0]

OnC1   == [r \in Requests |-> {c1}]
OnC2   == [r \in Requests |-> {c2}]
OnOwn  == [r \in Requests |-> IF r = r1 THEN {c1} ELSE {c2}]
\* r1 holds on two ceilings; its fallback keeps the second and adds a third.
WideC1 == [r \in Requests |-> IF r = r1 THEN {c1, c2} ELSE {c1}]
OnTail == [r \in Requests |-> {c2, c3}]
=============================================================================
