----------------------------- MODULE Settlement -----------------------------
(***************************************************************************)
(* What the gateway promises about the hold of a billable request, whatever *)
(* else happens. A request that knows the ledger row of its hold has it     *)
(* given up once and its use recorded at most once, never after the hold    *)
(* was released. A request that knows no row (it holds nothing, or the row  *)
(* failed to commit or to be acknowledged) has no such fence: its use is    *)
(* recorded a second time after a commit that landed and reported a failure, *)
(* and whatever row it may have is left to the sweep.                       *)
(* BudgetLedger and RequestPipeline implement this specification.           *)
(***************************************************************************)
EXTENDS Naturals

CONSTANTS
  Requests,
  Misreports    \* a commit may land and report a failure

VARIABLES
  status,   \* the status of the budget_reservations row of each request
  known,    \* the requests that know the row of their hold
  billed    \* how often the use of each request was recorded

vars == <<status, known, billed>>

Statuses == {"none", "active", "settled", "released", "expired"}
Ended    == {"settled", "released", "expired"}

Init ==
  /\ status = [r \in Requests |-> "none"]
  /\ known = {}
  /\ billed = [r \in Requests |-> 0]

Turn(r, S, s) ==
  /\ status[r] \in S
  /\ status' = [status EXCEPT ![r] = s]

\* The hold is written to the ledger, and the request learns of it or does not.
Open(r) ==
  /\ billed[r] = 0 /\ r \notin known
  /\ Turn(r, {"none"}, "active")
  /\ known' \in {known, known \cup {r}}
  /\ UNCHANGED billed

\* Or is gone before it was written (a request refused meanwhile).
Refuse(r) == billed[r] = 0 /\ Turn(r, {"none"}, "released") /\ UNCHANGED <<known, billed>>

\* The use is recorded, in the commit that gives the hold up. The sweep may have
\* returned the hold before.
Bill(r) ==
  /\ r \in known /\ billed[r] = 0
  /\ billed' = [billed EXCEPT ![r] = 1]
  /\ Turn(r, {"active", "expired"}, "settled")
  /\ UNCHANGED known

\* The use of a request that knows no row: nothing tells a second settlement
\* that the first one landed.
BillUnledgered(r) ==
  /\ r \notin known
  /\ billed[r] = 0 \/ (billed[r] = 1 /\ Misreports)
  /\ billed' = [billed EXCEPT ![r] = @ + 1]
  /\ UNCHANGED <<status, known>>

Release(r) == r \in known /\ Turn(r, {"active"}, "released") /\ UNCHANGED <<known, billed>>
Expire(r)  == Turn(r, {"active"}, "expired") /\ UNCHANGED <<known, billed>>

\* The retention is over: the ledger forgets rows that ended.
Prune(R) ==
  /\ \A r \in R : status[r] \in Ended
  /\ status' = [r \in Requests |-> IF r \in R THEN "none" ELSE status[r]]
  /\ UNCHANGED <<known, billed>>

Next ==
  \/ \E r \in Requests :
       \/ Open(r) \/ Refuse(r) \/ Bill(r) \/ BillUnledgered(r)
       \/ Release(r) \/ Expire(r)
  \/ \E R \in SUBSET Requests : Prune(R)

Spec == Init /\ [][Next]_vars
=============================================================================
