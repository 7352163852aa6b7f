--------------------------- MODULE RequestPipeline ---------------------------
(***************************************************************************)
(* The life of one billable request in the pipeline (api/routes/_pipeline): *)
(* the reservation, the setup and admission steps that may still refuse it,  *)
(* the dispatch (one answer, a walk over candidates, or a stream), and the   *)
(* settlement that every ending owes: a usage row, a charge to the          *)
(* organization when the deployment pays the provider, the budget, and the   *)
(* tokens of the rate limit.                                                *)
(*                                                                         *)
(* The steps are the ones between which another task, the sweeper, a dying   *)
(* client or a failing database can come. The holds themselves are           *)
(* BudgetLedger's; here a reservation is the status of its ledger row and    *)
(* whether the request knows that row.                                       *)
(***************************************************************************)
EXTENDS Naturals

CONSTANTS
  ModelCost,    \* what the reported usage, or one call of a flat-rate model, costs
  Partial,      \* what the text streamed to a client that left is estimated at
  Estimate,     \* the reservation's estimate
  ToolCost,     \* what the gateway-run tool calls cost
  VisionCost,   \* what describing an image during the setup costs
  MaxFaults     \* bound: failures of the database or of the billing port

ASSUME CostAssumption ==
  /\ {ModelCost, Partial, Estimate, ToolCost, VisionCost} \subseteq Nat \ {0}
  /\ MaxFaults \in Nat

VARIABLES
  req,      \* what does not change: see Kinds
  pc,       \* where the request is
  mode,     \* the ending it settles
  tools,    \* billable tool calls ran (ToolUsageTally)
  usage,    \* the provider reported its usage
  rows,     \* usage rows handed to the log writer that settle the request
  cost,     \* the cost of that row: LoggedUsage.cost, and ctx.tool_charge
  pend,     \* charged to the organization in a savepoint, not committed
  grant,    \* the tokens the rate limit counts: estimate, measured or none
  id,       \* the handle names a ledger row (ReservationHandle.reservation_id)
  status,   \* the ledger row of the reservation
  spend,    \* recorded on the budget by this reservation
  billed,   \* how often it was recorded
  side,     \* recorded on the budget for the vision side call
  funds,    \* charged to the organization, committed
  faults,   \* failures so far
  waived,   \* the charge to the organization failed and was discarded
  cut       \* the request was cut off: cancelled, unread or crashed

session == <<tools, usage, rows, cost, pend, grant>>
store   == <<id, status, spend, billed, side, funds>>
vars == <<req, pc, mode, tools, usage, rows, cost, pend, grant,
          id, status, spend, billed, side, funds, faults, waived, cut>>

\* stream: the client asked for one. walk: several candidates, or a catalog plan.
\* paid: the deployment pays the model; toolPaid: it pays the tools.
\* flat: the model is priced per request. policy: stream_missing_usage_policy
\* (fail settles as estimate does). budget: what the request holds on: its user's
\* budget (and ceilings), ceilings alone, nothing (no budget, a free model, budgets
\* disabled), or nothing because its key is exempt and its use does not count.
Kinds == [stream : BOOLEAN, walk : BOOLEAN, paid : BOOLEAN, toolPaid : BOOLEAN,
          flat : BOOLEAN, policy : {"estimate", "allow_free"},
          budget : {"user", "ceilings", "none", "exempt"}]
Modes == {"none", "refused", "exhausted", "failed", "success",
          "no_usage", "error", "incomplete"}
Places == {"new", "setup", "prepare", "dispatch", "stream", "record", "commit",
           "again", "refund", "over"}

Over == pc = "over"

\* counts_toward_budget.
Counts == req.budget # "exempt"

\* reservation.estimate: what the leg on the user row holds.
Held == IF req.budget = "user" THEN Estimate ELSE 0

Init ==
  /\ req \in Kinds
  /\ pc = "new" /\ mode = "none"
  /\ tools = FALSE /\ usage = FALSE /\ rows = 0 /\ cost = 0 /\ pend = 0 /\ grant = "estimate"
  /\ id = FALSE /\ status = "none" /\ spend = 0 /\ billed = 0 /\ side = 0 /\ funds = 0
  /\ faults = 0 /\ waived = FALSE /\ cut = FALSE

Goto(where) == pc' = where
Fault == faults < MaxFaults /\ faults' = faults + 1

-----------------------------------------------------------------------------
(* Commits on the request's session. A charge waits there for the next one. *)

Lands == funds' = funds + pend /\ pend' = 0

\* What one settlement adds to the budget.
Spent == IF Counts THEN cost ELSE 0

\* reconcile_reservation: the claim, the spend and the release are one commit.
\* A row the sweep reclaimed still takes the spend; any other is left alone, and
\* the session is committed all the same. Without a row there is nothing to claim,
\* and every settlement records its spend (try_terminate of no id succeeds).
Reconciled ==
  /\ Lands
  /\ IF id => status \in {"active", "expired"}
     THEN /\ status' = IF id THEN "settled" ELSE status
          /\ spend' = spend + Spent /\ billed' = billed + 1
     ELSE UNCHANGED <<status, spend, billed>>

\* refund_reservation.
Refunded ==
  /\ Lands
  /\ status' = IF id /\ status = "active" THEN "released" ELSE status
  /\ UNCHANGED <<spend, billed>>

\* Mutant of RolledBack: the charge is committed on a session of its own.
RolledBackCharged == Lands /\ UNCHANGED <<status, spend, billed>>

RolledBack == pend' = 0 /\ UNCHANGED <<status, spend, billed, funds>>

\* A commit that reports a failure was rolled back, or landed all the same.
Fails(commit) == Fault /\ (RolledBack \/ commit)

-----------------------------------------------------------------------------
(* Reservation, setup and admission.                                       *)

\* Everything that is held is written to the ledger, except that the row of a hold
\* on ceilings alone may fail to commit, or land and be reported as failed: the
\* request goes on without its id.
Reserve ==
  /\ pc = "new"
  /\ \/ /\ Goto("setup")
        /\ CASE req.budget \in {"none", "exempt"} -> UNCHANGED <<id, status, faults>>
             [] req.budget = "user" -> id' = TRUE /\ status' = "active" /\ UNCHANGED faults
             [] OTHER ->
                  \/ id' = TRUE /\ status' = "active" /\ UNCHANGED faults
                  \/ Fault /\ status' \in {"none", "active"} /\ UNCHANGED id
        /\ UNCHANGED grant
     \* refused: nothing is held, and the middleware settles the grant at zero
     \/ Goto("over") /\ grant' = "none" /\ UNCHANGED <<id, status, faults>>
     \* failed: a row on the user's budget may have landed all the same
     \/ /\ Fault /\ Goto("over") /\ grant' = "none" /\ UNCHANGED id
        /\ status' \in IF req.budget = "user" THEN {"none", "active"} ELSE {"none"}
  /\ mode' = IF pc' = "over" THEN "refused" ELSE mode
  /\ UNCHANGED <<req, tools, usage, rows, cost, pend, spend, billed, side, funds,
                 waived, cut>>

\* An image is described for a model that reads none: its cost is recorded
\* at once, whatever becomes of the request, unless its key is exempt.
DescribeImage ==
  /\ pc = "setup" /\ side = 0 /\ Counts
  /\ side' = VisionCost
  /\ UNCHANGED <<req, pc, mode, session, id, status, spend, billed, funds, faults, waived, cut>>

\* The setup is done, and the grant handed over to the request's own paths.
SetUp ==
  /\ pc = "setup"
  /\ Goto("prepare")
  /\ UNCHANGED <<req, mode, session, store, faults, waived, cut>>

\* Unresolved or unpriced model, an attachment that cannot be read or does not
\* fit the budget, a client that leaves during the upload: all refund.
RefuseSetup ==
  /\ pc = "setup"
  /\ Goto("refund") /\ mode' = "refused" /\ grant' = "none"
  /\ UNCHANGED <<req, tools, usage, rows, cost, pend, store, faults, waived, cut>>

Prepare ==
  /\ pc = "prepare"
  /\ Goto("dispatch")
  /\ UNCHANGED <<req, mode, session, store, faults, waived, cut>>

\* A tool, credential or funding refusal: release_reservation.
RefusePrepare ==
  /\ pc = "prepare"
  /\ Goto("refund") /\ mode' = "refused" /\ grant' = "none"
  /\ UNCHANGED <<req, tools, usage, rows, cost, pend, store, faults, waived, cut>>

\* A statement of the tool admission fails: rollback, then the same release. One
\* that fails in resolve_dispatch_provider leaves the hold to the sweep.
PrepareFails ==
  /\ pc = "prepare" /\ Fault
  /\ \/ Goto("refund") /\ mode' = "refused" /\ grant' = "none"
     \/ Goto("over") /\ mode' = "refused" /\ UNCHANGED grant
  /\ UNCHANGED <<req, tools, usage, rows, cost, pend, store, waived, cut>>

-----------------------------------------------------------------------------
(* Dispatch.                                                               *)

RunTools ==
  /\ pc \in {"dispatch", "stream"} /\ ~tools
  /\ tools' = TRUE
  /\ UNCHANGED <<req, pc, mode, usage, rows, cost, pend, grant, store, faults, waived, cut>>

\* A fallback's ceilings take the first hold of a request that held nothing, and
\* write its first row (move_reservation).
HoldFallback ==
  /\ pc = "dispatch" /\ req.walk /\ Counts /\ ~id /\ status = "none"
  /\ id' = TRUE /\ status' = "active"
  /\ UNCHANGED <<req, pc, mode, session, spend, billed, side, funds, faults, waived, cut>>

Settle(how, tokens) == Goto("record") /\ mode' = how /\ grant' = tokens

Measured(u) == IF u THEN "measured" ELSE "none"

\* The provider answered, with or without its usage.
Answer ==
  /\ pc = "dispatch" /\ ~req.stream
  /\ usage' \in BOOLEAN
  /\ Settle("success", Measured(usage'))
  /\ UNCHANGED <<req, tools, rows, cost, pend, store, faults, waived, cut>>

OpenStream ==
  /\ pc = "dispatch" /\ req.stream
  /\ Goto("stream")
  /\ UNCHANGED <<req, mode, session, store, faults, waived, cut>>

\* The tool backend is unreachable before any tool ran, or the candidate is
\* refused by the gateway: release_reservation.
DispatchRefused ==
  /\ pc = "dispatch" /\ ~tools
  /\ Goto("refund") /\ mode' = "refused" /\ grant' = "none"
  /\ UNCHANGED <<req, tools, usage, rows, cost, pend, store, faults, waived, cut>>

\* The provider failed, or the tool loop hit its cap. A walk maps the failure
\* of its last candidate to a refusal and writes the row of the whole plan.
\* The grant is settled with the release: first thing when the failure is
\* logged, after the row when a plan is exhausted.
DispatchFails ==
  /\ pc = "dispatch"
  /\ IF req.walk THEN Settle("exhausted", grant) ELSE Settle("failed", "none")
  /\ UNCHANGED <<req, tools, usage, rows, cost, pend, store, faults, waived, cut>>

ReportUsage ==
  /\ pc = "stream" /\ ~usage
  /\ usage' = TRUE
  /\ UNCHANGED <<req, pc, mode, tools, rows, cost, pend, grant, store, faults, waived, cut>>

\* The stream ends and one of its callbacks settles it. The tokens of a
\* stream that reported none stay estimated.
EndStream ==
  /\ pc = "stream"
  /\ IF usage THEN Settle("success", "measured") ELSE Settle("no_usage", grant)
  /\ UNCHANGED <<req, tools, usage, rows, cost, pend, store, faults, waived, cut>>
BreakStream ==
  /\ pc = "stream"
  /\ Settle("error", Measured(usage))
  /\ UNCHANGED <<req, tools, usage, rows, cost, pend, store, faults, waived, cut>>

\* settle_abandoned_stream: a row only for what there is to bill.
Estimated == req.policy = "estimate" /\ ~usage /\ ~tools
LeaveStream ==
  /\ pc = "stream"
  /\ mode' = "incomplete"
  /\ grant' = Measured(usage \/ Estimated)
  /\ Goto(IF usage \/ tools \/ Estimated THEN "record" ELSE "refund")
  /\ UNCHANGED <<req, tools, usage, rows, cost, pend, store, faults, waived, cut>>

-----------------------------------------------------------------------------
(* Settlement.                                                             *)

\* record_usage: what the model costs on the row of this ending.
ModelPart ==
  IF mode \in {"failed", "exhausted"} THEN 0
  ELSE IF req.flat THEN IF mode \in {"success", "no_usage"} THEN ModelCost ELSE 0
  ELSE IF usage THEN ModelCost
  ELSE CASE mode = "no_usage" /\ req.policy = "estimate" -> Held
         [] mode = "incomplete" /\ Estimated -> Partial
         [] OTHER -> 0

\* _apply_tool_charges: every ending bills the tools it ran.
ToolPart == IF tools THEN ToolCost ELSE 0

\* LoggedUsage.deployment_paid_cost, as charge_deployment_paid reads it.
Share(model, tool) ==
  (IF req.paid /\ mode # "exhausted" THEN model ELSE 0)
    + (IF req.toolPaid THEN tool ELSE 0)

\* Mutant of NeedsSpend: a failure is refunded whatever it owes.
NeedsSpendAnswered(c) == mode = "success" \/ (c > 0 /\ mode = "no_usage")

\* Reconciled to the row's cost, or refunded when the row owes nothing. A success,
\* and a stream billed by its call or its estimate, is reconciled even to nothing.
NeedsSpend(c) ==
  \/ mode = "success" \/ c > 0
  \/ mode = "no_usage" /\ (req.flat \/ req.policy = "estimate")

\* Not every format logs an answer that owes nothing (log_success_without_usage).
Unlogged == mode = "success" /\ ~usage /\ ~tools /\ ~req.flat

\* The row is priced and put, and the charge made in its savepoint. Tools
\* whose price cannot be read are recorded without cost; a failed charge is
\* discarded. The exhausted plan is released by the caller, grant included.
Record ==
  /\ pc = "record"
  /\ \E priced, charged \in BOOLEAN :
       LET tool == IF priced THEN ToolPart ELSE 0 IN
       /\ IF priced /\ charged THEN UNCHANGED faults ELSE Fault
       /\ cost' = ModelPart + tool
       /\ pend' = IF charged THEN pend + Share(ModelPart, tool) ELSE pend
       /\ waived' = ~charged
  /\ rows' \in IF Unlogged THEN {rows, rows + 1} ELSE {rows + 1}
  /\ grant' = IF mode = "exhausted" THEN "none" ELSE grant
  /\ Goto(IF NeedsSpend(cost') THEN "commit" ELSE "refund")
  /\ UNCHANGED <<req, mode, tools, usage, store, cut>>

\* A database error before the row is put. An answer that was served is settled
\* again; a stream billed by its estimate is refunded; the failure of an exhausted
\* plan is then logged as a plain failure; the rest is left to the sweep.
RecordFails ==
  /\ pc = "record" /\ Fault
  /\ IF mode = "exhausted"
     THEN Settle("failed", "none")
     ELSE /\ Goto(CASE mode = "success" -> "again"
                    [] mode = "no_usage" /\ ~req.flat /\ req.policy = "estimate" -> "refund"
                    [] OTHER -> "over")
          /\ UNCHANGED <<mode, grant>>
  /\ UNCHANGED <<req, tools, usage, rows, cost, pend, store, waived, cut>>

Commit ==
  /\ pc = "commit"
  /\ Reconciled /\ Goto("over")
  /\ UNCHANGED <<req, mode, tools, usage, rows, cost, grant, id, side, faults, waived, cut>>

\* Mutant of CommitFails: the failure of a settlement is final.
CommitFailsAtOnce ==
  /\ pc = "commit" /\ Fails(Reconciled)
  /\ Goto("over")
  /\ UNCHANGED <<req, mode, tools, usage, rows, cost, grant, id, side, waived, cut>>

CommitFails ==
  /\ pc = "commit" /\ Fails(Reconciled)
  /\ Goto(IF mode = "success" THEN "again" ELSE "over")
  /\ UNCHANGED <<req, mode, tools, usage, rows, cost, grant, id, side, waived, cut>>

\* Mutant of Again: a second settlement that claims no row, as if there were none.
AgainUnclaimed ==
  /\ pc = "again"
  /\ Lands /\ spend' = spend + Spent /\ billed' = billed + 1
  /\ status' = IF id THEN "settled" ELSE status
  /\ Goto("over")
  /\ UNCHANGED <<req, mode, tools, usage, rows, cost, grant, id, side, faults, waived, cut>>

\* release_after_failed_settlement: once more, to the row's cost when it has one.
\* A first settlement that landed has claimed the ledger row, if there is one, and
\* this one then does nothing; without a row it records the cost again.
SettledAgain == Reconciled \/ (cost = 0 /\ Refunded)
Again ==
  /\ pc = "again"
  /\ SettledAgain /\ Goto("over")
  /\ UNCHANGED <<req, mode, tools, usage, rows, cost, grant, id, side, faults, waived, cut>>
AgainFails ==
  /\ pc = "again" /\ Fails(SettledAgain)
  /\ Goto("over")
  /\ UNCHANGED <<req, mode, tools, usage, rows, cost, grant, id, side, waived, cut>>

Refund ==
  /\ pc = "refund" /\ Refunded /\ Goto("over")
  /\ UNCHANGED <<req, mode, tools, usage, rows, cost, grant, id, side, faults, waived, cut>>
RefundFails ==
  /\ pc = "refund" /\ Fails(Refunded)
  /\ Goto("over")
  /\ UNCHANGED <<req, mode, tools, usage, rows, cost, grant, id, side, waived, cut>>

-----------------------------------------------------------------------------
(* The world around the request.                                           *)

\* A handler whose client leaves is cancelled where it waits, a stream may never
\* be read, a process dies: what was not committed is gone.
CutOff ==
  /\ pc \notin {"new", "over"}
  /\ Goto("over") /\ cut' = TRUE /\ pend' = 0
  /\ grant' = IF pc = "setup" THEN "none" ELSE grant
  /\ UNCHANGED <<req, mode, tools, usage, rows, cost, store, faults, waived>>

\* Mutant of Sweep: the holds of requests that were cut off are missed.
SweepUncut ==
  /\ status = "active" /\ ~cut
  /\ status' = "expired"
  /\ UNCHANGED <<req, pc, mode, session, id, spend, billed, side, funds, faults, waived, cut>>

\* The sweep returns a hold past its TTL, which a slow request may outlive ...
Sweep ==
  /\ status = "active"
  /\ status' = "expired"
  /\ UNCHANGED <<req, pc, mode, session, id, spend, billed, side, funds, faults, waived, cut>>

\* ... and drops rows past the retention, of requests long over.
Prune ==
  /\ Over /\ status \in {"settled", "released", "expired"}
  /\ status' = "none"
  /\ UNCHANGED <<req, pc, mode, session, id, spend, billed, side, funds, faults, waived, cut>>

Request ==
  \/ Reserve \/ DescribeImage \/ SetUp \/ RefuseSetup \/ Prepare \/ RefusePrepare
  \/ PrepareFails \/ RunTools \/ HoldFallback \/ Answer \/ OpenStream \/ DispatchRefused
  \/ DispatchFails \/ ReportUsage \/ EndStream \/ BreakStream \/ LeaveStream
  \/ Record \/ RecordFails \/ Commit \/ CommitFails \/ Again \/ AgainFails
  \/ Refund \/ RefundFails

Next == Request \/ CutOff \/ Sweep \/ Prune

\* The task of the request goes on, and so does the sweeper.
Spec == Init /\ [][Next]_vars /\ WF_vars(Request) /\ WF_vars(Over /\ Sweep)

-----------------------------------------------------------------------------
(* Properties.                                                             *)

\* Every variable has its type.
TypeOK ==
  /\ req \in Kinds /\ pc \in Places /\ mode \in Modes
  /\ {tools, usage, id, waived, cut} \subseteq BOOLEAN
  /\ rows \in 0..1 /\ grant \in {"estimate", "measured", "none"}
  /\ status \in {"none", "active", "settled", "released", "expired"}
  /\ {cost, pend, spend, billed, side, funds} \subseteq Nat
  /\ faults \in 0..MaxFaults

\* "so the sum of a user's rows is the counter a 403 is decided against": what
\* the budget records of a request is what its one usage row says, however it
\* ended. An answer that was served survives one failure of the database on
\* the way, a rolled back or a landed commit included, when the ledger knows the
\* request; when it does not, the failure of a commit that landed doubles it.
BudgetMatchesRow ==
  Over /\ ~cut /\ Counts =>
    /\ faults = 0 => spend = cost
    /\ faults = 1 /\ mode = "success" => spend \in IF id THEN {cost} ELSE {cost, 2 * cost}

\* Nothing is on the budget that no usage row accounts for, and nothing twice,
\* through retries, late settlements and commits that lied, unless the request
\* has no ledger row to claim. Nothing at all is on it for an exempt key.
SpendBacked ==
  /\ spend \in {0, cost} \cup IF ~id /\ faults > 0 THEN {2 * cost} ELSE {}
  /\ spend > 0 => rows = 1 /\ Counts

\* Tools the gateway ran are billed whether the request then succeeds, fails,
\* exhausts its candidates, breaks off or is abandoned by its client.
ToolsBilled == Over /\ tools /\ ~cut /\ faults = 0 /\ Counts => spend >= ToolCost

\* The budget, the usage row and the tools agree on what the request cost.
SpendTrue == SpendBacked /\ BudgetMatchesRow /\ ToolsBilled

\* "A settlement that committed while reporting failure has claimed the ledger row,
\* which makes this a no-op" (release_after_failed_settlement): whatever fails,
\* the budget never records more than the usage row.
SpentOnce == spend <= cost

\* What the charge to the organization is bounded by: what its budget recorded, or,
\* for an exempt key whose use no budget records, what the usage row says.
Recorded == IF Counts THEN spend ELSE cost

\* The organization is charged at most once and at most what was recorded, and
\* without failures it is charged all that the deployment paid.
FundsBacked ==
  /\ funds <= cost /\ funds <= Recorded
  /\ Over /\ faults = 0 /\ req.paid /\ req.toolPaid /\ (Counts \/ ~cut) => funds = Recorded

\* A row is left to the sweep only when the request was cut off or the database
\* failed, for a served answer that knows its row twice.
HoldGivenUp ==
  Over /\ ~cut /\ status = "active" => faults > (IF id /\ mode = "success" THEN 1 ELSE 0)

\* The token estimate stays in the rate limit's windows only for a stream that
\* ended without usage, or when the request was cut off or failed on the way.
EstimateSettled ==
  Over /\ ~cut /\ grant = "estimate" => mode = "no_usage" \/ faults > 0

\* A request that is over keeps neither its hold nor its token estimate, unless
\* something failed that the code cannot make good.
LetGo == HoldGivenUp /\ EstimateSettled

\* The endings of a request, with their retries, implement the promise of
\* Settlement.
Promise == INSTANCE Settlement WITH Requests <- {"request"},
             Misreports <- MaxFaults > 0,
             status <- [r \in {"request"} |-> status],
             known <- IF id THEN {"request"} ELSE {},
             billed <- [r \in {"request"} |-> billed]
ImplementsSettlement == Promise!Spec

\* Every request ends, and in the end its hold is given up.
HoldEnds == <>[](Over /\ status # "active")
=============================================================================
