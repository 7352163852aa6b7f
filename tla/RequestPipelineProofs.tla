------------------------ MODULE RequestPipelineProofs ------------------------
(***************************************************************************)
(* What the budget, the organization and the usage row record of a request   *)
(* agree, for any prices and any number of failures; its endings implement   *)
(* Settlement; and what it holds is let go.                                 *)
(*                                                                         *)
(* The argument: nothing is recorded before the settlement starts            *)
(* (EarlyInv), a row is billed at most once and the charge waits for the      *)
(* commit that bills it (MoneyInv), and the place a request ends from tells   *)
(* what it still owes (PlaceInv).                                           *)
(***************************************************************************)
EXTENDS RequestPipeline, TLAPS

Early  == {"new", "setup", "prepare", "dispatch", "stream"}
Served == {"failed", "exhausted", "success", "no_usage", "error", "incomplete"}
Live   == {"active", "expired"}

\* Before its settlement a request has recorded nothing.
EarlyInv ==
  /\ pc \in Early \cup {"record"} =>
       rows = 0 /\ cost = 0 /\ billed = 0 /\ funds = 0
  /\ pc = "new" => status = "none" /\ ~ id
  /\ pc \in {"new", "setup", "prepare"} => ~ tools
  /\ pc \in Early => grant = "estimate"
  /\ pc # "over" => ~ cut

\* The budget has the row's cost as often as it was billed: at most once with a
\* ledger row, which tells. The organization is charged no more than that.
MoneyInv ==
  /\ billed \in 0..2
  /\ spend = IF billed = 0 \/ ~ Counts THEN 0 ELSE IF billed = 1 THEN cost ELSE 2 * cost
  /\ billed = 2 => ~ id /\ faults > 0 /\ Over
  /\ id /\ billed = 1 => status = "settled" \/ (Over /\ status = "none")
  /\ id /\ status = "settled" => billed = 1
  /\ ~ id => status \in {"none", "active", "expired"}
  /\ cost > 0 => rows = 1
  /\ funds <= cost /\ funds <= Recorded
  /\ pc # "commit" => pend = 0
  /\ pc = "commit" => billed = 0 /\ funds = 0 /\ pend <= cost

\* All that the deployment paid is charged with the commit.
Whole == faults = 0 /\ req.paid /\ req.toolPaid
ChargeInv ==
  Whole => /\ pc = "commit" => pend = cost
           /\ Counts \/ (pc # "commit" /\ ~ cut) => funds = Recorded

\* What each place knows of the hold, the grant and the tools.
PlaceInv ==
  /\ pc \in (Early \ {"new"}) \cup {"record", "commit"} => (id => status \in Live)
  /\ ~ id /\ status = "active" => faults > 0
  /\ pc \in {"record", "commit"} => mode \in Served
  /\ pc = "record" /\ grant = "estimate" => mode \in {"no_usage", "exhausted"} \/ faults > 0
  /\ pc \in {"commit", "again", "refund"} /\ grant = "estimate" =>
       mode = "no_usage" \/ faults > 0
  /\ pc = "commit" /\ faults = 0 /\ tools => cost >= ToolCost
  /\ pc = "again" => mode = "success" /\ faults > 0 /\ (id => status \in Live \cup {"settled"})
  /\ pc = "refund" => cost = 0 /\ mode # "success" /\ (faults = 0 => ~ tools)

\* What is left of a request that is over.
OverInv == Over => BudgetMatchesRow /\ ToolsBilled /\ HoldGivenUp /\ EstimateSettled

Inv == TypeOK /\ EarlyInv /\ MoneyInv /\ ChargeInv /\ PlaceInv /\ OverInv

-----------------------------------------------------------------------------
(* Facts.                                                                  *)

\* The numbers and the flags.
LEMMA Numbers ==
  ASSUME TypeOK
  PROVE  /\ cost \in Nat /\ pend \in Nat /\ spend \in Nat /\ billed \in Nat
         /\ side \in Nat /\ funds \in Nat /\ faults \in Nat
         /\ tools \in BOOLEAN /\ usage \in BOOLEAN /\ waived \in BOOLEAN /\ cut \in BOOLEAN
         /\ ToolCost \in Nat /\ ToolCost > 0 /\ MaxFaults \in Nat
  BY CostAssumption DEF TypeOK

\* A failure is counted.
LEMMA Failure ==
  ASSUME TypeOK, Fault
  PROVE  faults' = faults + 1 /\ faults' \in 0..MaxFaults /\ faults' > 0 /\ faults' > faults
  BY CostAssumption DEF TypeOK, Fault

-----------------------------------------------------------------------------
(* Up to the dispatch, and the world around.                               *)

\* The steps up to the settlement, the cut, the sweep and the retention: none of
\* them touches the money but the hold.
LEMMA EarlyKeeps ==
  ASSUME Inv, \/ DescribeImage \/ SetUp \/ RefuseSetup \/ Prepare \/ RefusePrepare \/ RunTools
              \/ Answer \/ OpenStream \/ DispatchRefused \/ DispatchFails \/ ReportUsage
              \/ EndStream \/ BreakStream \/ LeaveStream \/ HoldFallback
              \/ CutOff \/ Sweep \/ Prune
  PROVE  Inv'
  <1> USE CostAssumption
      DEF Inv, TypeOK, Places, Modes, EarlyInv, Early, MoneyInv, ChargeInv, Whole, PlaceInv,
          Served, Live, OverInv, BudgetMatchesRow, ToolsBilled, HoldGivenUp, EstimateSettled,
          Over, Counts, Recorded, Goto, session, store
  <1>1. CASE DescribeImage
    BY <1>1 DEF DescribeImage
  <1>2. CASE SetUp
    BY <1>2 DEF SetUp
  <1>3. CASE RefuseSetup
    BY <1>3 DEF RefuseSetup
  <1>4. CASE Prepare
    BY <1>4 DEF Prepare
  <1>5. CASE RefusePrepare
    BY <1>5 DEF RefusePrepare
  <1>6. CASE RunTools
    BY <1>6 DEF RunTools
  <1>7. CASE Answer
    BY <1>7 DEF Answer, Settle, Measured
  <1>8. CASE OpenStream
    BY <1>8 DEF OpenStream
  <1>9. CASE DispatchRefused
    BY <1>9 DEF DispatchRefused
  <1>10. CASE DispatchFails
    BY <1>10 DEF DispatchFails, Settle
  <1>11. CASE ReportUsage
    BY <1>11 DEF ReportUsage
  <1>12. CASE EndStream
    BY <1>12 DEF EndStream, Settle
  <1>13. CASE BreakStream
    BY <1>13 DEF BreakStream, Settle, Measured
  <1>14. CASE LeaveStream
    BY <1>14 DEF LeaveStream, Measured, Estimated
  <1>15. CASE CutOff
    BY <1>15 DEF CutOff
  <1>16. CASE Sweep
    BY <1>16 DEF Sweep
  <1>17. CASE Prune
    BY <1>17 DEF Prune
  <1>18. CASE HoldFallback
    BY <1>18 DEF HoldFallback
  <1> HIDE DEF Inv
  <1> QED BY <1>1, <1>2, <1>3, <1>4, <1>5, <1>6, <1>7, <1>8, <1>9,
             <1>10, <1>11, <1>12, <1>13, <1>14, <1>15, <1>16, <1>17,
             <1>18

\* The reservation is refused, fails, or holds.
LEMMA ReserveKeeps ==
  ASSUME Inv, Reserve
  PROVE  Inv'
  <1> USE DEF Inv
  <1>1. /\ TypeOK /\ cost \in Nat /\ pend \in Nat /\ spend \in Nat /\ billed \in Nat
        /\ funds \in Nat /\ faults \in Nat /\ ToolCost \in Nat /\ MaxFaults \in Nat
    BY Numbers
  <1>2. /\ pc = "new"
        /\ UNCHANGED <<req, tools, usage, rows, cost, pend, spend, billed, side, funds, waived, cut>>
        /\ faults' \in 0..MaxFaults
        /\ \/ pc' = "setup" /\ UNCHANGED <<mode, grant>>
           \/ pc' = "over" /\ mode' = "refused" /\ grant' = "none"
        /\ \/ pc' = "setup" /\ id' = TRUE /\ status' = "active"
           \/ /\ id' = FALSE /\ status' \in {"none", "active"}
              /\ status' = "active" => faults' > 0
        /\ faults' = 0 => faults = 0
    BY <1>1, Failure DEF Reserve, Goto, Inv, EarlyInv, TypeOK
  <1> QED BY <1>1, <1>2
           DEF TypeOK, Places, Modes, EarlyInv, Early, MoneyInv, ChargeInv, Whole, PlaceInv, Served,
               Live, OverInv, BudgetMatchesRow, ToolsBilled, HoldGivenUp, EstimateSettled, Over, Counts, Recorded

\* A failure of the admission is released, or left to the sweep.
LEMMA PrepareFailsKeeps ==
  ASSUME Inv, PrepareFails
  PROVE  Inv'
  <1> USE DEF Inv
  <1>1. /\ TypeOK /\ cost \in Nat /\ pend \in Nat /\ spend \in Nat /\ billed \in Nat
        /\ funds \in Nat /\ faults \in Nat /\ ToolCost \in Nat /\ MaxFaults \in Nat
    BY Numbers
  <1>2. Fault
    BY DEF PrepareFails
  <1>3. faults' = faults + 1 /\ faults' \in 0..MaxFaults /\ faults' > 0 /\ faults' > faults
    BY <1>1, <1>2, Failure
  <1>4. /\ pc = "prepare" /\ mode' = "refused"
        /\ \/ pc' = "refund" /\ grant' = "none"
           \/ pc' = "over" /\ grant' = grant
        /\ UNCHANGED <<req, tools, usage, rows, cost, pend, id, status, spend, billed, side,
                       funds, waived, cut>>
    BY DEF PrepareFails, Goto, store
  <1> QED BY <1>1, <1>2, <1>3, <1>4
           DEF TypeOK, Places, Modes, EarlyInv, Early, MoneyInv, ChargeInv, Whole, PlaceInv, Served,
               Live, OverInv, BudgetMatchesRow, ToolsBilled, HoldGivenUp, EstimateSettled, Over, Counts, Recorded

-----------------------------------------------------------------------------
(* Settlement.                                                             *)

\* At the first settlement nothing is recorded yet.
LEMMA AtCommit ==
  ASSUME Inv, pc = "commit"
  PROVE  (id => status \in Live) /\ billed = 0 /\ spend = 0 /\ funds = 0 /\ pend <= cost
  <1>1. id => status \in Live
    BY DEF Inv, PlaceInv
  <1>2. billed = 0 /\ spend = 0 /\ funds = 0 /\ pend <= cost
    BY DEF Inv, MoneyInv
  <1> QED BY <1>1, <1>2

\* At the second, the first was rolled back or landed whole.
LEMMA AtAgain ==
  ASSUME Inv, pc = "again"
  PROVE  /\ mode = "success" /\ faults > 0 /\ pend = 0
         /\ billed = 0 \/ billed = 1
         /\ id => \/ status \in Live /\ billed = 0
                  \/ status = "settled" /\ billed = 1
         /\ spend = IF billed = 1 /\ Counts THEN cost ELSE 0
  <1>1. mode = "success" /\ faults > 0 /\ (id => status \in Live \cup {"settled"})
    BY DEF Inv, PlaceInv
  <1>2. /\ pend = 0 /\ (billed = 0 \/ billed = 1)
        /\ spend = IF billed = 1 /\ Counts THEN cost ELSE 0
        /\ id => (billed = 1 <=> status = "settled")
    BY DEF Inv, MoneyInv, Over
  <1> QED BY <1>1, <1>2 DEF Live

\* The first settlement lands, acknowledged or not.
LEMMA CommitLands ==
  ASSUME Inv, pc = "commit", Reconciled,
         UNCHANGED <<req, mode, tools, usage, rows, cost, grant, id, side, waived, cut>>,
         faults' \in 0..MaxFaults, faults' >= faults,
         pc' = "over" \/ (pc' = "again" /\ mode = "success" /\ faults' > 0)
  PROVE  Inv'
  <1> USE DEF Inv
  <1>1. /\ TypeOK /\ cost \in Nat /\ pend \in Nat /\ spend \in Nat /\ billed \in Nat
        /\ funds \in Nat /\ faults \in Nat /\ ToolCost \in Nat /\ MaxFaults \in Nat
    BY Numbers
  <1>2. (id => status \in Live) /\ billed = 0 /\ spend = 0 /\ funds = 0 /\ pend <= cost
    BY AtCommit
  <1>3. /\ funds' = pend /\ pend' = 0 /\ billed' = 1
        /\ status' = (IF id THEN "settled" ELSE status)
        /\ spend' = IF Counts THEN cost ELSE 0
    BY <1>1, <1>2 DEF Reconciled, Lands, Live, Spent
  <1> QED BY <1>1, <1>2, <1>3
           DEF TypeOK, Places, Modes, EarlyInv, Early, MoneyInv, ChargeInv, Whole, PlaceInv, Served,
               Live, OverInv, BudgetMatchesRow, ToolsBilled, HoldGivenUp, EstimateSettled, Over, Counts, Recorded

\* It is rolled back, and takes the charge along.
LEMMA CommitRollsBack ==
  ASSUME Inv, pc = "commit", RolledBack,
         UNCHANGED <<req, mode, tools, usage, rows, cost, grant, id, side, waived, cut>>,
         Fault, pc' = IF mode = "success" THEN "again" ELSE "over"
  PROVE  Inv'
  <1> USE DEF Inv
  <1>1. /\ TypeOK /\ cost \in Nat /\ pend \in Nat /\ spend \in Nat /\ billed \in Nat
        /\ funds \in Nat /\ faults \in Nat /\ ToolCost \in Nat /\ MaxFaults \in Nat
    BY Numbers
  <1>2. faults' = faults + 1 /\ faults' \in 0..MaxFaults /\ faults' > 0 /\ faults' > faults
    BY <1>1, Failure
  <1>3. (id => status \in Live) /\ billed = 0 /\ spend = 0 /\ funds = 0 /\ pend <= cost
    BY AtCommit
  <1>4. pend' = 0 /\ status' = status /\ spend' = 0 /\ billed' = 0 /\ funds' = 0
    BY <1>1, <1>3 DEF RolledBack
  <1> QED BY <1>1, <1>2, <1>3, <1>4
           DEF TypeOK, Places, Modes, EarlyInv, Early, MoneyInv, ChargeInv, Whole, PlaceInv, Served,
               Live, OverInv, BudgetMatchesRow, ToolsBilled, HoldGivenUp, EstimateSettled, Over, Counts, Recorded

\* The first settlement.
LEMMA CommitKeeps ==
  ASSUME Inv, Commit \/ CommitFails
  PROVE  Inv'
  <1>1. faults \in Nat /\ faults \in 0..MaxFaults /\ faults >= faults
    BY Numbers DEF Inv, TypeOK
  <1>2. Fault => faults' \in 0..MaxFaults /\ faults' >= faults /\ faults' > 0
    BY <1>1, Failure DEF Inv
  <1> QED BY <1>1, <1>2, CommitLands, CommitRollsBack DEF Commit, CommitFails, Fails, Goto

\* The second settlement lands: on a row the first one settled it does nothing.
LEMMA AgainLands ==
  ASSUME Inv, pc = "again", SettledAgain,
         UNCHANGED <<req, mode, tools, usage, rows, cost, grant, id, side, waived, cut>>,
         faults' \in 0..MaxFaults, faults' >= faults, pc' = "over"
  PROVE  Inv'
  <1> USE DEF Inv
  <1>1. /\ TypeOK /\ cost \in Nat /\ pend \in Nat /\ spend \in Nat /\ billed \in Nat
        /\ funds \in Nat /\ faults \in Nat /\ ToolCost \in Nat /\ MaxFaults \in Nat
    BY Numbers
  <1>2. /\ mode = "success" /\ faults > 0 /\ pend = 0
        /\ billed = 0 \/ billed = 1
        /\ id => \/ status \in Live /\ billed = 0
                 \/ status = "settled" /\ billed = 1
        /\ spend = IF billed = 1 /\ Counts THEN cost ELSE 0
    BY AtAgain
  <1>3. /\ funds' = funds /\ pend' = 0
        /\ \/ id /\ status' = "settled" /\ billed' = 1 /\ spend' = IF Counts THEN cost ELSE 0
           \/ /\ id /\ status' \in {"settled", "released", "expired"} /\ cost = 0
              /\ billed' = billed /\ spend' = spend /\ (status' = "settled" <=> billed = 1)
           \/ /\ ~ id /\ status' = status /\ billed' = billed + 1
              /\ spend' = IF Counts THEN spend + cost ELSE spend
           \/ ~ id /\ status' = status /\ cost = 0 /\ billed' = billed /\ spend' = spend
    BY <1>1, <1>2 DEF SettledAgain, Reconciled, Refunded, Lands, Live, Spent
  <1> QED BY <1>1, <1>2, <1>3
           DEF TypeOK, Places, Modes, EarlyInv, Early, MoneyInv, ChargeInv, Whole, PlaceInv, Served,
               Live, OverInv, BudgetMatchesRow, ToolsBilled, HoldGivenUp, EstimateSettled, Over, Counts, Recorded

\* The second settlement is rolled back: the hold is left to the sweep.
LEMMA AgainRollsBack ==
  ASSUME Inv, pc = "again", RolledBack,
         UNCHANGED <<req, mode, tools, usage, rows, cost, grant, id, side, waived, cut>>,
         Fault, pc' = "over"
  PROVE  Inv'
  <1> USE DEF Inv
  <1>1. /\ TypeOK /\ cost \in Nat /\ pend \in Nat /\ spend \in Nat /\ billed \in Nat
        /\ funds \in Nat /\ faults \in Nat /\ ToolCost \in Nat /\ MaxFaults \in Nat
    BY Numbers
  <1>2. faults' = faults + 1 /\ faults' \in 0..MaxFaults /\ faults' > 0 /\ faults' > faults
    BY <1>1, Failure
  <1>3. UNCHANGED <<status, spend, billed, funds>> /\ pend' = 0 /\ pend = 0
    BY DEF RolledBack, MoneyInv
  <1> QED BY <1>1, <1>2, <1>3
           DEF TypeOK, Places, Modes, EarlyInv, Early, MoneyInv, ChargeInv, Whole, PlaceInv, Served,
               Live, OverInv, BudgetMatchesRow, ToolsBilled, HoldGivenUp, EstimateSettled, Over, Counts, Recorded

\* The second settlement.
LEMMA AgainKeeps ==
  ASSUME Inv, Again \/ AgainFails
  PROVE  Inv'
  <1>1. faults \in Nat /\ faults \in 0..MaxFaults /\ faults >= faults
    BY Numbers DEF Inv, TypeOK
  <1>2. Fault => faults' \in 0..MaxFaults /\ faults' >= faults /\ faults' > 0
    BY <1>1, Failure DEF Inv
  <1> QED BY <1>1, <1>2, AgainLands, AgainRollsBack DEF Again, AgainFails, Fails, Goto

\* A release lands, and the request is over.
LEMMA RefundLands ==
  ASSUME Inv, pc = "refund", Refunded,
         UNCHANGED <<req, mode, tools, usage, rows, cost, grant, id, side, waived, cut>>,
         faults' \in 0..MaxFaults, faults' >= faults, pc' = "over"
  PROVE  Inv'
  <1> USE DEF Inv
  <1>1. /\ TypeOK /\ cost \in Nat /\ pend \in Nat /\ spend \in Nat /\ billed \in Nat
        /\ funds \in Nat /\ faults \in Nat /\ ToolCost \in Nat /\ MaxFaults \in Nat
    BY Numbers
  <1>2. cost = 0 /\ pend = 0
    BY DEF PlaceInv, MoneyInv
  <1>3. UNCHANGED <<spend, billed>> /\ funds' = funds /\ pend' = 0
    BY <1>1, <1>2 DEF Refunded, Lands
  <1>4. status' = IF id /\ status = "active" THEN "released" ELSE status
    BY DEF Refunded
  <1> QED BY <1>1, <1>2, <1>3, <1>4
           DEF TypeOK, Places, Modes, EarlyInv, Early, MoneyInv, ChargeInv, Whole, PlaceInv, Served,
               Live, OverInv, BudgetMatchesRow, ToolsBilled, HoldGivenUp, EstimateSettled, Over, Counts, Recorded

\* A release is rolled back.
LEMMA RefundRollsBack ==
  ASSUME Inv, pc = "refund", RolledBack,
         UNCHANGED <<req, mode, tools, usage, rows, cost, grant, id, side, waived, cut>>,
         Fault, pc' = "over"
  PROVE  Inv'
  <1> USE DEF Inv
  <1>1. /\ TypeOK /\ cost \in Nat /\ pend \in Nat /\ spend \in Nat /\ billed \in Nat
        /\ funds \in Nat /\ faults \in Nat /\ ToolCost \in Nat /\ MaxFaults \in Nat
    BY Numbers
  <1>2. faults' = faults + 1 /\ faults' \in 0..MaxFaults /\ faults' > 0 /\ faults' > faults
    BY <1>1, Failure
  <1>3. UNCHANGED <<status, spend, billed, funds>> /\ pend' = 0 /\ pend = 0
    BY DEF RolledBack, MoneyInv
  <1> QED BY <1>1, <1>2, <1>3
           DEF TypeOK, Places, Modes, EarlyInv, Early, MoneyInv, ChargeInv, Whole, PlaceInv, Served,
               Live, OverInv, BudgetMatchesRow, ToolsBilled, HoldGivenUp, EstimateSettled, Over, Counts, Recorded

\* The release.
LEMMA RefundKeeps ==
  ASSUME Inv, Refund \/ RefundFails
  PROVE  Inv'
  <1>1. faults \in Nat /\ faults \in 0..MaxFaults /\ faults >= faults
    BY Numbers DEF Inv, TypeOK
  <1>2. Fault => faults' \in 0..MaxFaults /\ faults' >= faults /\ faults' > 0
    BY <1>1, Failure DEF Inv
  <1>3. CASE Refund
    BY <1>1, <1>3, RefundLands DEF Refund, Goto
  <1>4. CASE RefundFails
    BY <1>2, <1>4, RefundLands, RefundRollsBack DEF RefundFails, Fails, Goto
  <1> QED BY <1>3, <1>4

\* The row of an exhausted plan fails: a plain failure is logged instead.
LEMMA PlanFails ==
  ASSUME Inv, pc = "record", Fault, pc' = "record", mode' = "failed", grant' = "none",
         UNCHANGED <<req, tools, usage, rows, cost, pend, id, status, spend, billed, side, funds,
                      waived, cut>>
  PROVE  Inv'
  <1> USE DEF Inv
  <1>1. /\ TypeOK /\ cost \in Nat /\ pend \in Nat /\ spend \in Nat /\ billed \in Nat
        /\ funds \in Nat /\ faults \in Nat /\ ToolCost \in Nat /\ MaxFaults \in Nat
    BY Numbers
  <1>2. faults' = faults + 1 /\ faults' \in 0..MaxFaults /\ faults' > 0 /\ faults' > faults
    BY <1>1, Failure
  <1> QED BY <1>1, <1>2
           DEF TypeOK, Places, Modes, EarlyInv, Early, MoneyInv, ChargeInv, Whole, PlaceInv, Served,
               Live, OverInv, BudgetMatchesRow, ToolsBilled, HoldGivenUp, EstimateSettled, Over, Counts, Recorded

\* The row of any other ending fails.
LEMMA RowFails ==
  ASSUME Inv, pc = "record", Fault, mode' = mode, grant' = grant,
         UNCHANGED <<req, tools, usage, rows, cost, pend, id, status, spend, billed, side, funds,
                      waived, cut>>,
         \/ pc' = "again" /\ mode = "success"
         \/ pc' = "refund" /\ mode = "no_usage"
         \/ pc' = "over" /\ mode # "success"
  PROVE  Inv'
  <1> USE DEF Inv
  <1>1. /\ TypeOK /\ cost \in Nat /\ pend \in Nat /\ spend \in Nat /\ billed \in Nat
        /\ funds \in Nat /\ faults \in Nat /\ ToolCost \in Nat /\ MaxFaults \in Nat
    BY Numbers
  <1>2. faults' = faults + 1 /\ faults' \in 0..MaxFaults /\ faults' > 0 /\ faults' > faults
    BY <1>1, Failure
  <1> QED BY <1>1, <1>2
           DEF TypeOK, Places, Modes, EarlyInv, Early, MoneyInv, ChargeInv, Whole, PlaceInv, Served,
               Live, OverInv, BudgetMatchesRow, ToolsBilled, HoldGivenUp, EstimateSettled, Over, Counts, Recorded

\* A failure before the row is put.
LEMMA RecordFailsKeeps ==
  ASSUME Inv, RecordFails
  PROVE  Inv'
  <1>1. CASE mode = "exhausted"
    BY <1>1, PlanFails DEF RecordFails, Settle, Goto, store
  <1>2. CASE mode # "exhausted"
    BY <1>2, RowFails DEF RecordFails, Goto, store
  <1> QED BY <1>1, <1>2

\* The parts of the row's cost.
LEMMA Parts ==
  ASSUME TypeOK
  PROVE  /\ ModelPart \in Nat /\ (mode = "exhausted" => ModelPart = 0)
         /\ ToolPart \in Nat /\ (tools => ToolPart = ToolCost) /\ (~ tools => ToolPart = 0)
         /\ (Unlogged => ModelPart = 0 /\ ToolPart = 0)
  <1>1. /\ req.flat \in BOOLEAN /\ req.policy \in {"estimate", "allow_free"}
        /\ tools \in BOOLEAN /\ usage \in BOOLEAN
    BY DEF TypeOK, Kinds
  <1>2. ModelCost \in Nat /\ Partial \in Nat /\ Held \in Nat /\ ToolCost \in Nat
    BY CostAssumption DEF Held
  <1>3. ModelPart \in Nat
    BY <1>1, <1>2 DEF ModelPart
  <1>4. mode = "exhausted" => ModelPart = 0
    BY DEF ModelPart
  <1>5. ToolPart \in Nat /\ (tools => ToolPart = ToolCost) /\ (~ tools => ToolPart = 0)
    BY <1>1, <1>2 DEF ToolPart
  <1>6. Unlogged => ModelPart = 0 /\ ToolPart = 0
    BY <1>1 DEF Unlogged, ModelPart, ToolPart
  <1> QED BY <1>3, <1>4, <1>5, <1>6

\* The organization's share is at most the whole, and all of it when both are paid.
LEMMA ShareBound ==
  ASSUME NEW m \in Nat, NEW t \in Nat, mode = "exhausted" => m = 0
  PROVE  /\ Share(m, t) \in Nat /\ Share(m, t) <= m + t
         /\ req.paid /\ req.toolPaid => Share(m, t) = m + t
  BY DEF Share

\* What the row costs and what is charged for it.
LEMMA RecordMoney ==
  ASSUME Inv, Record
  PROVE  /\ cost' \in Nat /\ pend' \in Nat /\ pend' <= cost' /\ waived' \in BOOLEAN
         /\ faults' \in 0..MaxFaults /\ faults' >= faults
         /\ (cost' > 0 => rows' = 1) /\ rows' \in 0..1
         /\ (faults' = 0 /\ tools => cost' >= ToolCost)
         /\ (faults' = 0 /\ req.paid /\ req.toolPaid => pend' = cost')
  <1>1. /\ TypeOK /\ faults \in Nat /\ ToolCost \in Nat
        /\ pc = "record" /\ rows = 0 /\ pend = 0
    BY Numbers DEF Inv, Record, EarlyInv, MoneyInv
  <1>2. PICK priced, charged \in BOOLEAN :
          LET tool == IF priced THEN ToolPart ELSE 0 IN
          /\ IF priced /\ charged THEN UNCHANGED faults ELSE Fault
          /\ cost' = ModelPart + tool
          /\ pend' = IF charged THEN pend + Share(ModelPart, tool) ELSE pend
          /\ waived' = ~charged
    BY DEF Record
  <1> DEFINE tool == IF priced THEN ToolPart ELSE 0
  <1>3. /\ ModelPart \in Nat /\ (mode = "exhausted" => ModelPart = 0)
        /\ tool \in Nat /\ (Unlogged => ModelPart = 0 /\ tool = 0)
        /\ priced /\ tools => tool = ToolCost
    BY <1>1, Parts
  <1>4. /\ Share(ModelPart, tool) \in Nat /\ Share(ModelPart, tool) <= ModelPart + tool
        /\ req.paid /\ req.toolPaid => Share(ModelPart, tool) = ModelPart + tool
    BY <1>3, ShareBound
  <1>5. /\ cost' = ModelPart + tool
        /\ pend' = IF charged THEN Share(ModelPart, tool) ELSE 0
        /\ waived' \in BOOLEAN
    BY <1>1, <1>2, <1>4
  <1>6. /\ faults' \in 0..MaxFaults /\ faults' >= faults
        /\ faults' = 0 => priced /\ charged
    <2>1. CASE priced /\ charged
      BY <2>1, <1>1, <1>2 DEF TypeOK
    <2>2. CASE ~ (priced /\ charged)
      BY <2>2, <1>1, <1>2, Failure
    <2> QED BY <2>1, <2>2
  <1>7. rows' \in 0..1 /\ (~ Unlogged => rows' = 1)
    BY <1>1 DEF Record
  <1> HIDE DEF tool
  <1> QED BY <1>1, <1>3, <1>4, <1>5, <1>6, <1>7

\* The row is put and the charge waits.
LEMMA RecordKeeps ==
  ASSUME Inv, Record
  PROVE  Inv'
  <1> USE DEF Inv
  <1>1. /\ cost' \in Nat /\ pend' \in Nat /\ pend' <= cost' /\ waived' \in BOOLEAN
        /\ faults' \in 0..MaxFaults /\ faults' >= faults
        /\ (cost' > 0 => rows' = 1) /\ rows' \in 0..1
        /\ (faults' = 0 /\ tools => cost' >= ToolCost)
        /\ (faults' = 0 /\ req.paid /\ req.toolPaid => pend' = cost')
    BY RecordMoney
  <1>2. /\ TypeOK /\ faults \in Nat /\ spend \in Nat /\ ToolCost \in Nat /\ ToolCost > 0
        /\ MaxFaults \in Nat
    BY Numbers
  <1>3. /\ pc = "record" /\ UNCHANGED <<req, mode, tools, usage, id, status, spend, billed,
                                        side, funds, cut>>
        /\ pc' \in {"commit", "refund"}
        /\ pc' = "refund" => mode # "success" /\ ~ (cost' > 0)
        /\ grant' = IF mode = "exhausted" THEN "none" ELSE grant
    BY DEF Record, Goto, NeedsSpend, store
  <1>4. billed = 0 /\ funds = 0 /\ spend = 0
    BY <1>3 DEF EarlyInv, MoneyInv
  <1>5. pc' = "refund" => pend' = 0 /\ cost' = 0 /\ mode # "success" /\ (faults' = 0 => ~ tools)
    BY <1>1, <1>2, <1>3
  <1>6. TypeOK'
    BY <1>1, <1>2, <1>3 DEF TypeOK, Places, Modes
  <1>7. EarlyInv'
    BY <1>3 DEF EarlyInv, Early
  <1>8. MoneyInv'
    BY <1>1, <1>2, <1>3, <1>4, <1>5 DEF MoneyInv, Over, Counts, Recorded
  <1>9. ChargeInv'
    BY <1>1, <1>2, <1>3, <1>4, <1>5 DEF ChargeInv, Whole, Counts, Recorded
  <1>10. PlaceInv'
    BY <1>1, <1>2, <1>3, <1>5 DEF PlaceInv, Early, Served, Live
  <1>11. OverInv'
    BY <1>3 DEF OverInv, Over
  <1> QED BY <1>6, <1>7, <1>8, <1>9, <1>10, <1>11

-----------------------------------------------------------------------------
(* The theorems.                                                           *)

\* The invariant holds at first, and every step keeps it.
LEMMA InvInit == Init => Inv
  <1> SUFFICES ASSUME Init PROVE Inv
    OBVIOUS
  <1> USE DEF Init
  <1>1. TypeOK
    <2>1. faults \in 0..MaxFaults
      BY CostAssumption
    <2>2. req \in Kinds /\ pc \in Places /\ mode \in Modes
      BY DEF Places, Modes
    <2>3. {tools, usage, id, waived, cut} \subseteq BOOLEAN
      BY Zenon
    <2>4. {cost, pend, spend, billed, side, funds} \subseteq Nat
      OBVIOUS
    <2> QED BY <2>1, <2>2, <2>3, <2>4 DEF TypeOK
  <1>2. EarlyInv /\ MoneyInv
    BY DEF EarlyInv, MoneyInv, Early, Over, Recorded
  <1>3. ChargeInv /\ PlaceInv /\ OverInv
    BY DEF ChargeInv, Counts, Recorded, Whole, PlaceInv, Early, OverInv, Over
  <1> QED BY <1>1, <1>2, <1>3 DEF Inv

\* Nothing changes.
LEMMA StutterKeeps ==
  ASSUME Inv, UNCHANGED vars
  PROVE  Inv'
  BY DEF Inv, vars, TypeOK, EarlyInv, MoneyInv, ChargeInv, Whole, PlaceInv, OverInv, Over,
         BudgetMatchesRow, ToolsBilled, HoldGivenUp, EstimateSettled, Counts, Recorded, Live

\* Every step of the request, the sweep or a failure keeps the invariant.
LEMMA InvStep == Inv /\ [Next]_vars => Inv'
  BY StutterKeeps, ReserveKeeps, EarlyKeeps, PrepareFailsKeeps, RecordKeeps, RecordFailsKeeps,
     CommitKeeps, AgainKeeps, RefundKeeps
  DEF Next, Request

\* So it holds in every state.
LEMMA InvAlways == Spec => []Inv
  BY InvInit, InvStep, PTL DEF Spec

\* Every variable keeps its type.
THEOREM TypeCorrect == Spec => []TypeOK
  <1>1. Inv => TypeOK
    BY DEF Inv
  <1> QED BY <1>1, InvAlways, PTL

\* For any prices and any number of failures, the budget records the row's cost or
\* nothing; it records it whenever no more failed than the code makes good; tools
\* that ran are billed however the request ended; and only a request without a
\* ledger row, after a failure, can have its cost recorded twice, never more.
THEOREM SpendCorrect == Spec => []SpendTrue
  <1>1. ASSUME Inv PROVE SpendTrue
    <2>1. /\ spend \in {0, cost} \cup IF ~id /\ faults > 0 THEN {2 * cost} ELSE {}
          /\ spend > 0 => rows = 1 /\ Counts
      <3>1. cost \in Nat /\ billed \in 0..2
        BY <1>1, Numbers DEF Inv, MoneyInv
      <3>2. billed = 2 => ~id /\ faults > 0
        BY <1>1 DEF Inv, MoneyInv
      <3>3. /\ spend = IF billed = 0 \/ ~ Counts THEN 0 ELSE IF billed = 1 THEN cost ELSE 2 * cost
            /\ cost > 0 => rows = 1
        BY <1>1 DEF Inv, MoneyInv
      <3> QED BY <3>1, <3>2, <3>3
    <2>2. BudgetMatchesRow /\ ToolsBilled
      BY <1>1 DEF Inv, OverInv, BudgetMatchesRow, ToolsBilled
    <2> QED BY <2>1, <2>2 DEF SpendTrue, SpendBacked
  <1> QED BY <1>1, InvAlways, PTL

\* The organization is never charged more than the usage row says, nor, unless the
\* key is exempt, more than the budget recorded; without failures it is charged all
\* the deployment paid (charge_deployment_paid in its savepoint).
THEOREM FundsCorrect == Spec => []FundsBacked
  <1>1. ASSUME Inv PROVE FundsBacked
    <2>1. funds <= cost /\ funds <= Recorded /\ (pc = "over" => pc # "commit")
      BY <1>1 DEF Inv, MoneyInv
    <2>2. Over /\ Whole /\ (Counts \/ ~cut) => funds = Recorded
      BY <1>1, <2>1 DEF Inv, ChargeInv, Over
    <2> QED BY <2>1, <2>2 DEF FundsBacked, Whole
  <1> QED BY <1>1, InvAlways, PTL

\* A request that is over keeps its hold or its token estimate only when more
\* failed, or was cut off, than the code makes good.
THEOREM LetGoCorrect == Spec => []LetGo
  <1>1. ASSUME Inv PROVE LetGo
    BY <1>1 DEF Inv, OverInv, HoldGivenUp, EstimateSettled, LetGo
  <1> QED BY <1>1, InvAlways, PTL

-----------------------------------------------------------------------------
(* The refinement.                                                         *)

\* What a step may do to the ledger row, who knows it, and the bill.
RowStep ==
  \/ UNCHANGED <<id, status, billed>>
  \/ ~id /\ id' \in BOOLEAN /\ status = "none" /\ status' = "active" /\ billed = 0 /\ billed' = 0
  \/ id /\ id' = id /\ status \in Live /\ status' = "settled" /\ billed = 0 /\ billed' = 1
  \/ /\ ~id /\ id' = id /\ status' = status /\ billed' = billed + 1
     /\ billed = 0 \/ (billed = 1 /\ MaxFaults > 0)
  \/ id /\ id' = id /\ status = "active" /\ status' = "released" /\ billed' = billed
  \/ id' = id /\ status = "active" /\ status' = "expired" /\ billed' = billed
  \/ /\ id' = id /\ billed' = billed
     /\ status \in {"settled", "released", "expired"} /\ status' = "none"

\* A row that is known and not settled was not billed, and what was not known was
\* billed a second time only after a failure.
LEMMA Unbilled ==
  ASSUME Inv, pc \in {"commit", "again"}
  PROVE  /\ id /\ status \in Live => billed = 0
         /\ billed = 0 \/ (billed = 1 /\ MaxFaults > 0)
  <1>1. id /\ status \in Live => billed = 0
    BY DEF Inv, MoneyInv, Live
  <1>2. CASE pc = "commit"
    BY <1>1, <1>2, AtCommit
  <1>3. CASE pc = "again"
    <2>1. faults > 0 /\ (billed = 0 \/ billed = 1)
      BY <1>3, AtAgain
    <2>2. faults \in 0..MaxFaults /\ MaxFaults \in Nat
      BY CostAssumption DEF Inv, TypeOK
    <2> QED BY <1>1, <2>1, <2>2
  <1> QED BY <1>2, <1>3

\* A settlement bills a row that was not billed; a release ends an active one.
LEMMA CommitRow ==
  ASSUME Inv, UNCHANGED id,
         (Reconciled /\ pc \in {"commit", "again"}) \/ Refunded \/ RolledBack
  PROVE  RowStep
  <1>1. CASE Reconciled /\ pc \in {"commit", "again"}
    <2>1. /\ id /\ status \in Live => billed = 0
          /\ billed = 0 \/ (billed = 1 /\ MaxFaults > 0)
      BY <1>1, Unbilled
    <2>2. CASE id
      BY <1>1, <2>1, <2>2 DEF Reconciled, RowStep, Live
    <2>3. CASE ~id
      BY <1>1, <2>1, <2>3 DEF Reconciled, RowStep
    <2> QED BY <2>2, <2>3
  <1>2. CASE Refunded
    <2>1. UNCHANGED <<spend, billed>>
      BY <1>2 DEF Refunded
    <2>2. (id /\ status = "active" /\ status' = "released") \/ status' = status
      BY <1>2 DEF Refunded
    <2> QED BY <2>1, <2>2 DEF RowStep
  <1>3. CASE RolledBack
    BY <1>3 DEF RolledBack, RowStep
  <1> QED BY <1>1, <1>2, <1>3

\* Every step does one of these.
LEMMA StepRow ==
  ASSUME Inv, [Next]_vars
  PROVE  RowStep
  <1> USE DEF RowStep
  <1>1. CASE UNCHANGED vars
    BY <1>1 DEF vars
  <1>2. CASE Reserve
    <2>1. pc = "new" /\ ~id /\ status = "none" /\ billed = 0 /\ UNCHANGED billed
      BY <1>2 DEF Reserve, Inv, EarlyInv, Early
    <2>2. \/ UNCHANGED <<id, status>>
          \/ id' = TRUE /\ status' = "active"
          \/ UNCHANGED id /\ status' \in {"none", "active"}
      BY <1>2 DEF Reserve
    <2>3. id \in BOOLEAN /\ id' \in BOOLEAN
      BY <2>2 DEF Inv, TypeOK
    <2>4. UNCHANGED <<id, status>> \/ status' = "active"
      BY <2>1, <2>2
    <2>5. CASE UNCHANGED <<id, status>>
      BY <2>1, <2>5
    <2>6. CASE status' = "active"
      BY <2>1, <2>3, <2>6
    <2> QED BY <2>4, <2>5, <2>6
  <1>3. CASE \/ SetUp \/ RefuseSetup \/ Prepare \/ RefusePrepare \/ PrepareFails \/ RunTools
             \/ Answer \/ OpenStream \/ DispatchRefused \/ DispatchFails \/ ReportUsage
             \/ EndStream \/ BreakStream \/ LeaveStream \/ Record \/ RecordFails \/ CutOff
    <2>1. UNCHANGED store
      BY <1>3 DEF SetUp, RefuseSetup, Prepare, RefusePrepare, PrepareFails, RunTools, Answer,
                  OpenStream, DispatchRefused, DispatchFails, ReportUsage, EndStream,
                  BreakStream, LeaveStream, Record, RecordFails, CutOff
    <2> QED BY <2>1 DEF store
  <1>4. CASE DescribeImage
    BY <1>4 DEF DescribeImage
  <1>5. CASE Commit \/ CommitFails \/ Again \/ AgainFails \/ Refund \/ RefundFails
    <2>1. /\ UNCHANGED id
          /\ (Reconciled /\ pc \in {"commit", "again"}) \/ Refunded \/ RolledBack
      BY <1>5 DEF Commit, CommitFails, Again, AgainFails, Refund, RefundFails, Fails,
                  SettledAgain
    <2> HIDE DEF RowStep
    <2> QED BY <2>1, CommitRow
  <1>6. CASE Sweep
    BY <1>6 DEF Sweep
  <1>7. CASE Prune
    BY <1>7 DEF Prune
  <1>8. CASE HoldFallback
    BY <1>8 DEF HoldFallback, Inv, EarlyInv, Early
  <1> HIDE DEF RowStep
  <1> QED BY <1>1, <1>2, <1>3, <1>4, <1>5, <1>6, <1>7, <1>8 DEF Next, Request

\* And each of these is a step of Settlement, or none.
LEMMA RowRefines ==
  ASSUME RowStep, id \in BOOLEAN
  PROVE  [Promise!Next]_Promise!vars
  <1>1. CASE UNCHANGED <<id, status, billed>>
    BY <1>1 DEF Promise!vars
  <1>2. CASE /\ ~id /\ id' \in BOOLEAN /\ status = "none" /\ status' = "active"
             /\ billed = 0 /\ billed' = 0
    <2>1. Promise!Open("request")
      BY <1>2 DEF Promise!Open, Promise!Turn
    <2> QED BY <2>1 DEF Promise!Next
  <1>3. CASE id /\ id' = id /\ status \in Live /\ status' = "settled" /\ billed = 0 /\ billed' = 1
    <2>1. Promise!Bill("request")
      BY <1>3 DEF Promise!Bill, Promise!Turn, Live
    <2> QED BY <2>1 DEF Promise!Next
  <1>4. CASE /\ ~id /\ id' = id /\ status' = status /\ billed' = billed + 1
             /\ billed = 0 \/ (billed = 1 /\ MaxFaults > 0)
    <2>1. Promise!BillUnledgered("request")
      BY <1>4 DEF Promise!BillUnledgered
    <2> QED BY <2>1 DEF Promise!Next
  <1>5. CASE id /\ id' = id /\ status = "active" /\ status' = "released" /\ billed' = billed
    <2>1. Promise!Release("request")
      BY <1>5 DEF Promise!Release, Promise!Turn
    <2> QED BY <2>1 DEF Promise!Next
  <1>6. CASE id' = id /\ status = "active" /\ status' = "expired" /\ billed' = billed
    <2>1. Promise!Expire("request")
      BY <1>6 DEF Promise!Expire, Promise!Turn
    <2> QED BY <2>1 DEF Promise!Next
  <1>7. CASE /\ id' = id /\ billed' = billed
             /\ status \in {"settled", "released", "expired"} /\ status' = "none"
    <2>1. Promise!Prune({"request"})
      BY <1>7 DEF Promise!Prune, Promise!Ended
    <2> QED BY <2>1 DEF Promise!Next
  <1> QED BY <1>1, <1>2, <1>3, <1>4, <1>5, <1>6, <1>7 DEF RowStep

\* The endings of a request, with every retry, late settlement and commit that lied,
\* keep the promise of Settlement: a hold the request knows is given up once and its
\* use recorded at most once, never after a release; without a known row the use is
\* recorded at most twice, and twice only when commits may misreport.
THEOREM PipelineImplements == Spec => ImplementsSettlement
  <1>1. Init => Promise!Init
    BY DEF Init, Promise!Init
  <1>2. Inv /\ [Next]_vars => [Promise!Next]_Promise!vars
    <2> SUFFICES ASSUME Inv, [Next]_vars PROVE [Promise!Next]_Promise!vars
      OBVIOUS
    <2>1. id \in BOOLEAN
      BY DEF Inv, TypeOK
    <2> QED BY <2>1, StepRow, RowRefines
  <1> QED BY <1>1, <1>2, InvAlways, PTL DEF Spec, ImplementsSettlement, Promise!Spec
=============================================================================
