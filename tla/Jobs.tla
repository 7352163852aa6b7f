-------------------------------- MODULE Jobs --------------------------------
(***************************************************************************)
(* Work the provider finishes later: batches (api/routes/batches) and       *)
(* videos (api/routes/videos, services/inference/_videos). A job is created, *)
(* recorded, read by any number of clients at once, and billed by the first  *)
(* read that finds it done.                                                 *)
(*                                                                         *)
(* A handler is one HTTP request. Its steps are its database transactions   *)
(* and its calls to the provider; what it read before one of them it still   *)
(* uses after it.                                                           *)
(***************************************************************************)
EXTENDS Naturals

CONSTANTS
  Jobs,
  Handlers,     \* requests served at a time
  Nobody,
  MaxFaults,    \* bound: failed commits, failed charges and crashes
  MaxReprices   \* bound: changes of the price list

ASSUME JobAssumption ==
  /\ Nobody \notin Jobs \cup Handlers
  /\ MaxFaults \in Nat /\ MaxReprices \in Nat

VARIABLES
  kind,      \* what does not change of a job: see Kinds
  upstream,  \* the job at the provider
  rec,       \* its record: kept, done (completed_at), accounted (accounted_at)
  lock,      \* who holds the record's row lock
  priced,    \* the price list has a rate for its model
  rows,      \* usage rows written under a claim
  dropped,   \* jobs whose last usage row the log writer was given and lost
  spend,     \* how often its cost was folded into the owner's spend
  funds,     \* how often it was charged to the organization
  h,         \* the handlers: see Handling
  served,    \* jobs whose result was handed out by a read that found a rate
  waived,    \* jobs whose charge to the organization failed
  faults, reprices

store   == <<rec, lock, rows, dropped, spend, funds, waived>>
vars == <<kind, upstream, rec, lock, priced, rows, dropped, spend, funds, h, served, waived,
          faults, reprices>>

\* exempt: of a key excluded from budgets. metered: the provider, or the request,
\* tells the length (a video) or the tokens (a batch). paid: on the deployment's
\* own credential.
Kinds == [batch : BOOLEAN, exempt : BOOLEAN, metered : BOOLEAN, paid : BOOLEAN]

Record == [kept : BOOLEAN, done : BOOLEAN, accounted : BOOLEAN]
Blank  == [kept |-> FALSE, done |-> FALSE, accounted |-> FALSE]
Places == {"idle", "keep", "keep done", "keep again", "keep done again", "find",
           "ask", "remember", "price", "claim", "log", "fold"}

\* at: its next step. seen: the record as it read it. owes: it found a cost.
Handling == [at : Places, job : Jobs \cup {Nobody}, seen : Record, owes : BOOLEAN]
Idle     == [at |-> "idle", job |-> Nobody, seen |-> Blank, owes |-> FALSE]

Batch(j) == kind[j].batch

Init ==
  /\ kind \in [Jobs -> Kinds]
  /\ upstream = [j \in Jobs |-> "none"]
  /\ rec = [j \in Jobs |-> Blank]
  /\ lock = [j \in Jobs |-> Nobody]
  /\ priced \in [Jobs -> BOOLEAN]
  /\ rows = [j \in Jobs |-> 0] /\ spend = [j \in Jobs |-> 0] /\ funds = [j \in Jobs |-> 0]
  /\ h = [c \in Handlers |-> Idle]
  /\ served = {} /\ waived = {} /\ dropped = {} /\ faults = 0 /\ reprices = 0

At(c, where) == h[c].at = where
On(c) == h[c].job
Goto(c, where) == h' = [h EXCEPT ![c].at = where]
Answer(c) == h' = [h EXCEPT ![c] = Idle]
Start(c, j, where, record) ==
  h' = [h EXCEPT ![c] = [at |-> where, job |-> j, seen |-> record, owes |-> FALSE]]
Fault == faults < MaxFaults /\ faults' = faults + 1

-----------------------------------------------------------------------------
(* Creation: the provider accepts the job, then its record is kept.         *)

\* A video's model needs a rate (refuse_unpriced); some providers render it in
\* the call itself.
Create(c, j) ==
  /\ At(c, "idle") /\ upstream[j] = "none"
  /\ Batch(j) \/ priced[j]
  /\ \/ upstream' = [upstream EXCEPT ![j] = "running"] /\ Start(c, j, "keep", Blank)
     \/ /\ ~ Batch(j)
        /\ upstream' = [upstream EXCEPT ![j] = "done"] /\ Start(c, j, "keep done", Blank)
  /\ UNCHANGED <<kind, store, priced, served, faults, reprices>>

\* record_batch, VideoJobService.record. A video the provider handed back completed
\* is billed before the answer.
Keep(c) ==
  /\ h[c].at \in {"keep", "keep done", "keep again", "keep done again"}
  /\ ~ rec[On(c)].kept
  /\ rec' = [rec EXCEPT ![On(c)].kept = TRUE]
  /\ \/ h[c].at \in {"keep", "keep again"} /\ Answer(c)
     \/ h[c].at \in {"keep done", "keep done again"} /\ Goto(c, "find")
  /\ UNCHANGED <<kind, upstream, lock, priced, rows, dropped, spend, funds, served,
                 waived, faults, reprices>>

\* A batch goes on without its record; a video's is tried once more.
KeepFails(c) ==
  /\ h[c].at \in {"keep", "keep done", "keep again", "keep done again"}
  /\ Fault
  /\ \/ rec' = rec
     \/ rec' = [rec EXCEPT ![On(c)].kept = TRUE]
  /\ \/ Batch(On(c)) /\ Answer(c)
     \/ ~ Batch(On(c)) /\ At(c, "keep") /\ Goto(c, "keep again")
     \/ ~ Batch(On(c)) /\ At(c, "keep done") /\ Goto(c, "keep done again")
     \/ h[c].at \in {"keep again", "keep done again"} /\ Answer(c)
  /\ UNCHANGED <<kind, upstream, lock, priced, rows, dropped, spend, funds, served,
                 waived, reprices>>

\* The first write had landed: the second meets its own row, and raises.
KeepTwice(c) ==
  /\ h[c].at \in {"keep again", "keep done again"} /\ rec[On(c)].kept
  /\ Answer(c)
  /\ UNCHANGED <<kind, upstream, store, priced, served, faults, reprices>>

\* The record is read back, to be billed at once.
Find(c) ==
  /\ At(c, "find")
  /\ Start(c, On(c), "remember", rec[On(c)])
  /\ UNCHANGED <<kind, upstream, store, priced, served, faults, reprices>>

-----------------------------------------------------------------------------
(* Reading a job.                                                          *)

\* A video without a record is not found; a batch without one is served on its
\* metadata.
Retrieve(c, j) ==
  /\ At(c, "idle") /\ upstream[j] # "none"
  /\ Batch(j) \/ rec[j].kept
  /\ Start(c, j, "ask", rec[j])
  /\ UNCHANGED <<kind, upstream, store, priced, served, faults, reprices>>

\* Completed: a video already accounted is answered, a batch is priced anyway.
Completed(c) ==
  IF ~ Batch(On(c)) /\ h[c].seen.accounted
  THEN Answer(c) /\ served' = served \cup {On(c)}
  ELSE Goto(c, "price") /\ UNCHANGED served

Remembered(c) == ~ Batch(On(c)) /\ h[c].seen.done

\* The record's answer (VideoJobService.remembered), or the provider's. One that
\* is not done is reported as such (409 for a batch); the call may also fail.
Ask(c) ==
  /\ At(c, "ask")
  /\ \/ Remembered(c) /\ Completed(c)
     \/ /\ ~ Remembered(c)
        /\ upstream[On(c)] = "done"
        /\ Goto(c, IF Batch(On(c)) THEN "price" ELSE "remember")
        /\ UNCHANGED served
     \/ ~ Remembered(c) /\ Answer(c) /\ UNCHANGED served
  /\ UNCHANGED <<kind, upstream, store, priced, faults, reprices>>

\* remember_completed, in a transaction of its own.
Remember(c) ==
  /\ At(c, "remember") /\ lock[On(c)] = Nobody
  /\ rec' = [rec EXCEPT ![On(c)].done = TRUE]
  /\ Completed(c)
  /\ UNCHANGED <<kind, upstream, lock, priced, rows, dropped, spend, funds, waived,
                 faults, reprices>>

RememberFails(c) ==
  /\ At(c, "remember") /\ lock[On(c)] = Nobody
  /\ Fault
  /\ \/ rec' = rec
     \/ rec' = [rec EXCEPT ![On(c)].done = TRUE]
  /\ Answer(c)
  /\ UNCHANGED <<kind, upstream, lock, priced, rows, dropped, spend, funds, served,
                 waived, reprices>>

-----------------------------------------------------------------------------
(* Billing it once.                                                        *)

\* There is something to price and no rate: left unclaimed for a later read. An
\* exempt batch has nothing to wait for; an exempt video waits.
Deferred(j) == /\ kind[j].metered /\ ~ priced[j]
               /\ ~ (Batch(j) /\ kind[j].exempt)

Unrecorded(c) == Batch(On(c)) /\ ~ h[c].seen.kept

\* A batch without a record is logged at every read, and never folded.
Price(c) ==
  /\ At(c, "price")
  /\ \/ Unrecorded(c) /\ Goto(c, "log")
     \/ ~ Unrecorded(c) /\ Deferred(On(c)) /\ Answer(c)
     \/ /\ ~ Unrecorded(c) /\ ~ Deferred(On(c))
        /\ h' = [h EXCEPT ![c].at = "claim",
                          ![c].owes = kind[On(c)].metered /\ priced[On(c)]]
  /\ UNCHANGED <<kind, upstream, store, priced, served, faults, reprices>>

\* Mutant of Claim: it trusts the record read before the provider was asked.
ClaimStale(c) ==
  /\ At(c, "claim") /\ lock[On(c)] = Nobody
  /\ IF h[c].seen.accounted
     THEN Answer(c) /\ served' = served \cup {On(c)} /\ UNCHANGED lock
     ELSE /\ lock' = [lock EXCEPT ![On(c)] = c]
          /\ Goto(c, IF Batch(On(c)) THEN "log" ELSE "fold")
          /\ UNCHANGED served
  /\ UNCHANGED <<kind, upstream, rec, priced, rows, dropped, spend, funds, waived,
                 faults, reprices>>

\* Mutant of Claim: it skips a locked row instead of waiting for its holder.
ClaimSkipLocked(c) ==
  /\ At(c, "claim")
  /\ IF rec[On(c)].accounted \/ lock[On(c)] # Nobody
     THEN Answer(c) /\ served' = served \cup {On(c)} /\ UNCHANGED lock
     ELSE /\ lock' = [lock EXCEPT ![On(c)] = c]
          /\ Goto(c, IF Batch(On(c)) THEN "log" ELSE "fold")
          /\ UNCHANGED served
  /\ UNCHANGED <<kind, upstream, rec, priced, rows, dropped, spend, funds, waived,
                 faults, reprices>>

\* claim_accounting, claim_batch_accounting: the UPDATE waits for the row lock,
\* then matches only a record that is not accounted.
Claim(c) ==
  /\ At(c, "claim") /\ lock[On(c)] = Nobody
  /\ IF rec[On(c)].accounted
     THEN Answer(c) /\ served' = served \cup {On(c)} /\ UNCHANGED lock
     ELSE /\ lock' = [lock EXCEPT ![On(c)] = c]
          /\ Goto(c, IF Batch(On(c)) THEN "log" ELSE "fold")
          /\ UNCHANGED served
  /\ UNCHANGED <<kind, upstream, rec, priced, rows, dropped, spend, funds, waived,
                 faults, reprices>>

\* log_batch_usage: the row is committed by the log writer, not by this session.
\* A writer that cannot write it, or has no room for it, says False or says
\* nothing (LogWriter); log_batch_usage does not look, and the accounting goes on.
Log(c) ==
  /\ At(c, "log")
  /\ \/ Unrecorded(c) /\ Answer(c) /\ UNCHANGED <<rows, dropped>>
     \/ /\ ~ Unrecorded(c) /\ Goto(c, "fold")
        /\ \/ /\ rows' = [rows EXCEPT ![On(c)] = @ + 1]
              /\ dropped' = dropped \ {On(c)}
           \/ dropped' = dropped \cup {On(c)} /\ UNCHANGED rows
  /\ UNCHANGED <<kind, upstream, rec, lock, priced, spend, funds, served,
                 waived, faults, reprices>>

One(b) == IF b THEN 1 ELSE 0

\* One commit: the claim, a video's usage row, the charge and the owner's spend
\* (record_external_spend).
Folded(c, charge) ==
  /\ rec' = [rec EXCEPT ![On(c)].accounted = TRUE]
  /\ rows' = [rows EXCEPT ![On(c)] = @ + One(~ Batch(On(c)))]
  /\ funds' = [funds EXCEPT ![On(c)] = @ + One(charge)]
  /\ spend' = [spend EXCEPT ![On(c)] = @ + One(h[c].owes /\ ~ kind[On(c)].exempt)]
  /\ UNCHANGED dropped

Charged(c) == h[c].owes /\ kind[On(c)].paid

\* A failed charge is discarded with its savepoint; the rest lands.
Fold(c) ==
  /\ At(c, "fold")
  /\ \/ Folded(c, Charged(c)) /\ UNCHANGED <<waived, faults>>
     \/ Charged(c) /\ Fault /\ Folded(c, FALSE) /\ waived' = waived \cup {On(c)}
  /\ lock' = [lock EXCEPT ![On(c)] = Nobody]
  /\ served' = served \cup {On(c)}
  /\ Answer(c)
  /\ UNCHANGED <<kind, upstream, priced, reprices>>

\* Mutant of FoldFails: the claim was committed on its own.
FoldFailsClaimed(c) ==
  /\ At(c, "fold")
  /\ Fault
  /\ rec' = [rec EXCEPT ![On(c)].accounted = TRUE]
  /\ lock' = [lock EXCEPT ![On(c)] = Nobody]
  /\ Answer(c)
  /\ UNCHANGED <<kind, upstream, priced, rows, dropped, spend, funds, served, waived, reprices>>

\* The commit fails, and was rolled back or landed all the same.
FoldFails(c) ==
  /\ At(c, "fold")
  /\ Fault
  /\ \/ UNCHANGED <<rec, rows, dropped, funds, spend>>
     \/ Folded(c, Charged(c))
  /\ lock' = [lock EXCEPT ![On(c)] = Nobody]
  /\ Answer(c)
  /\ UNCHANGED <<kind, upstream, priced, served, waived, reprices>>

-----------------------------------------------------------------------------

\* Mutant of Crash: the dead connection keeps its row lock.
CrashHolding(c) ==
  /\ ~ At(c, "idle") /\ Fault
  /\ Answer(c)
  /\ UNCHANGED <<kind, upstream, store, priced, served, reprices>>

\* The process dies: its connection closes, and the transaction is rolled back.
Crash(c) ==
  /\ ~ At(c, "idle") /\ Fault
  /\ lock' = [j \in Jobs |-> IF lock[j] = c THEN Nobody ELSE lock[j]]
  /\ Answer(c)
  /\ UNCHANGED <<kind, upstream, rec, priced, rows, dropped, spend, funds, served,
                 waived, reprices>>

\* External: the provider ends the job.
Finish(j) ==
  /\ upstream[j] = "running"
  /\ \E end \in {"done", "failed"} : upstream' = [upstream EXCEPT ![j] = end]
  /\ UNCHANGED <<kind, store, priced, h, served, faults, reprices>>

\* An operator sets or deletes the price of the job's model.
Reprice(j) ==
  /\ reprices < MaxReprices
  /\ priced' = [priced EXCEPT ![j] = ~ @] /\ reprices' = reprices + 1
  /\ UNCHANGED <<kind, upstream, store, h, served, faults>>

Step(c) == \/ Keep(c) \/ KeepTwice(c) \/ Find(c) \/ Ask(c) \/ Remember(c)
           \/ Price(c) \/ Claim(c) \/ Log(c) \/ Fold(c)

Next ==
  \/ \E c \in Handlers : \/ Step(c) \/ KeepFails(c) \/ RememberFails(c)
                         \/ FoldFails(c) \/ Crash(c)
  \/ \E c \in Handlers, j \in Jobs : Create(c, j) \/ Retrieve(c, j)
  \/ \E j \in Jobs : Finish(j) \/ Reprice(j)

\* A handler that can go on does; no client has to come, no job has to finish.
Spec == Init /\ [][Next]_vars /\ \A c \in Handlers : WF_vars(Step(c))

-----------------------------------------------------------------------------
(* Properties.                                                             *)

\* Every variable has its type, and a handler that is not idle works on a job.
TypeOK ==
  /\ kind \in [Jobs -> Kinds]
  /\ upstream \in [Jobs -> {"none", "running", "done", "failed"}]
  /\ rec \in [Jobs -> Record]
  /\ lock \in [Jobs -> Handlers \cup {Nobody}]
  /\ priced \in [Jobs -> BOOLEAN]
  /\ rows \in [Jobs -> Nat] /\ spend \in [Jobs -> Nat] /\ funds \in [Jobs -> Nat]
  /\ h \in [Handlers -> Handling]
  /\ served \subseteq Jobs /\ waived \subseteq Jobs /\ dropped \subseteq Jobs
  /\ faults \in 0..MaxFaults /\ reprices \in 0..MaxReprices
  /\ \A c \in Handlers : At(c, "idle") \/ On(c) \in Jobs

\* A job is folded into its owner's spend exactly when its record says it was
\* accounted, once, whoever read it how often (settle_once, claim_batch_accounting).
\* Exempt jobs and those that report nothing to price are accounted at no cost.
AccountedBilled ==
  \A j \in Jobs :
    spend[j] = One(rec[j].accounted /\ kind[j].metered /\ ~ kind[j].exempt)

\* The organization is charged at most once, only for an accounted job, and
\* together with the spend unless the charge itself failed (DeploymentCharge.settle).
ChargedWithSpend ==
  \A j \in Jobs :
    /\ funds[j] <= One(rec[j].accounted /\ kind[j].paid)
    /\ spend[j] = 1 /\ kind[j].paid /\ j \notin waived => funds[j] = 1

\* Owner and organization pay once, with the claim that accounts the job.
BilledOnce == AccountedBilled /\ ChargedWithSpend

\* A video's usage row is part of the commit that accounts it. A batch's row comes
\* first, on another session: an accounted batch has one unless the log writer lost
\* the one it was given last, and only failures leave more than one.
RowsTrue ==
  \A j \in Jobs :
    IF Batch(j) THEN /\ rec[j].accounted => rows[j] > 0 \/ j \in dropped
                     /\ rows[j] <= 1 + faults
                ELSE rows[j] = One(rec[j].accounted)

\* "bill and log a completed batch's usage exactly once" (batch_service): a batch
\* that is accounted has a usage row. The code does not see to it.
BatchLogged == \A j \in Jobs : Batch(j) /\ rec[j].accounted => rows[j] > 0

\* No completed result is handed out by a read that found a rate before the job is
\* accounted: the reader that loses the claim waits for the winner's commit, and
\* bills the job itself when that is rolled back.
ServedBilled == \A j \in served : rec[j].accounted

\* Every request on a job ends: nobody waits for a row lock for ever.
HandlersEnd == \A c \in Handlers : ~ At(c, "idle") ~> At(c, "idle")
=============================================================================
