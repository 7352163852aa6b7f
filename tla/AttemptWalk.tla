--------------------------- MODULE AttemptWalk ---------------------------
(***************************************************************************)
(* The walk of a request over the candidates of its routing plan           *)
(* (api/routes/_attempts.py, with the callbacks api/routes/_pipeline.py    *)
(* gives it), and the feedback the walks of one process share: the load,   *)
(* the cooldowns and the session bindings of the automatic router          *)
(* (services/routing/_automatic.py), which order the next plan.            *)
(*                                                                         *)
(* A candidate is given its credential, admitted (the reservation moves    *)
(* onto its budgets, its model's rate limits are counted), prepared, sent  *)
(* the request and run.  What each of these steps answers is a choice.     *)
(***************************************************************************)
EXTENDS Integers, Sequences, FiniteSets

CONSTANTS
    Requests,   \* requests of one gateway process, each walks once
    Candidates, \* offerings a plan may hold
    PlanOf,     \* [Requests -> SUBSET Candidates], the plan before its ranking
    Session,    \* [Requests -> Sessions], the session a request belongs to
    Sessions,
    Streamed,   \* the requests that stream
    Need,       \* [Candidates -> Nat], what a candidate is estimated to cost
    MaxHealth   \* how many candidates' health is kept (_LIMIT)

NoOne == "nobody"

ASSUME WalkAssumption ==
    /\ IsFiniteSet(Requests) /\ IsFiniteSet(Candidates)
    /\ NoOne \notin Candidates
    /\ PlanOf \in [Requests -> SUBSET Candidates]
    /\ \A r \in Requests : PlanOf[r] # {}
    /\ Session \in [Requests -> Sessions]
    /\ Streamed \subseteq Requests
    /\ Need \in [Candidates -> Nat]
    /\ MaxHealth \in Nat

VARIABLES
    pc,        \* where the walk of a request is
    plan,      \* the candidates in the order they are tried
    at,        \* index of the candidate at hand
    fate,      \* what became of every candidate of the plan
    locked,    \* whether the candidate at hand has produced an assistant message
    hold,      \* what the request's reservation covers
    onModel,   \* candidates whose model hold is on the rate limit grant
    counted,   \* candidates whose model still counts this request
    unabsorbed,\* the failure not yet recorded, or NoOne
    skips,     \* skipped candidates not yet recorded
    rows,      \* rows handed to tasks that write them beside the walk; a
               \* write that fails is swallowed, and the response waits for all
    stopped,   \* the candidate on_terminal named, or NoOne
    active,    \* calls in progress per candidate (_Health.active)
    cool,      \* candidates in cooldown
    tracked,   \* candidates whose health is kept
    bound,     \* the candidate a session is bound to, or NoOne
    open       \* observations of a request not yet finished: [on, tracked]

walk == <<plan, at, locked, hold, onModel, counted>>
record == <<unabsorbed, skips, rows>>
router == <<active, cool, tracked, bound, open>>
vars == <<pc, plan, at, fate, locked, hold, onModel, counted, unabsorbed, skips,
          rows, stopped, active, cool, tracked, bound, open>>

Awaiting == {"admit", "prepare", "topup", "run"}
Ended == {"served", "stopped", "unreachable", "cancelled"}
Fates == {"untried", "skipped", "unsent", "refused", "failed", "capped",
          "unreachable", "served"}
Cand(r) == plan[r][at[r]]
Last(r) == at[r] = Len(plan[r])

Init ==
    /\ pc = [r \in Requests |-> "new"]
    /\ plan = [r \in Requests |-> <<>>]
    /\ at = [r \in Requests |-> 0]
    /\ fate = [r \in Requests |-> [c \in Candidates |-> "untried"]]
    /\ locked = [r \in Requests |-> FALSE]
    /\ hold = [r \in Requests |-> 0]
    /\ onModel = [r \in Requests |-> {}]
    /\ counted = [r \in Requests |-> {}]
    /\ unabsorbed = [r \in Requests |-> NoOne]
    /\ skips = [r \in Requests |-> {}]
    /\ rows = [r \in Requests |-> {}]
    /\ stopped = [r \in Requests |-> NoOne]
    /\ active = [c \in Candidates |-> 0]
    /\ cool = {}
    /\ tracked = {}
    /\ bound = [s \in Sessions |-> NoOne]
    /\ open = [r \in Requests |-> {}]
-----------------------------------------------------------------------------
(* The automatic router. *)

\* What rank sorts by first (group), read as one number: a missing price, then
\* a cooldown, then a key that is not the caller's own, then another region.
\* Prices, keys and regions are the tiers [unpriced, foreign, remote], any sets.
Weight(c, tier) ==
    LET bit(n, C) == IF c \in C THEN n ELSE 0
    IN bit(8, tier.unpriced) + bit(4, cool) + bit(2, tier.foreign) + bit(1, tier.remote)

\* The candidate the session is bound to is put first, when it is healthy, at
\* home, priced if any is, and the caller's own if the best one is.
Leads(b, C, tier) ==
    /\ b \in C \ (cool \union tier.remote)
    /\ b \in tier.unpriced => C \subseteq tier.unpriced
    /\ b \in tier.foreign =>
          \E c \in C \intersect tier.foreign : \A d \in C : Weight(c, tier) <= Weight(d, tier)

\* The orders AutomaticRouter.rank may give the candidates C, which are no
\* more than its limit.  Cost, load and latency order those of one weight.
Orders(C, b, tier) ==
    LET lead == {c \in {b} : Leads(c, C, tier)}
    IN {p \in [1..Cardinality(C) -> C] : \A i, j \in 1..Cardinality(C) : i < j =>
           /\ p[i] # p[j]
           /\ p[j] \notin lead
           /\ p[i] \in lead \/ Weight(p[i], tier) <= Weight(p[j], tier)}

\* The session's binding counts while it is younger than the session's time to
\* live (b is NoOne otherwise), and one the ranking does not put first is removed.
Rank(r) ==
    /\ pc[r] = "new"
    /\ LET C == PlanOf[r]
       IN \E tier \in [unpriced : SUBSET C, foreign : SUBSET C, remote : SUBSET C],
             b \in {bound[Session[r]], NoOne} :
            /\ \E p \in Orders(C, b, tier) :
                 /\ plan' = [plan EXCEPT ![r] = p]
                 /\ hold' = [hold EXCEPT ![r] = Need[p[1]]]
            /\ bound' = [bound EXCEPT ![Session[r]] = IF Leads(b, C, tier) THEN b ELSE NoOne]
    /\ at' = [at EXCEPT ![r] = 1]
    /\ pc' = [pc EXCEPT ![r] = "admit"]
    /\ UNCHANGED <<fate, locked, onModel, counted, record, stopped, active, cool,
                   tracked, open>>

\* AutomaticSelection.forget: only a binding to this candidate.
Forget(r, c) ==
    bound' = [bound EXCEPT ![Session[r]] = IF @ = c THEN NoOne ELSE @]

\* AutomaticRouter._health: a full table evicts an idle entry, and a call for
\* which there is no room is not counted.
Start(r, c) ==
    LET idle == {d \in tracked : active[d] = 0}
    IN \/ /\ c \in tracked \/ Cardinality(tracked) < MaxHealth
          /\ tracked' = tracked \union {c}
          /\ active' = [active EXCEPT ![c] = @ + 1]
          /\ open' = [open EXCEPT ![r] = @ \union {[on |-> c, tracked |-> TRUE]}]
          /\ UNCHANGED cool
       \/ /\ c \notin tracked /\ Cardinality(tracked) >= MaxHealth
          /\ \E d \in idle :
               /\ tracked' = (tracked \ {d}) \union {c}
               /\ cool' = cool \ {d}
          /\ active' = [active EXCEPT ![c] = @ + 1]
          /\ open' = [open EXCEPT ![r] = @ \union {[on |-> c, tracked |-> TRUE]}]
       \/ /\ c \notin tracked /\ Cardinality(tracked) >= MaxHealth /\ idle = {}
          /\ open' = [open EXCEPT ![r] = @ \union {[on |-> c, tracked |-> FALSE]}]
          /\ UNCHANGED <<tracked, active, cool>>

\* Mutant of Finish: a call that ended in nothing keeps its load.
FinishReported(r, c, outcome) ==
    /\ active' = [active EXCEPT ![c] =
          IF [on |-> c, tracked |-> TRUE] \in open[r] /\ outcome # "none" THEN @ - 1 ELSE @]
    /\ open' = [open EXCEPT ![r] = {o \in @ : o.on # c}]
    /\ UNCHANGED <<cool, bound>>

\* AutomaticObservation.finish, for an observation that is still open: the
\* load is released once, a success ends the cooldown and binds the session,
\* an unhealthy outcome starts one and removes a binding to this candidate.
Finish(r, c, outcome) ==
    LET counts == [on |-> c, tracked |-> TRUE] \in open[r]
    IN /\ active' = [active EXCEPT ![c] = IF counts /\ @ > 0 THEN @ - 1 ELSE @]
       /\ cool' = IF ~counts THEN cool
                  ELSE CASE outcome = "success" -> cool \ {c}
                         [] outcome = "unhealthy" -> cool \union {c}
                         [] outcome = "none" -> cool
       /\ bound' = CASE outcome = "success" -> [bound EXCEPT ![Session[r]] = c]
                     [] outcome = "unhealthy" ->
                          [bound EXCEPT ![Session[r]] = IF @ = c THEN NoOne ELSE @]
                     [] outcome = "none" -> bound
       /\ open' = [open EXCEPT ![r] = {o \in @ : o.on # c}]

\* AutomaticSelection.close, called when the request has finished: what is
\* still open is released with no outcome.
CloseSelection(r) ==
    /\ active' = [c \in Candidates |->
          IF [on |-> c, tracked |-> TRUE] \in open[r] THEN active[c] - 1 ELSE active[c]]
    /\ open' = [open EXCEPT ![r] = {}]
    /\ UNCHANGED <<cool, tracked, bound>>

CoolOff(c) ==
    /\ c \in cool
    /\ cool' = cool \ {c}
    /\ UNCHANGED <<pc, walk, fate, record, stopped, active, tracked, bound, open>>
-----------------------------------------------------------------------------
(* Moving on, and stopping. *)

\* Mutant of DropModel: the slots are given back, the request stays counted.
DropModelCounted(r, sent) ==
    /\ onModel' = [onModel EXCEPT ![r] = @ \ {Cand(r)}]
    /\ UNCHANGED counted

\* ModelHold.drop: the slots and estimates go back; the request stays counted
\* for a candidate that was sent it.
DropModel(r, sent) ==
    /\ onModel' = [onModel EXCEPT ![r] = @ \ {Cand(r)}]
    /\ counted' = [counted EXCEPT ![r] = IF sent THEN @ ELSE @ \ {Cand(r)}]
KeepModel == UNCHANGED <<onModel, counted>>

\* The rows of the candidates passed over, begun as tasks of their own.
Skipped(C) == {[kind |-> "skipped", of |-> c] : c \in C}
Absorbed(c) == IF c = NoOne THEN {} ELSE {[kind |-> "absorbed", of |-> c]}

Failures(f) == {c \in Candidates : f[c] \in {"failed", "unsent"}}
Refusals(f) == {c \in Candidates : f[c] = "skipped"}
IndexOf(r, c) == CHOOSE i \in 1..Len(plan[r]) : plan[r][i] = c
LastOf(r, C) == CHOOSE c \in C : \A d \in C : IndexOf(r, d) <= IndexOf(r, c)

\* Mutant of Exhaust: the failure of the request is recorded as absorbed too.
ExhaustAll(r, f, unrecorded) ==
    /\ pc' = [pc EXCEPT ![r] = "stopped"]
    /\ \E c \in Failures(f) \union Refusals(f) :
         /\ stopped' = [stopped EXCEPT ![r] = c]
         /\ rows' = [rows EXCEPT ![r] = @ \union Skipped(unrecorded) \union
                       (IF c \in Failures(f) THEN Absorbed(c) ELSE {})]
    /\ skips' = [skips EXCEPT ![r] = {}]
    /\ UNCHANGED at

\* The end of the plan.  When nothing failed the answer is the refusal a
\* caller can retry soonest, which may be any of them; otherwise the last
\* candidate that failed is named, and the skips still open are recorded.
Exhaust(r, f, unrecorded) ==
    /\ pc' = [pc EXCEPT ![r] = "stopped"]
    /\ IF Failures(f) = {}
       THEN /\ \E c \in Refusals(f) : stopped' = [stopped EXCEPT ![r] = c]
            /\ UNCHANGED <<skips, rows>>
       ELSE /\ stopped' = [stopped EXCEPT ![r] = LastOf(r, Failures(f))]
            /\ rows' = [rows EXCEPT ![r] = @ \union Skipped(unrecorded)]
            /\ skips' = [skips EXCEPT ![r] = {}]
    /\ UNCHANGED at

\* The next candidate of the plan, or its end.
Advance(r, f, unrecorded) ==
    \/ /\ ~Last(r)
       /\ at' = [at EXCEPT ![r] = @ + 1]
       /\ pc' = [pc EXCEPT ![r] = "admit"]
       /\ skips' = [skips EXCEPT ![r] = unrecorded]
       /\ UNCHANGED <<stopped, rows>>
    \/ Last(r) /\ Exhaust(r, f, unrecorded)

Became(r, word) == [fate EXCEPT ![r][Cand(r)] = word]

\* CandidateCannotServe: the candidate is passed over.
Skip(r) ==
    /\ fate' = Became(r, "skipped")
    /\ Advance(r, fate'[r], skips[r] \union {Cand(r)})
    /\ UNCHANGED <<unabsorbed, locked, plan, hold>>

\* A failure that is not the gateway's: the next candidate is tried.  The
\* failure before it, when it was never recorded, is forgotten here.
Fall(r, word) ==
    /\ fate' = Became(r, word)
    /\ unabsorbed' = [unabsorbed EXCEPT ![r] = Cand(r)]
    /\ Advance(r, fate'[r], skips[r])
    /\ UNCHANGED <<locked, plan, hold>>

\* Mutant of Stop: the failure is put on the end of the plan.
StopAtEnd(r, word) ==
    /\ fate' = Became(r, word)
    /\ pc' = [pc EXCEPT ![r] = "stopped"]
    /\ stopped' = [stopped EXCEPT ![r] = plan[r][Len(plan[r])]]
    /\ UNCHANGED <<at, plan, locked, hold, record>>

\* An answer of the gateway's own that ends the walk on this candidate.
Stop(r, word) ==
    /\ fate' = Became(r, word)
    /\ pc' = [pc EXCEPT ![r] = "stopped"]
    /\ stopped' = [stopped EXCEPT ![r] = Cand(r)]
    /\ UNCHANGED <<at, plan, locked, hold, record>>

Go(r, state) == pc' = [pc EXCEPT ![r] = state]
-----------------------------------------------------------------------------
(* The steps of a walk. *)

\* credential_attempt and build_kwargs: the candidate may not serve on the
\* credentials of the request, lacks one, or ends the request.
Credential(r) ==
    /\ Skip(r) \/ Fall(r, "unsent") \/ Stop(r, "refused")
    /\ KeepModel /\ UNCHANGED bound

\* move_reservation_for_attempt refuses: a full budget of this provider alone
\* skips the candidate, one of every provider or a database failure ends the
\* walk.
Move(r) ==
    /\ \/ Skip(r) /\ Forget(r, Cand(r))
       \/ Stop(r, "refused") /\ UNCHANGED bound
    /\ KeepModel

\* _model_admission: no rule names the model, there is room, or it is full.
AdmitToModel(r) ==
    \/ /\ Go(r, "prepare")
       /\ \/ KeepModel
          \/ /\ onModel' = [onModel EXCEPT ![r] = @ \union {Cand(r)}]
             /\ counted' = [counted EXCEPT ![r] = @ \union {Cand(r)}]
       /\ UNCHANGED <<plan, at, locked, hold, fate, stopped, record, bound>>
    \/ Skip(r) /\ Forget(r, Cand(r)) /\ KeepModel

\* A candidate is given its credential, its budgets and its model, or fails
\* at one of them.
AdmitCandidate(r) ==
    /\ pc[r] = "admit"
    /\ Credential(r) \/ Move(r) \/ AdmitToModel(r)
    /\ UNCHANGED <<active, cool, tracked, open>>

\* The candidate is sent the request: what was passed over is recorded now.
Send(r) ==
    /\ rows' = [rows EXCEPT ![r] = @ \union Absorbed(unabsorbed[r])
                                           \union Skipped(skips[r])]
    /\ unabsorbed' = [unabsorbed EXCEPT ![r] = NoOne]
    /\ skips' = [skips EXCEPT ![r] = {}]

\* prepare_kwargs.  The first candidate's hold was made for it, so it runs.
Prepare(r) ==
    /\ pc[r] = "prepare"
    /\ \/ /\ Send(r) /\ KeepModel
          /\ IF at[r] > 1
             THEN Go(r, "topup") /\ UNCHANGED router
             ELSE Go(r, "run") /\ Start(r, Cand(r)) /\ UNCHANGED bound
          /\ UNCHANGED <<plan, at, locked, hold, fate, stopped>>
       \/ /\ Skip(r) \/ Fall(r, "unsent") \/ Stop(r, "refused")
          /\ DropModel(r, FALSE) /\ UNCHANGED router

\* top_up_reservation_for_attempt: every candidate after the first grows the
\* hold by what it lacks; a refusal ends the walk and its model is not
\* counted.
TopUp(r) ==
    /\ pc[r] = "topup"
    /\ \/ /\ Go(r, "run") /\ Start(r, Cand(r)) /\ KeepModel
          /\ hold' = [hold EXCEPT ![r] = IF @ < Need[Cand(r)] THEN Need[Cand(r)] ELSE @]
          /\ UNCHANGED <<plan, at, locked, fate, stopped, record, bound>>
       \/ Stop(r, "refused") /\ DropModel(r, FALSE) /\ UNCHANGED router

\* The upstream produced its first assistant message in a tool loop.
LockIn(r) ==
    /\ pc[r] = "run" /\ ~locked[r]
    /\ locked' = [locked EXCEPT ![r] = TRUE]
    /\ UNCHANGED <<pc, plan, at, hold, onModel, counted, fate, record, stopped, router>>

\* The provider answered.  A stream's observation stays open until the
\* stream ends.
Succeed(r) ==
    /\ pc[r] = "run"
    /\ Go(r, "served")
    /\ fate' = Became(r, "served")
    /\ IF r \in Streamed THEN UNCHANGED <<active, cool, bound, open>>
                         ELSE Finish(r, Cand(r), "success")
    /\ UNCHANGED <<walk, record, stopped, tracked>>

\* Mutant of FailRun: a locked-in failure falls through too.
FailRunOn(r) ==
    /\ pc[r] = "run"
    /\ \E outcome \in {"unhealthy", "none"} : Finish(r, Cand(r), outcome)
    /\ Fall(r, "failed") /\ DropModel(r, TRUE)
    /\ UNCHANGED tracked

\* The provider failed.  Before the lock-in the walk moves on and its hold on
\* the model is dropped, the request staying counted; after it the walk ends.
FailRun(r) ==
    /\ pc[r] = "run"
    /\ \E outcome \in {"unhealthy", "none"} : Finish(r, Cand(r), outcome)
    /\ \/ ~locked[r] /\ Fall(r, "failed") /\ DropModel(r, TRUE)
       \/ locked[r] /\ Stop(r, "failed") /\ KeepModel
    /\ UNCHANGED tracked

\* The gateway itself refused while the candidate ran (a tool backend's
\* refusal, the iteration cap): the walk ends.  Before the provider answered,
\* the request is not counted against the model.
RefuseRun(r) ==
    /\ pc[r] = "run"
    /\ Finish(r, Cand(r), "none")
    /\ \/ ~locked[r] /\ Stop(r, "refused") /\ DropModel(r, FALSE)
       \/ locked[r] /\ (Stop(r, "refused") \/ Stop(r, "capped")) /\ KeepModel
    /\ UNCHANGED tracked

\* A sandbox or search backend could not be opened: the walk names nobody.
Unreachable(r) ==
    /\ pc[r] = "run" /\ ~locked[r]
    /\ Go(r, "unreachable")
    /\ fate' = Became(r, "unreachable")
    /\ Finish(r, Cand(r), "none")
    /\ UNCHANGED <<walk, record, stopped, tracked>>

\* The client left or the process stops: no candidate is blamed.
Cancel(r) ==
    /\ pc[r] \in Awaiting
    /\ Go(r, "cancelled")
    /\ Finish(r, Cand(r), "none")
    /\ UNCHANGED <<walk, fate, record, stopped, tracked>>

\* The stream of a served request ends: complete, failed or abandoned.
EndStream(r) ==
    /\ pc[r] = "served" /\ open[r] # {}
    /\ \E outcome \in {"success", "unhealthy", "none"} : Finish(r, Cand(r), outcome)
    /\ UNCHANGED <<pc, walk, fate, record, stopped, tracked>>

\* The request ends; whatever is still observed is released.
Conclude(r) ==
    /\ pc[r] \in Ended
    /\ Go(r, "finished")
    /\ CloseSelection(r)
    /\ UNCHANGED <<walk, fate, record, stopped>>

Step(r) ==
    \/ LockIn(r) \/ Cancel(r)
    \/ Rank(r) \/ AdmitCandidate(r) \/ Prepare(r)
    \/ TopUp(r) \/ Succeed(r) \/ FailRun(r) \/ RefuseRun(r) \/ Unreachable(r)
    \/ EndStream(r) \/ Conclude(r)

Next ==
    \/ \E r \in Requests : Step(r)
    \/ \E c \in Candidates : CoolOff(c)

Spec == Init /\ [][Next]_vars
-----------------------------------------------------------------------------
(* Properties. *)

Row == [kind : {"absorbed", "skipped"}, of : Candidates]

\* Every variable has its type.
TypeOK ==
    /\ pc \in [Requests -> {"new", "finished"} \union Awaiting \union Ended]
    /\ plan \in [Requests -> Seq(Candidates)]
    /\ at \in [Requests -> Nat] /\ \A r \in Requests : at[r] <= Len(plan[r])
    /\ fate \in [Requests -> [Candidates -> Fates]]
    /\ locked \in [Requests -> BOOLEAN]
    /\ hold \in [Requests -> Nat]
    /\ onModel \in [Requests -> SUBSET Candidates]
    /\ counted \in [Requests -> SUBSET Candidates]
    /\ unabsorbed \in [Requests -> Candidates \union {NoOne}]
    /\ skips \in [Requests -> SUBSET Candidates]
    /\ rows \in [Requests -> SUBSET Row]
    /\ stopped \in [Requests -> Candidates \union {NoOne}]
    /\ active \in [Candidates -> Nat]
    /\ cool \subseteq Candidates
    /\ tracked \subseteq Candidates
    /\ bound \in [Sessions -> Candidates \union {NoOne}]
    /\ open \in [Requests -> SUBSET [on : Candidates, tracked : BOOLEAN]]

Reached(r) == {plan[r][i] : i \in 1..at[r]}

\* An absorbed row is only written for a candidate the walk recovered from:
\* it failed or was skipped, a later one was sent the request (a skip is also
\* recorded when the plan is exhausted), and it is not the one the failure of
\* the request is put on.
RowsTrue ==
    \A r \in Requests : \A row \in rows[r] :
        /\ row.kind = "absorbed" => fate[r][row.of] \in {"failed", "unsent"}
        /\ row.kind = "skipped" => fate[r][row.of] = "skipped"
        /\ row.of # stopped[r]
        /\ \/ \E i \in 1..at[r] : /\ i > IndexOf(r, row.of)
                                  /\ fate[r][plan[r][i]] # "skipped"
           \/ row.kind = "skipped" /\ stopped[r] # NoOne

\* The failure of a request is put on the candidate that ended it, never on
\* one that was not reached: the last to fail, or one that refused.
StoppedTrue ==
    \A r \in Requests : stopped[r] # NoOne =>
        /\ stopped[r] \in Reached(r)
        /\ \/ fate[r][stopped[r]] \in {"refused", "capped"} /\ stopped[r] = Cand(r)
           \/ /\ fate[r][stopped[r]] \in {"failed", "unsent"}
              /\ \A c \in Failures(fate[r]) : IndexOf(r, c) <= IndexOf(r, stopped[r])
           \/ fate[r][stopped[r]] = "skipped" /\ Failures(fate[r]) = {}

\* A candidate the walk moved past keeps nothing of its model's limits but
\* the request it was sent: only the candidate at hand holds slots, and a
\* candidate counts the request only if it was run, or is at hand.
ModelsFreed ==
    \A r \in Requests : pc[r] # "new" =>
        /\ onModel[r] \subseteq {Cand(r)}
        /\ \A c \in counted[r] \ {Cand(r)} : fate[r][c] = "failed"
        /\ fate[r][Cand(r)] \in {"skipped", "unsent"} => Cand(r) \notin counted[r]

\* No candidate runs on a reservation that does not cover its estimate.
RunCovered ==
    \A r \in Requests : pc[r] = "run" => hold[r] >= Need[Cand(r)]

\* Once a tool loop is locked in, no other candidate is tried.
NoFallover == [][\A r \in Requests : locked[r] => at'[r] = at[r]]_vars

\* The load the ranking reads is exact under every interleaving of walks: the
\* calls counted on a candidate are the observations that counted and are
\* still open, an entry with calls in progress is never evicted, and a request
\* that has finished leaves no load behind, its stream read or not.
LoadExact ==
    /\ \A r \in Requests : pc[r] = "finished" => open[r] = {}
    /\ \A c \in Candidates :
        /\ active[c] = Cardinality({r \in Requests : [on |-> c, tracked |-> TRUE] \in open[r]})
        /\ active[c] > 0 => c \in tracked

\* What a walk keeps outside itself, the reservation and the load of the
\* candidates, is what it needs and what it caused.
Consistent == TypeOK /\ RunCovered /\ LoadExact
=============================================================================
