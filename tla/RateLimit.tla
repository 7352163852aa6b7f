---------------------------- MODULE RateLimit ----------------------------
(***************************************************************************)
(* The rate limits of the gateway (rate_limit.py) and the two stores that  *)
(* count them (adapters/rate_limit_store_adapter.py): Redis, shared by all *)
(* the processes, and the memory of one process, which a process counts in *)
(* for a while after Redis failed to answer it.                            *)
(*                                                                         *)
(* A rule here is a rule of the configuration together with the subject it *)
(* is counted for, that is, one group of store keys.  A rule may limit the *)
(* requests in a window (rpm), their tokens (tpm) and the requests in      *)
(* flight (slot).  Time is counted in ticks and only ages are kept: how    *)
(* long ago an entry was admitted, how long a lease or a backoff still     *)
(* runs.  An entry that has left its window stays stored until the next    *)
(* hit of its key evicts it, as in the code.                               *)
(***************************************************************************)
EXTENDS Integers, FiniteSets

CONSTANTS
    Requests,   \* requests, each of which runs once
    Procs,      \* gateway processes (replicas)
    ProcOf,     \* [Requests -> Procs], the process that serves a request
    Shared,     \* TRUE: rate_limit_store is redis; FALSE: memory
    Rules,      \* rules, each with its subject
    Per,        \* [Rules -> {"own", "shared", "model"}]
    Counts,     \* [Rules -> SUBSET Requests], the requests of that subject
    Dims,       \* [Rules -> SUBSET Dimensions], the limits a rule sets
    Limit,      \* [Rules -> [Dimensions -> Nat]], their values
    Report,     \* the rules with mode: report
    OnUse,      \* the rules with tpm_admission: used
    Models,     \* models the attempts name
    Plan,       \* [Requests -> SUBSET Models], the models of a request's attempts
    Names,      \* [Rules -> SUBSET Models], for the rules per model: the subject
    Estimate,   \* [Requests -> Nat], tokens a request is estimated to use
    Used,       \* [Requests -> Nat], tokens it uses
    Window,     \* length of a window, in ticks
    LeaseSec,   \* life of a lease, in ticks
    RetryAfter, \* ticks a process counts locally after Redis failed it
    Faults,     \* kinds of faults allowed: "outage", "late", "cancel", "crash"
    MaxFaults   \* how many of them may happen

Dimensions == {"rpm", "tpm", "slot"}
Redis == "redis"
Stores == {Redis} \union Procs

ASSUME RateAssumption ==
    /\ IsFiniteSet(Requests) /\ IsFiniteSet(Procs) /\ Redis \notin Procs
    /\ ProcOf \in [Requests -> Procs]
    /\ Shared \in BOOLEAN
    /\ Per \in [Rules -> {"own", "shared", "model"}]
    /\ Counts \in [Rules -> SUBSET Requests]
    /\ Dims \in [Rules -> SUBSET Dimensions]
    /\ Limit \in [Rules -> [Dimensions -> Nat]]
    /\ Names \in [Rules -> SUBSET Models]
    \* The subject of a rule per model is the one model it was counted for.
    /\ \A k \in Rules : \A m, n \in Names[k] : m = n
    /\ Plan \in [Requests -> SUBSET Models]
    /\ Estimate \in [Requests -> Nat] /\ Used \in [Requests -> Nat]
    /\ Window \in Nat \ {0} /\ LeaseSec \in Nat \ {0} /\ RetryAfter \in Nat
    /\ MaxFaults \in Nat

VARIABLES
    log,     \* entries of every window of every store: their age and cost
    total,   \* the running total of every window, kept beside the entries
    lease,   \* ticks every request's slot has left, 0 when it has none
    up,      \* whether Redis answers
    backoff, \* ticks a process still counts locally (_retry_at)
    pc,      \* where a request is
    task,    \* how far the counting of each rule of a phase has come
    held,    \* what the holds of a request's grant name
    handed,  \* whether the grant was handed over (handed_over)
    todo,    \* store calls of the gather or the loop in progress
    tried,   \* models whose attempt was begun
    bill,    \* history: what the request's estimates were settled on
    orphan,  \* history: keys whose giving back a fault prevented
    faults   \* number of faults so far, bounded by MaxFaults

vars == <<log, total, lease, up, backoff, pc, task, held, handed, todo,
          tried, bill, orphan, faults>>

WindowKeys == {x \in Stores \X Rules \X {"rpm", "tpm"} : x[3] \in Dims[x[2]]}
SlotKeys == {x \in Stores \X Rules \X {"slot"} : x[3] \in Dims[x[2]]}
Keys == WindowKeys \union SlotKeys

Gone == Window + 1              \* the age of an entry that is not stored
NoEntry == [age |-> Gone, cost |-> 0]
Unsettled == -1

\* What one _Hold names; the tpm entries among entries that are still to be
\* settled are its estimates.
NoHold == [entries |-> {}, estimates |-> {}, leases |-> {}]
Parts == {"admission", "attempt"}

OwnRules(r, phase) == {k \in Rules : Per[k] = phase /\ r \in Counts[k]}
ModelRules(m) == {k \in Rules : Per[k] = "model" /\ m \in Names[k]}

Phases == {"own", "shared"}
Counting == Phases \union {"attempting"}
Calling == {"refusing", "unadmitting", "aborting", "dropping", "settling",
            "closing", "releasing"}
States == {"new", "refused", "admitted", "walking", "attempt", "settled",
           "ended", "closed"} \union Counting \union Calling
-----------------------------------------------------------------------------
(* The stores. *)

\* What a window holds once the entries that left it are evicted.
Kept(x) == [r \in Requests |-> IF log[x][r].age >= Window THEN NoEntry ELSE log[x][r]]

\* The sum of a number per request, and what the entries of the requests S cost
\* in a window.
Total(f) == Cardinality(UNION {{r} \X (1..f[r]) : r \in Requests})
CostOf(x, S) == Total([r \in Requests |-> IF r \in S THEN log[x][r].cost ELSE 0])

\* Mutant of Freed: entries that stay are subtracted too.
FreedAll(x) == CostOf(x, {r \in Requests : log[x][r].age <= Window})
Freed(x) == CostOf(x, {r \in Requests : log[x][r].age = Window})

\* At least one token, so that a full window refuses a request that
\* estimates none.
Cost(x, r) ==
    IF x[3] = "rpm" \/ x[2] \in OnUse \/ Estimate[r] = 0 THEN 1 ELSE Estimate[r]
Fits(x, r) == total[x] - Freed(x) + Cost(x, r) <= Limit[x[2]][x[3]]

\* Leases that ran out are removed before the others are counted.
Free(x) == Cardinality({r \in Requests : lease[x][r] > 0}) < Limit[x[2]]["slot"]
Granted(x, r) == IF x \in SlotKeys THEN Free(x) ELSE Fits(x, r)

\* The hits and the acquires of request r at the keys H, each one step of its
\* store.
Take(r, H) ==
    /\ log' = [x \in WindowKeys |->
                 IF x \notin H THEN log[x]
                 ELSE IF Fits(x, r)
                      THEN [Kept(x) EXCEPT ![r] = [age |-> 0, cost |-> Cost(x, r)]]
                      ELSE Kept(x)]
    /\ total' = [x \in WindowKeys |->
                 IF x \notin H THEN total[x]
                 ELSE total[x] - Freed(x) + IF Fits(x, r) THEN Cost(x, r) ELSE 0]
    /\ lease' = [x \in SlotKeys |->
                 IF x \in H /\ Free(x) THEN [lease[x] EXCEPT ![r] = LeaseSec]
                                       ELSE lease[x]]

\* A settle is a no-op once its entry is no longer stored.
Recost(x, r, cost) ==
    IF log[x][r].age = Gone
    THEN UNCHANGED <<log, total>>
    ELSE /\ log' = [log EXCEPT ![x][r].cost = cost]
         /\ total' = [total EXCEPT ![x] = @ + cost - log[x][r].cost]

\* Makes one call of r's gather happen.
Perform(r, call) ==
    IF call.key \in SlotKeys
    THEN /\ lease' = [lease EXCEPT ![call.key][r] = 0]
         /\ UNCHANGED <<log, total>>
    ELSE Recost(call.key, r, call.cost) /\ UNCHANGED lease

Fault(kind) == kind \in Faults /\ faults < MaxFaults /\ faults' = faults + 1

\* _redis_or_fallback: Redis is asked unless this process is backing off; a
\* failure starts a new backoff and falls back, an answer ends it.
\* Redis may also run a script and answer too late.
AsksRedis(p) == Shared /\ backoff[p] = 0
RedisAnswers(p) == AsksRedis(p) /\ up /\ UNCHANGED <<backoff, faults>>
RedisDown(p) == /\ AsksRedis(p) /\ ~up
                /\ backoff' = [backoff EXCEPT ![p] = RetryAfter]
                /\ UNCHANGED faults
RedisLate(p) == /\ AsksRedis(p) /\ up /\ Fault("late")
                /\ backoff' = [backoff EXCEPT ![p] = RetryAfter]
CountsLocally(p) == ~AsksRedis(p) /\ UNCHANGED <<backoff, faults>>
-----------------------------------------------------------------------------
(* Counting a request against the rules. *)

Init ==
    /\ log = [x \in WindowKeys |-> [r \in Requests |-> NoEntry]]
    /\ total = [x \in WindowKeys |-> 0]
    /\ lease = [x \in SlotKeys |-> [r \in Requests |-> 0]]
    /\ up = TRUE
    /\ backoff = [p \in Procs |-> 0]
    /\ pc = [r \in Requests |-> "new"]
    /\ task = [r \in Requests |-> [k \in Rules |-> "done"]]
    /\ held = [r \in Requests |-> [h \in Parts |-> NoHold]]
    /\ handed = [r \in Requests |-> FALSE]
    /\ todo = [r \in Requests |-> {}]
    /\ tried = [r \in Requests |-> {}]
    /\ bill = [r \in Requests |-> Unsettled]
    /\ orphan = [r \in Requests |-> {}]
    /\ faults = 0

\* The order in which _count_rule goes through the limits a rule sets.
FirstDim(k) == IF "rpm" \in Dims[k] THEN "rpm"
               ELSE IF "tpm" \in Dims[k] THEN "tpm"
               ELSE IF "slot" \in Dims[k] THEN "slot" ELSE "done"
NextDim(k, d) == IF d = "rpm" /\ "tpm" \in Dims[k] THEN "tpm"
                 ELSE IF d # "slot" /\ "slot" \in Dims[k] THEN "slot" ELSE "done"

\* The tasks that count the rules K of one phase, all begun at once.
Begin(r, K) ==
    task' = [task EXCEPT ![r] = [k \in Rules |-> IF k \in K THEN FirstDim(k) ELSE "done"]]

\* RateLimitRules.admit: the caller's own rules are counted first.
Admit(r) ==
    /\ pc[r] = "new"
    /\ pc' = [pc EXCEPT ![r] = "own"]
    /\ Begin(r, OwnRules(r, "own"))
    /\ UNCHANGED <<log, total, lease, up, backoff, held, handed, todo, tried,
                   bill, orphan, faults>>

Part(r) == IF pc[r] = "attempting" THEN "attempt" ELSE "admission"

Pending(r) == {k \in Rules : task[r][k] \in Dimensions}

\* One admission at key x: it is named by the hold, or it was over the limit.
\* A rule of mode: report lets the request through uncounted.
Noted(r, k, x) ==
    IF Granted(x, r)
    THEN /\ held' = [held EXCEPT ![r][Part(r)] =
              [entries |-> @.entries \union ({x} \ SlotKeys),
               estimates |-> @.estimates \union (IF x[3] = "tpm" THEN {x} ELSE {}),
               leases |-> @.leases \union ({x} \intersect SlotKeys)]]
         /\ task' = [task EXCEPT ![r][k] = NextDim(k, x[3])]
    ELSE /\ task' = [task EXCEPT ![r][k] =
              IF k \in Report THEN NextDim(k, x[3]) ELSE "over"]
         /\ UNCHANGED held

\* The rules of a phase are counted by concurrent tasks, the rules that name
\* an attempt's model one after the other until one refuses.
InTurn(r, k) ==
    pc[r] = "attempting" => /\ \A j \in Pending(r) \ {k} : task[r][j] = FirstDim(j)
                            /\ \A j \in Rules : task[r][j] # "over"

\* A request whose estimate alone exceeds the limit is over without a call.
TooLarge(r, k) ==
    /\ pc[r] \in Counting /\ task[r][k] = "tpm" /\ InTurn(r, k)
    /\ Cost(<<Redis, k, "tpm">>, r) > Limit[k]["tpm"]
    /\ task' = [task EXCEPT ![r][k] = IF k \in Report THEN NextDim(k, "tpm") ELSE "over"]
    /\ UNCHANGED <<log, total, lease, up, backoff, pc, held, handed, todo,
                   tried, bill, orphan, faults>>

Callable(r, k) ==
    /\ pc[r] \in Counting /\ k \in Pending(r) /\ InTurn(r, k)
    /\ task[r][k] = "tpm" => Cost(<<Redis, k, "tpm">>, r) <= Limit[k]["tpm"]

\* What Redis granted without the request learning of it.
Stray(r, H) == {x \in H : Granted(x, r)}

\* _count_rule takes its next step, counted by the store that answers.
CountRule(r, k) ==
    /\ Callable(r, k)
    /\ LET p == ProcOf[r]
           at(s) == <<s, k, task[r][k]>>
       IN \/ /\ RedisAnswers(p)
             /\ Take(r, {at(Redis)}) /\ Noted(r, k, at(Redis))
             /\ UNCHANGED orphan
          \/ /\ CountsLocally(p) \/ RedisDown(p)
             /\ Take(r, {at(p)}) /\ Noted(r, k, at(p))
             /\ UNCHANGED orphan
          \/ /\ RedisLate(p)
             /\ Take(r, {at(Redis), at(p)}) /\ Noted(r, k, at(p))
             /\ orphan' = [orphan EXCEPT ![r] = @ \union Stray(r, {at(Redis)})]
    /\ UNCHANGED <<up, pc, handed, todo, tried, bill>>

Settles(X, cost) == {[key |-> x, cost |-> cost] : x \in X}
Releases(X) == {[key |-> x, cost |-> 0] : x \in X}

\* Mutant of Undo: only the slots are given back.
UndoSlots(hold) == Releases(hold.leases)

\* _undo: everything a hold took is uncounted and its slots are released.
Undo(hold) == Settles(hold.entries, 0) \union Releases(hold.leases)

\* The calls a request awaits, and where it goes when the last has returned.
After(state) ==
    CASE state = "refusing" -> "refused"
      [] state \in {"unadmitting", "dropping"} -> "walking"
      [] state = "aborting" -> "ended"
      [] state = "settling" -> "settled"
      [] state = "closing" -> "closing"
      [] state = "releasing" -> "closed"
Await(r, state, calls) ==
    /\ todo' = [todo EXCEPT ![r] = calls]
    /\ pc' = [pc EXCEPT ![r] = IF calls = {} THEN After(state) ELSE state]

\* The gather of a phase ended.  A refusal gives back what this phase and the
\* ones before it took; otherwise the next phase begins.
EndPhase(r) ==
    /\ pc[r] \in Phases /\ Pending(r) = {}
    /\ IF \E k \in Rules : task[r][k] = "over"
       THEN /\ Await(r, "refusing", Undo(held[r]["admission"]))
            /\ held' = [held EXCEPT ![r]["admission"] = NoHold]
            /\ UNCHANGED task
       ELSE /\ pc' = [pc EXCEPT ![r] = IF @ = "own" THEN "shared" ELSE "admitted"]
            /\ Begin(r, IF pc[r] = "own" THEN OwnRules(r, "shared") ELSE {})
            /\ UNCHANGED <<todo, held>>
    /\ UNCHANGED <<log, total, lease, up, backoff, handed, tried, bill, orphan,
                   faults>>

\* resolve_request_context marks the request dispatched once nothing before
\* the dispatch can refuse it any more.
HandOver(r) ==
    /\ pc[r] = "admitted"
    /\ pc' = [pc EXCEPT ![r] = "walking"]
    /\ handed' = [handed EXCEPT ![r] = TRUE]
    /\ UNCHANGED <<log, total, lease, up, backoff, task, held, todo, tried,
                   bill, orphan, faults>>
-----------------------------------------------------------------------------
(* The attempts of an admitted request. *)

\* RateLimitGrant.admit_model, for a model some rule names.
AdmitModel(r, m) ==
    /\ pc[r] = "walking" /\ m \in Plan[r] \ tried[r] /\ ModelRules(m) # {}
    /\ pc' = [pc EXCEPT ![r] = "attempting"]
    /\ tried' = [tried EXCEPT ![r] = @ \union {m}]
    /\ Begin(r, ModelRules(m))
    /\ UNCHANGED <<log, total, lease, up, backoff, held, handed, todo, bill,
                   orphan, faults>>

\* The first refusal ends the loop over the rules and uncounts the attempt.
ModelRefused(r) ==
    /\ pc[r] = "attempting" /\ \E k \in Rules : task[r][k] = "over"
    /\ Await(r, "unadmitting", Undo(held[r]["attempt"]))
    /\ held' = [held EXCEPT ![r]["attempt"] = NoHold]
    /\ UNCHANGED <<log, total, lease, up, backoff, task, handed, tried, bill,
                   orphan, faults>>

ModelAdmitted(r) ==
    /\ pc[r] = "attempting" /\ Pending(r) = {}
    /\ \A k \in Rules : task[r][k] # "over"
    /\ pc' = [pc EXCEPT ![r] = "attempt"]
    /\ UNCHANGED <<log, total, lease, up, backoff, task, held, handed, todo,
                   tried, bill, orphan, faults>>

\* ModelHold.drop: the hold leaves the grant before any call is made.  The
\* requests of an attempt that was sent stay counted.
Drop(r, sent) ==
    /\ pc[r] = "attempt"
    /\ LET hold == held[r]["attempt"]
       IN IF sent
          THEN Await(r, "dropping", Settles(hold.estimates, 0) \union Releases(hold.leases))
          ELSE Await(r, "unadmitting", Undo(hold))
    /\ held' = [held EXCEPT ![r]["attempt"] = NoHold]
    /\ UNCHANGED <<log, total, lease, up, backoff, task, handed, tried, bill,
                   orphan, faults>>

Estimates(r) == UNION {held[r][h].estimates : h \in Parts}
Leases(r) == UNION {held[r][h].leases : h \in Parts}
Settled(r) == [held EXCEPT ![r] = [h \in Parts |-> [@[h] EXCEPT !.estimates = {}]]]
Released(r) == [held EXCEPT ![r] = [h \in Parts |-> [@[h] EXCEPT !.leases = {}]]]

\* RateLimitGrant.settle: the request used its tokens.
Settle(r) ==
    /\ pc[r] \in {"walking", "attempt"}
    /\ Await(r, "settling", Settles(Estimates(r), Used[r]))
    /\ held' = Settled(r)
    /\ bill' = [bill EXCEPT ![r] = Used[r]]
    /\ UNCHANGED <<log, total, lease, up, backoff, task, handed, tried, orphan,
                   faults>>

\* Mutant of Close: the estimates of a request never handed over are kept.
CloseKeeping(r) ==
    /\ pc[r] \in {"refused", "admitted", "walking", "attempt", "settled", "ended"}
    /\ Await(r, "closing", {})
    /\ bill' = [bill EXCEPT ![r] = IF handed[r] THEN @ ELSE 0]
    /\ UNCHANGED <<log, total, lease, up, backoff, task, held, handed, tried,
                   orphan, faults>>

\* The response ends: refused, failed before it was handed over, cancelled,
\* served without a usage to settle on (an unread stream, one that reports
\* none), or settled.  Then RateLimitGrantMiddleware closes the grant, in the
\* finally of the ASGI call and shielded.
Close(r) ==
    /\ pc[r] \in {"refused", "admitted", "walking", "attempt", "settled", "ended"}
    /\ IF handed[r]
       THEN Await(r, "closing", {}) /\ UNCHANGED <<held, bill>>
       ELSE /\ Await(r, "closing", Settles(Estimates(r), 0))
            /\ held' = Settled(r)
            /\ bill' = [bill EXCEPT ![r] = 0]
    /\ UNCHANGED <<log, total, lease, up, backoff, task, handed, tried, orphan,
                   faults>>

\* Mutant of Release: a request whose body outlived its handler keeps its slots.
ReleaseUnhanded(r) ==
    /\ pc[r] = "closing" /\ todo[r] = {}
    /\ Await(r, "releasing", IF handed[r] THEN {} ELSE Releases(Leases(r)))
    /\ held' = IF handed[r] THEN held ELSE Released(r)
    /\ UNCHANGED <<log, total, lease, up, backoff, task, handed, tried, bill,
                   orphan, faults>>

Release(r) ==
    /\ pc[r] = "closing" /\ todo[r] = {}
    /\ Await(r, "releasing", Releases(Leases(r)))
    /\ held' = Released(r)
    /\ UNCHANGED <<log, total, lease, up, backoff, task, handed, tried, bill,
                   orphan, faults>>

\* One call of the gather (or of drop's loop, which settles before it
\* releases) reaches the store that issued the handle.  What Redis issued and
\* cannot be told is left to run out.
GiveBack(r, call) ==
    /\ pc[r] \in Calling /\ call \in todo[r]
    /\ pc[r] = "dropping" /\ call.key \in SlotKeys => todo[r] \subseteq Releases(SlotKeys)
    /\ LET p == ProcOf[r]
       IN \/ /\ call.key[1] # Redis /\ Perform(r, call)
             /\ UNCHANGED <<backoff, orphan, faults>>
          \/ /\ call.key[1] = Redis /\ (RedisAnswers(p) \/ RedisLate(p))
             /\ Perform(r, call) /\ UNCHANGED orphan
          \/ /\ call.key[1] = Redis /\ (RedisDown(p) \/ CountsLocally(p))
             /\ orphan' = [orphan EXCEPT ![r] = @ \union {call.key}]
             /\ UNCHANGED <<log, total, lease>>
    /\ Await(r, pc[r], todo[r] \ {call})
    /\ UNCHANGED <<up, task, held, handed, tried, bill>>
-----------------------------------------------------------------------------
(* Faults and time. *)

\* The request is cancelled (a disconnect, a shutdown).  The calls in
\* progress are abandoned: a hit or an acquire that Redis already ran is named
\* by no hold, and a give back not yet made is never made.  The loop of
\* admit_model catches every exception and uncounts the attempt first.  A
\* sequence of calls to this process's own memory does not suspend.
Cancel(r) ==
    /\ Fault("cancel")
    /\ pc[r] \in Counting \union Calling \union {"admitted", "walking", "attempt"}
    /\ pc[r] \notin {"closing", "releasing"}
    /\ pc[r] = "dropping" => \E c \in todo[r] : c.key[1] = Redis
    /\ \E K \in SUBSET {k \in Rules : Callable(r, k) /\ AsksRedis(ProcOf[r]) /\ up} :
         /\ pc[r] = "attempting" => Cardinality(K) <= 1
         /\ LET H == {<<Redis, k, task[r][k]>> : k \in K}
            IN /\ Take(r, H)
               /\ orphan' = [orphan EXCEPT ![r] =
                     @ \union Stray(r, H) \union {c.key : c \in todo[r]}]
    /\ IF pc[r] = "attempting"
       THEN /\ Await(r, "aborting", Undo(held[r]["attempt"]))
            /\ held' = [held EXCEPT ![r]["attempt"] = NoHold]
       ELSE /\ pc' = [pc EXCEPT ![r] = "ended"]
            /\ todo' = [todo EXCEPT ![r] = {}]
            /\ UNCHANGED held
    /\ task' = [task EXCEPT ![r] = [k \in Rules |-> "done"]]
    /\ UNCHANGED <<up, backoff, handed, tried, bill>>

\* Every key a request's grant or a call in progress still names.
Named(r) == (UNION {held[r][h].entries \union held[r][h].leases : h \in Parts})
            \union {c.key : c \in todo[r]}

\* A process dies: its memory goes, its requests end, what they hold in Redis
\* is left to run out.
Crash(p) ==
    /\ Fault("crash")
    /\ LET dead == {r \in Requests : ProcOf[r] = p /\ pc[r] \notin {"new", "closed"}}
       IN /\ dead # {}
          /\ log' = [x \in WindowKeys |-> IF x[1] = p THEN [r \in Requests |-> NoEntry]
                                                      ELSE log[x]]
          /\ total' = [x \in WindowKeys |-> IF x[1] = p THEN 0 ELSE total[x]]
          /\ lease' = [x \in SlotKeys |-> IF x[1] = p THEN [r \in Requests |-> 0]
                                                      ELSE lease[x]]
          /\ pc' = [r \in Requests |-> IF r \in dead THEN "closed" ELSE pc[r]]
          /\ orphan' = [r \in Requests |-> 
                IF r \in dead THEN orphan[r] \union Named(r) ELSE orphan[r]]
          /\ todo' = [r \in Requests |-> IF r \in dead THEN {} ELSE todo[r]]
          /\ task' = [r \in Requests |-> IF r \in dead THEN [k \in Rules |-> "done"]
                                                       ELSE task[r]]
          /\ held' = [r \in Requests |-> IF r \in dead THEN [h \in Parts |-> NoHold]
                                                       ELSE held[r]]
          /\ backoff' = [backoff EXCEPT ![p] = 0]
    /\ UNCHANGED <<up, handed, tried, bill>>

Outage ==
    /\ IF up THEN Fault("outage") ELSE UNCHANGED faults
    /\ up' = ~up
    /\ UNCHANGED <<log, total, lease, backoff, pc, task, held, handed, todo,
                   tried, bill, orphan>>

\* PEXPIRE, or the clean-up every thousand hits: a window all of whose
\* entries have left is forgotten with its total.
Forget(x) ==
    /\ \E r \in Requests : log[x][r].age # Gone
    /\ \A r \in Requests : log[x][r].age >= Window
    /\ log' = [log EXCEPT ![x] = [r \in Requests |-> NoEntry]]
    /\ total' = [total EXCEPT ![x] = 0]
    /\ UNCHANGED <<lease, up, backoff, pc, task, held, handed, todo, tried,
                   bill, orphan, faults>>

Tick ==
    /\ log' = [x \in WindowKeys |-> [r \in Requests |->
                 IF log[x][r].age < Window THEN [log[x][r] EXCEPT !.age = @ + 1]
                                           ELSE log[x][r]]]
    /\ lease' = [x \in SlotKeys |-> [r \in Requests |->
                 IF lease[x][r] > 0 THEN lease[x][r] - 1 ELSE 0]]
    /\ backoff' = [p \in Procs |-> IF backoff[p] > 0 THEN backoff[p] - 1 ELSE 0]
    /\ UNCHANGED <<total, up, pc, task, held, handed, todo, tried, bill, orphan,
                   faults>>

Step(r) ==
    \/ Admit(r) \/ EndPhase(r) \/ HandOver(r) \/ ModelRefused(r) \/ ModelAdmitted(r)
    \/ Settle(r) \/ Close(r) \/ Release(r)
    \/ \E k \in Rules : CountRule(r, k) \/ TooLarge(r, k)
    \/ \E m \in Models : AdmitModel(r, m)
    \/ \E sent \in BOOLEAN : Drop(r, sent)
    \/ \E call \in todo[r] : GiveBack(r, call)

Next ==
    \/ \E r \in Requests : Step(r) \/ Cancel(r)
    \/ \E p \in Procs : Crash(p)
    \/ \E x \in WindowKeys : Forget(x)
    \/ Outage \/ Tick

Spec == Init /\ [][Next]_vars

-----------------------------------------------------------------------------
(* Properties. *)

Entry == [age : 0..Gone, cost : Nat]
Hold == [entries : SUBSET WindowKeys, estimates : SUBSET WindowKeys,
         leases : SUBSET SlotKeys]
Call == [key : Keys, cost : Nat]

\* Every variable has its type.
TypeOK ==
    /\ log \in [WindowKeys -> [Requests -> Entry]]
    /\ total \in [WindowKeys -> Nat]
    /\ lease \in [SlotKeys -> [Requests -> 0..LeaseSec]]
    /\ up \in BOOLEAN
    /\ backoff \in [Procs -> 0..RetryAfter]
    /\ pc \in [Requests -> States]
    /\ task \in [Requests -> [Rules -> Dimensions \union {"done", "over"}]]
    /\ held \in [Requests -> [Parts -> Hold]]
    /\ handed \in [Requests -> BOOLEAN]
    /\ todo \in [Requests -> SUBSET Call]
    /\ tried \in [Requests -> SUBSET Models]
    /\ bill \in [Requests -> Int]
    /\ orphan \in [Requests -> SUBSET Keys]
    /\ faults \in 0..MaxFaults

Stored(x) == {r \in Requests : log[x][r].age # Gone}
Live(x) == {r \in Requests : log[x][r].age < Window}
AtMost(m, n) == IF m <= n THEN m ELSE n

\* The running total kept beside the entries of a window (_Window.total, the
\* '#' field in Redis) is what its stored entries cost, through evictions,
\* settlements of entries that are about to leave, and clean-ups.  So a window
\* never admits past its limit: the entries in it, each at no more than it was
\* admitted for, fit under the limit however they were settled since.
WindowsExact ==
    \A x \in WindowKeys :
        /\ total[x] = CostOf(x, Stored(x))
        /\ Total([r \in Requests |->
                     IF r \in Live(x) THEN AtMost(log[x][r].cost, Cost(x, r)) ELSE 0])
             <= Limit[x[2]][x[3]]

\* max_concurrent holds in every store, whatever was lost: a store never
\* counts more live leases of a rule than the rule allows, so no more
\* requests than that are in flight with a lease that still runs.
SlotsBounded ==
    \A x \in SlotKeys :
        Cardinality({r \in Requests : lease[x][r] > 0}) <= Limit[x[2]]["slot"]

\* A slot is always somebody's to give back: a lease that runs is named by its
\* request's grant or by a call in progress, unless a fault lost it, and a
\* request that has ended names none.
SlotsNamed ==
    \A r \in Requests :
        /\ \A x \in SlotKeys : lease[x][r] > 0 => x \in Named(r) \union orphan[r]
        /\ pc[r] = "closed" => Leases(r) = {} /\ todo[r] = {}

\* The stores and the grants agree on who holds which slot, and no rule has more
\* slots out than it allows.
Consistent == TypeOK /\ SlotsBounded /\ SlotsNamed

\* A refused request is counted nowhere, so retrying it uses up none of the
\* limits it did fit (RateLimitRules.admit), however its rules' tasks
\* interleaved with the other requests.
RefusedUncounted ==
    \A r \in Requests : pc[r] = "refused" =>
        /\ \A x \in WindowKeys : log[x][r].cost > 0 => x \in orphan[r]
        /\ \A x \in SlotKeys : lease[x][r] > 0 => x \in orphan[r]

\* Once a request has ended, its token entries say what it was settled on:
\* the tokens it used, none when it was never handed over; an attempt that
\* was dropped is charged none.
TokensTrue ==
    \A r \in Requests : \A x \in WindowKeys :
        /\ pc[r] = "closed" /\ bill[r] # Unsettled /\ x[3] = "tpm"
        /\ log[x][r].age # Gone /\ x \notin orphan[r]
        => \/ log[x][r].cost = bill[r]
           \/ Per[x[2]] = "model" /\ log[x][r].cost = 0
=============================================================================
