# A formal model of the gateway

This directory holds TLA+ models of the gateway in `src/src/gateway`, the TLC
configurations that check them on small instances, and TLAPS proofs of what
matters most for every instance. Paths below are relative to `src/src/gateway`
unless they start with `src/`.

Contents: [the system](#the-system), [the modules](#the-modules),
[the runs](#the-runs), [the proofs](#the-proofs), [findings](#findings),
[what is not modelled](#what-is-not-modelled), [plan](#plan).

## The system

The gateway sits between API clients and model providers. A request is
authenticated, rate-limited, checked against an idempotency key, charged to
budgets before it is sent, sent to a provider (and to fallbacks when that
fails), settled, logged and traced. Several worker processes serve one database;
requests are coroutines of one event loop per worker, and background tasks sweep
what dead requests left behind.

### Inventory

| part | state it keeps | operations | what makes it hard | what makes it correct |
|---|---|---|---|---|
| budget reservations (`services/budgets`) | counters on `users` and `scoped_budgets`, a `budget_reservations` row with lines per request | reserve, top up, move, settle, refund, sweep, reconcile orphans, prune | no lock spans two commits of one request; crashes and ambiguous commits; the sweep races live requests; windows roll under holds | caps hold; a release returns only what its request holds; every hold is returned in the end; every use is billed, and once if the request knows its row |
| budget administration (`services/budgets/_*_surface.py`, `_member_policies.py`, ...) | budgets, policies, key limits | create, edit, retime, delete | edits while holds are outstanding | an edit strands no hold |
| idempotency (`services/inference/_idempotency.py`, `_lease.py`) | one row per key with an owner and a lease | admit, renew, complete, release, sweep | a lease that lapses while its owner works; a decision on a stale reading; outages | one request of a key runs at a time; a replay is the response of the same request; a stored response stays |
| usage log writer (`services/log_writer.py`) | a bounded queue, a batch, counters | put, collect, flush, retry, salvage, stop | failing and ambiguous commits; stop during a flush, with a time limit | every row is written or counted as dropped; stop ends |
| request pipeline (`api/routes/_pipeline.py`, `services/inference/_deployment_funding.py`) | the request in progress, the charge waiting in its session | reserve, set up, dispatch, settle, charge the organization, settle again, refund | every exit owes a settlement; a settlement fails half way or lands unacknowledged; the task is cancelled | budget, usage row and organization agree on every ending; a hold the request knows is given up once |
| attempt walk (`api/routes/_attempts.py`, `services/routing/_automatic.py`) | the candidate at hand, what is not yet recorded; load, cooldowns and bindings shared by a worker's walks | credential, admit, prepare, send, fail over, skip, lock in | each exit gives back another part of what the candidate took; walks share a bounded health table | failures are put on the right candidate; nothing is kept of a candidate passed over; no failover once locked in |
| streaming (`streaming.py`) | the relay of one stream, a bounded terminal buffer | relay, hold back, settle, attach the cost, finish, abandon | the client leaves at any suspension; reads across keepalives | chunks arrive complete and in order; one settlement, of the right kind, before the done marker |
| in-flight registry (`inflight.py`) | running requests | add, remove | a display only | nothing decides on it |
| rate limits (`rate_limit.py`, `adapters/rate_limit_store_adapter.py`) | windows with running totals, leases of slots, in Redis and in each process | count by phases, undo, settle, release, fall back | rules counted by concurrent tasks; Redis failing or answering late; cancellation; leases that expire | no more than the limit in a window; a refused request counts nowhere; a slot comes back |
| batches and videos (`api/routes/batches.py`, `api/routes/videos.py`, `services/batch_service.py`, `services/inference/_videos.py`) | a record per upstream job | create, record, poll, price, claim, charge, fold | a job outlives its request and is read by many at once | a job is billed once, and before its result is handed out; its row is written or counted as lost |
| routing (`services/routing`) | compiled policies | compile, decide | weights and fallbacks | a decision obeys its policy |
| tenancy, identity, API keys (`services/tenancy`, `services/identity`, `services/api_keys`) | organizations, members, invitations, sessions, keys | invite, accept, remove, sign in, revoke | last-owner and invitation races | an organization keeps an owner; an invitation is used once |
| files, code execution (`services/files`, `services/code_execution`) | stored files, container leases | upload, sweep, lease, reuse | expiry while in use | nothing in use is swept |
| traces (`services/traces`) | a buffer of spans | collect, write | back-pressure | bounded buffers |
| health checks (`services/health_checks`) | alert states | probe, raise, resolve | flapping | one alert per incident |
| tools and MCP (`services/_tool_loop.py`, `services/mcp_loop*.py`) | the rounds of one loop | call, append, top up | a bound on rounds; per-call holds | holds follow calls |
| pricing, catalog, settings, secrets, reports | tables and caches | read, refresh | stale caches | mostly data |

`PROJECT.json` lists every part with its sources and status, and under
`hazards` what is hard to test, each at its line with the properties that would
catch it.

### How the modelled parts interact

The middleware admits a request to the rate limits (`RateLimit`) and settles and
closes its grant when the response ends. The route claims the idempotency key
(`Idempotency`); its winner enters the pipeline (`RequestPipeline`), which
reserves budget (`BudgetLedger`: admission, top-ups as tools are called or the
prompt grows, a move when a fallback runs elsewhere), walks the candidates
(`AttemptWalk`, which counts each candidate's model in `RateLimit` and moves the
hold) and answers, or relays a stream (`Streaming`, whose one callback is an
ending of the pipeline). The ending writes a usage row through the log writer
(`LogWriter`), charges the organization and settles the hold in one commit. Work
that ends later is billed by its readers (`Jobs`).

No transaction spans two of these parts, so each has a module of its own. They
are tied together at the hold, the one thing most of them touch: `Settlement`
says what is promised about it, and both the ledger (many requests, the sweep,
every commit) and the pipeline (one request, every ending) are proved to
implement it. In the other modules a neighbour is what its interface answers:
in `AttemptWalk` the reservation is the amount it covers and the grant the set of
models counted, in `Streaming` a settlement is a task that ends.

## The modules

| module | what it is |
|---|---|
| `Settlement` | abstract: what is promised about the hold of a request |
| `BudgetLedger`, `MCBudgetLedger` | budget reservations, one action per commit; small sets, sizes and caps for it |
| `BudgetLedgerProofs` | types, row life cycle, billing, caps, the promise of `Settlement`, holds covered and not stranded, proved |
| `RequestPipeline`, `MCRequestPipeline` | the billable life of one request |
| `RequestPipelineProofs` | its properties, and that it implements `Settlement`, proved |
| `AttemptWalk`, `MCAttemptWalk` | the walk over a routing plan and the automatic router's feedback |
| `AttemptWalkProofs` | its properties, proved |
| `Streaming`, `MCStreaming` | the relay of one streamed response |
| `StreamingProofs` | its safety properties, proved |
| `RateLimit`, `MCRateLimit` | rate limit rules, grants and stores |
| `RateLimitProofs` | its properties, proved |
| `Idempotency`, `MCIdempotency` | one idempotency key and the requests that carry it |
| `IdempotencyProofs` | types, ownership, fencing, outages, billing, replays and stored responses, proved |
| `LogWriter`, `MCLogWriter` | the batching usage log writer |
| `LogWriterProofs` | types, the account of rows and the count of written ones, proved |
| `Jobs`, `MCJobs` | batches and videos |
| `JobsProofs` | types, billing, rows and hand-out, proved |

### BudgetLedger

A *counter* is a user row or a scoped ceiling; each has three axes: dollars,
tokens and requests. A *cell* is a counter and an axis. A request estimates its
size, holds it on every ceiling that binds it (in rank order, one commit each)
and on its user, and records the holds in one ledger row.

| variable | in the code |
|---|---|
| `reserved`, `used` | `reserved*` and `spend`/window columns of `users` and `scoped_budgets` |
| `row` | the `budget_reservations` row of a request and its lines: status, amounts |
| `expired`, `quiet`, `ended` | what time has done: a row past `expires_at`, a counter whose `updated_at` is older than a TTL, a window that is over |
| `budgeted` | users with a budget attached |
| `pc`, `leg`, `hdl`, `taken`, `top`, `changes` | locals of a request: place, what it read of its user, `ReservationHandle`, ceilings held so far, top-up in progress |
| `batch`, `phase`, `cand` | locals of a sweep: rows it listed (as they were then), place in the tick, quiet counters |
| `billed`, `first`, `over`, `doubled` | history: times billed, first finalization, use no hold covered, holds given back that a handle without a fence names still |

Every action is one commit, or one decision between two. Admission
(`reserve_budget`): `RejectUser`, `AdmitExempt`, `LoadUser`, `ListCeilings`,
`ReclaimOwn`, `HoldCeiling`/`RefuseCeiling`, `GiveBack`, `HoldUser`/`RefuseUser`,
`HoldUserUnsure` with `ReleaseUnrecorded` (a commit whose outcome is unknown),
`RecordHold`. Top-ups (`increase_reservation`, `hold_tool_call`): `StartTopUp`,
`LoadUserAgain`, `GrowUser`, `RefuseGrowth`, `GiveBackGrowth`, `GrowUserFails`,
`GrowRow`, `GrowRowFails`, `GrowLost`, `ReturnUserGrowth`. Moves
(`_reservation_moves.py`): `Move`, `RefuseMove`, `MoveReclaimed`, `MoveFails` (the
transaction failed) and `MoveUntold` (it landed, reported a failure, and
`landed()` could not tell). Ends: `Settle`, `Refund` (which claim the row first:
`Claims`, `Reclaimed`), `Crash`.
The sweeper (`run_reservation_sweeper`): `SweepList`, `Reclaim`, `SweepScan`,
`SweepClamp`, `SweepPrune`, `SweepFails`. The rest: `Expire`, `GoQuiet`,
`EndWindow`, `AssignBudget`.

Who may finalize (`MayFinalize`): a request that runs or was refused; any number
of later sites if its handle names a row, which makes them no-ops; and, without a
row, once more after a settlement that landed and reported a failure (place
`again`). Nothing fences that second settlement, because `try_terminate` of no id
is always true: it bills and releases again. `MoveUntold` is the other place where
a hold is given back twice: the old handle still names ceilings the move dropped,
or holds the move wrote into a new row. Both add what will be given back twice to
`doubled`, so that `HoldsCovered` says of every other release that it takes
nobody's hold. A move that reported a failure and was found to have landed is a
`Move`.

The gate of every hold (`Admits`) is the `WHERE` clause of the conditional
`UPDATE`, and a release is clamped at zero (`Less`) as
`release_reserved_expression` does: a release that is too large is therefore
silent on its counter, and shows only as another request's hold that vanished,
which is what `HoldsCovered` looks for.

Abstractions: amounts are small numbers, estimates are inputs, window calendars
are "a window ends", and time is the three flags above. A row is pruned only
after its request is over: the code's retention of an hour on top of the TTL is
taken to be longer than any request.

Faults are a parameter: `crash` (a process dies, or a settlement never
commits), `db` (a statement or commit of a reservation, a top-up, a move or a
settlement fails, or lands and is reported as failed), `record` (the row of a
ceilings-only hold fails to commit), `lie` (that commit lands and reports a
failure), `outlive` (a request outlives the TTL of its row), `stall` (a request
sits on an unrecorded hold for a whole TTL).

### Settlement and RequestPipeline

`Settlement` says per request the status of its `budget_reservations` row, whether
the request knows that row (`known`) and how often its use was recorded. A row is
opened once and ended once (settled, released or expired). The use of a request
that knows its row is recorded at most once, in the commit that ends the row or
after the sweep did, never after a release. A request that knows no row (it holds
nothing, or the row could not be written or was not acknowledged) is recorded
without one, and a second time only if commits may misreport (the constant
`Misreports`). `BudgetLedger` maps its rows, handles and history of bills to it,
`RequestPipeline` its one row.

`RequestPipeline` follows one request, of any kind (`req`: streamed or not,
several candidates or one, whether the deployment pays model and tools, flat
price, missing-usage policy, and what it holds on: a user's budget, ceilings alone,
nothing, or nothing because its key is exempt), through the functions of `_pipeline.py` that touch
money. `tools`, `usage`, `rows`, `cost`, `pend` and `grant` live with the request
(`pend` is the organization's charge in its savepoint, which lands with the next
commit and is lost with a rollback); `id` says that the handle names a row;
`status`, `spend`, `billed`, `side` and `funds` are in the database. `Reserve`
opens a row only for what is held, and the row of a hold on ceilings alone may be
lost; `HoldFallback` is a move that writes the first row later. `Reserve`, `DescribeImage`, `SetUp`, `Prepare` and
their refusals lead to the dispatch; `Answer`, `DispatchRefused`,
`DispatchFails`, `EndStream`, `BreakStream` and `LeaveStream` are its endings;
`Record` prices the ending and writes its row, `Commit` settles, `Again` is
`release_after_failed_settlement`, `Refund` the ending that owes nothing. Every
commit may fail, rolled back or landed. A settlement that landed and reported a
failure has claimed the row, so that `Again` does nothing; without a row `Again`
records the cost a second time. An exempt request adds nothing to the budget
(`Spent`), but its share is still charged to the organization. `CutOff` is a cancelled task or a dead
process at any await, `Sweep` the sweeper's claim. Prices are one constant per
part of the cost, so that parts cannot be confused.

### AttemptWalk

`plan`, `at` and `fate` are the walk: the ranked candidates, the one at hand and
what became of each. `hold` is what the reservation covers, `onModel` and
`counted` what the candidate's model holds of the rate limit, `unabsorbed`,
`skips` and `rows` what is still to be recorded and what was, `stopped` the
candidate `on_terminal` named. `active`, `cool`, `tracked` and `bound` are the
automatic router's `_Health` table and session bindings, shared by the walks of a
worker. `Rank` orders the plan as `AutomaticRouter.rank` does: by missing price,
then cooldown, then whose key, then region (`Weight`), with the session's
candidate in front if it may be (`Leads`); cost, load and latency order the rest
freely; `Credential`, `AdmitCandidate` (the move, then
the model's rules), `Prepare`, `TopUp` and `LockIn` are a candidate's steps;
`Succeed`, `FailRun`, `RefuseRun`, `Unreachable` and `Cancel` its ends, each with
its own `drop_admission`; `EndStream` closes a streamed observation later.

### Streaming

One `streaming_generator` between an upstream, whose read is a task that survives
keepalives, and a client that may leave wherever the generator is suspended
(`Suspended`). A chunk is its number with a set of marks: reports usage, may
carry the cost, completes the stream, cannot be formatted. `Take`, `TakeCarrier`
and `TakeHeld` are the loop with its buffer behind a cost carrier; `TakeEnd`,
`Settle`, `Deliver` the orderly end; `Fail` the error path; `Close` the `finally`
block. `Drop` is a response never started, whose body never runs: nothing of the
generator can settle it, and the hold is left to the sweep.

### RateLimit

A rule is a rule of the configuration with its subject. `log` and `total` are the
entries of every window and the running total beside them, `lease` the
concurrency slots, in Redis and in every process; `backoff` is how long a process
still counts locally after Redis failed it. One store call (a script in Redis, a
method under the lock in memory) is one step. `Admit` starts the two phases of
`RateLimitRules.admit`; `CountRule` is one store call of one rule's task, in any
order between rules; `EndPhase` goes on or undoes; `AdmitModel`, `Drop`,
`HandOver`, `Settle`, `Close` and `Release` are the grant's life, and `GiveBack`
each of its store calls. `Outage`, a late answer (the call landed, the process
counts locally), `Cancel` and `Crash` are the faults, `Tick` ages everything and
`Forget` is the clean-up of an idle key. A rule per model is counted under the
key of rule, model and subject (`_count_rule`), so each of its groups of keys
names one model, which the assumption on `Names` says.

### Jobs

One action per transaction or provider call of a handler, which keeps what it
read (`seen`, `owes`) across them. `Create` and `Keep` start a job and record it,
a video's record being tried twice; `Retrieve`, `Find`, `Ask` and `Remember` are a
read; `Price` decides what is owed at the price list of the moment; `Claim` waits
for the record's row lock and rereads it; `Log` is the batch's usage row, given to
the log writer before the claim commits, which may lose it (`dropped`; neither
writer's answer is looked at, and the accounting goes on); `Fold` is the commit of row (for a video), charge, spend
and `accounted_at`. `FoldFails` and `Crash` may have landed or not; `Reprice` adds
or removes a rate between reads.

### Idempotency

One key, since keys share no state. `row` is the `idempotency_keys` row: the
state, the owner's token, the fingerprint, the lock, the end of its retention,
and whether its response can be decrypted. `clock` is the clock of the database.
A round of `admit()` reads the time (`now`) and the record (`seen`) and acts on
both later: `CheckCaller`, `Insert`, `Find`, `TakeOver`, `AdmitFails`. The
heartbeat (`keep_claim_alive`) has `due` and `ends`, and `Renew` and
`RenewFails`. A run ends in `Succeed` and `Store`/`StoreFails`, or in `Fail` and
`Release`, then `Stop`. A failed request is refunded, or billed for the paid tools
it ran (`paid`), and gives its key back in both cases. `Cancel` is a cancelled task:
the guard releases the key, or, when the response was being stored, the store may
land or not (`cancelled`). `Crash` ends a request anywhere. `Sweep` is `delete_expired`,
`RotateSecret` makes a stored response unreadable, `GoDown` and `ComeUp` are an
outage. While the database is down, a commit may land or not, and the caller
sees an error in both cases.

Timing: no transaction and no wake-up is late by more than `Slack`
(`Tick` waits for them), and `Cadence + 2 * Slack < Lease`. The code renews
every third of the lease, so this says that the event loop and the database are
late by less than a third of the lease each. Without some such bound no lease
protocol keeps its promise.

### LogWriter

`queue` is the `asyncio.Queue`, `loop` and `stop` the places of the loop task
and of `stop()`, `batch` the rows in hand, `rest` what `_flush_all` took and did
not flush yet, `taken` the code's `_taken`, `db` the table, `written` and
`dropped` the two counters. `Put` never waits. The loop is `Collect`, then
`Write`, `Refuse`, `WriteFails` or `Break` (an error outside
`DATABASE_ERRORS`), and `Salvage` row by row after a refusal. `stop()` is `Stop`,
`TakeRest`, `NextChunk`, `CountLost`, and `Timeout` at any point of it. One
batch is in hand at a time, because `stop()` waits for the loop before it
flushes. Faults: `down`, `lie` (a commit lands and reports a failure), `break`,
`timeout`; the rows in `Refused` are refused for their contents.

## The runs

| run | question | constants | states |
|---|---|---|---|
| `ledger_faults` | does any release take another request's hold, is a use billed once, is the promise of `Settlement` kept? | a request of a budgeted user beside one whose hold on two of three ceilings may miss its row, and which tops up or moves once, keeping, adding and dropping a ceiling; crash, db, record, outlive | 522 k |
| `ledger_no_leak` | do caps survive races, and is nothing left behind? | two requests of different ceilings and a fallback that swaps them, two changes, a budget attached and detached, a window that rolls; record | 295 k |
| `ledger_returned` | does every hold come back in the end? | a budgeted request with one change and an exempt one on a free model, one ceiling; crash, db, outlive; fairness | 43 k |
| `ledger_lost_record` | expected violation: see findings | one request, one ceiling; lie | |
| `request_pipeline` | do budget, usage row, organization and hold agree on every ending? | every kind of request (on a budget, on ceilings alone with or without a row, on nothing, exempt), three failures, fairness | 439 k |
| `attempt_walk` | are failures, model holds and load accounted to the right candidate? | a plan of three beside a streamed plan of one of its candidates, one session, room for one health entry | 1.08 M |
| `streaming` | is every stream delivered in order and closed once, truthfully? | up to six chunks of all kinds, a buffer of four, all settings, fairness | 844 k |
| `rate_limits` | do windows, slots and refusals stay exact over two stores? | two requests on two replicas, a rule of every phase: tokens counted on use in report mode, slots in flight, tokens of the model; one fault of any kind | 2.02 M |
| `idempotency_kept` | does a running request keep its key, and is one response billed? | two requests, lease 8, cadence 3, slack 1, 9 moments, one outage of any length; crash, cancel | 7.5 M |
| `idempotency_faults` | are replays and stored responses sound? | three requests with two bodies, one unstorable response, retention shorter than the lease, one outage; crash, rotate | 5.5 M |
| `log_faults` | is every row counted, does `stop()` end, and are good rows written when nothing fails? | four rows, one refused, queue of three, batches of two, one retry; any set of faults; fairness | 229 k |
| `jobs` | is a job billed once, and before it is handed out? | one job of every kind, two handlers, three failures, lost rows, two price changes; fairness | 235 k |

The properties:

* `CapRespected`: use plus holds of a capped counter exceed its cap by no more
  than what settlements exceeded their estimates in this window.
* `HoldsCovered`: every counter holds at least what the requests that still
  count on it hold, less exactly what a handle that nothing fences gave back twice
  (`doubled`): no other release, sweep or clamp took somebody else's hold.
* `BilledOnce` of `BudgetLedger`: a request that settled first is billed, also when
  the sweep had reclaimed its row, and once if it knows its row; one that knows none
  at most twice, and once if no commit misreports.
* `ImplementsSettlement`: the promise of `Settlement`, in both modules.
* `NothingStranded`, `HandleMatchesRow`: without crashes and failing releases
  nothing is held that no request can give back, and a row records what its
  request would give back.
* `HoldsReturned`: once every request is over, every hold is returned.
* `SpendTrue`: the budget has exactly what the one usage row says, however the
  request ended; for a served answer also after one failure, landed or not; tools
  that ran are always billed. Only a request without a ledger row is recorded
  twice, and only after a failure; nothing is recorded for an exempt key.
* `FundsBacked`: the organization is never charged for what the budget did not
  record, and without failures for all of it. No budget records the use of an
  exempt key: there the bound is the usage row.
* `LetGo`, `HoldEnds`: a request that is over keeps hold or token estimate only
  after more failures than the code makes good, and in the end no hold.
* `RowsTrue`, `StoppedTrue` of `AttemptWalk`: absorbed and skipped rows are
  written for candidates the walk recovered from and only those; the request's
  failure is put on a candidate that was reached and ended it.
* `ModelsFreed`, `NoFallover`, `Consistent`: only the candidate at hand holds its
  model's slots, and one that was never sent the request is not counted; after
  lock-in no other candidate is tried; a candidate runs on a hold that covers it,
  and the load the ranking reads is exact.
* `Consistent`, `ClosedTrue`, `DoneSettled`, `CostInTime`, `StreamEnds` of
  `Streaming`: the client reads the chunks in order, none twice and none left
  out; one callback closes the request and tells what happened; the done marker
  follows the settlement; the cost goes on the last carrier before it is sent;
  a stream that was started is closed.
* `WindowsExact`: the running total is the sum of the stored entries, and the
  entries of a window fit under its limit. `RefusedUncounted`: a refused request
  is counted nowhere. `TokensTrue`: after the end the entries say what was used.
  `Consistent`: slots never exceed the limit and always have somebody to return
  them, unless a fault lost them to their lease.
* `OwnerKept`, `OutageNeeded`: a running request holds its key with a good lease
  until the database first fails, and after one outage loses it only if the
  outage lasted about a lease, less the pause it began in and the last pause.
* `BilledOnce` of `Idempotency`: once a request has its billed response, no other
  of the key runs and none has another one, unless its worker died or its task was
  cancelled. Paid tools of requests that failed are billed besides.
* `ReplaySound`, `StoredKept`, `ClaimFenced`: a replay is the billed response of
  a request with the same body; a stored response and a good claim are touched by
  nobody else.
* `Accounted`, `WrittenTrue`: when `stop()` returns every row is counted, as
  written or as dropped (only the rows of a salvage that was cut short are
  counted twice: `_taken` is lowered when the whole batch returns, while
  `_salvage` counts row by row); `written` never exceeds the table.
* `StopEnds`, `RowsKept`: `stop()` ends; in a life without faults every accepted
  row queued before the drain is written.
* `BilledOnce`, `RowsTrue`, `ServedBilled`, `HandlersEnd` of `Jobs`: owner and
  organization pay once, with the claim; an accounted video has its row, an
  accounted batch has one or the log writer lost it, and at most one more per
  failure; a read that found a rate hands out no
  result before the job is accounted; no reader waits for ever.

Four definitions state sentences of the code that the code does not keep, and no
passing run checks them: `RunningHeld`, `SpentOnce`, `KeyBilledOnce` and
`BatchLogged`, see [findings](#findings).

### Why the bounds are enough

The hazards of the ledger are between one request and one other actor: another
request, the sweep, or time. Two requests and the sweeper with two or three
ceilings give every such pair, partial progress over a list of ceilings, and in
`ledger_faults` one move that keeps a ceiling, adds one and drops one that the
other request holds. There the request that tops up or moves is the one that may
have no row, and the other one has a user's budget; top-ups of a user's budget
under failures are in `ledger_returned`. Caps are chosen so that one request fits,
two do not, or a top-up decides; `MaxChanges` of two in `ledger_no_leak` lets a
top-up follow a move and the other way round. Two requests are a claim and its
contender; `idempotency_faults` has a third, which meets what the takeover left.
The lease of eight with a cadence of three is close to the
code's ratio, `MaxClock` lets a lease lapse and be taken over, and an outage may
begin and end at every moment. `OutageNeeded` has one outage because a database
that comes and goes just at the attempts to renew defeats every pace, and asks that a delay is no longer than the shortest pause
between two attempts, `Slack <= Shortest` (a sixtieth of the lease in the code):
the proof showed, and TLC confirms with one request, that otherwise a claim can
lapse in a shorter outage (lease 13, cadence 2, shortest pause 1, slack 3).
`log_faults`
has batches smaller than the queue and fewer than the rows, so there is a second
batch, a full queue and a rest at the same time.

A request's endings do not depend on other requests, so `request_pipeline` has
one request and every kind of it; three failures exhaust every chain of retries
(the row, the settlement, the second settlement). The walk of three candidates
has a first, a middle and a last one, and the second walk meets the first at the
health table and the session. Six chunks against a buffer of four make the buffer
overflow after a carrier that was not the last, with a new carrier behind it. In
`rate_limits` one slot is fought over, one request's estimate exceeds the model's
limit by itself, and a window is one tick and a lease and a backoff as long, so
that entries, leases and backoffs run out in the middle of a request; one fault
per behaviour is every fault at every point. Requests per window are counted by
the same windows as tokens and are left out of the run for its size: with
`{"rpm", "tpm"}` on the model's rule and one request under the user's it has 3.2
million states, takes four minutes and passes too. Two handlers on a job are a winner and a loser of the claim; three
failures let the winner fail, the loser take over and fail as well.

Every run says `CHECK_DEADLOCK FALSE`: requests, streams and jobs end, the clock
is bounded and the writer stops, so each system really may stop.

### Fairness

`ledger_returned` assumes that time passes (a row expires, a counter goes quiet)
and that the sweeper's task, which sleeps an interval and survives every
exception, goes on ticking: weak fairness for the listing, strong fairness for
the later steps of a tick, since a tick may fail again and again but not for
ever at the same place. Requests get no fairness: a request may hang for ever.
A user whose budget is attached and detached for ever is never quiet; the run
has none. `log_faults` assumes that every call of the database returns, with
success or failure, and that the event loop runs what is runnable; nothing says
that calls succeed or that `put` stops.

`request_pipeline`: weak fairness of the request's own steps (its task runs, and
calls return or fail; being cut off is one of the ways it may end) and of the
sweep once the request is over. `streaming`: weak fairness of the generator (the
server drives it), of the settlement task and of the upstream's read, which ends
at the latest with the client library's timeout; the client is never forced to do
anything. `jobs`: weak fairness of each handler's next step, which covers the
wait for a row lock, because the database releases the lock of a connection that
commits, rolls back or dies; the provider need never finish a job.

## The proofs

Each theorem holds for all values of the constants that satisfy the `ASSUME`s of
its module, so for any number of users, ceilings, requests and rows.

| theorem | statement | argument |
|---|---|---|
| `BudgetLedgerProofs!TypeCorrect` | `Spec => []TypeOK` | one step per action; sums stay natural since releases are clamped |
| `BudgetLedgerProofs!RowLifecycleCorrect`, `BilledOnceCorrect` | `RowLifecycle`, `BilledOnce` if `"lie"` is not among the faults, with or without a row | `LifeInv` ties the row's status to the request's place: a request that is not done was never billed, one that is done with a handle on a row left it terminal, and one without a row is billed again only from the place `again`, which it leaves for good. `BilledOnce` alone is not inductive, because whether a late settlement bills depends on the status it finds |
| `BudgetLedgerProofs!CapCorrect` | `CapRespected`, any faults | `CapInv` is about every counter, also of users without a budget now (it may be attached in the next step), and says that the uncovered use is part of the use, so that a window that rolls keeps it; `TopFree` says why the gate need not ask a free request about dollars |
| `BudgetLedgerProofs!HoldsCorrect`, `LedgerCorrect` | `HoldsCovered`, if neither `"lie"` nor `"stall"` is among the faults; then the active rows of a counter exceed it by at most `doubled`, and without `"db"` never (`LedgerBacked`) | `CoverInv`: on every cell the claims of all requests add up to at most the counter and `doubled`. The claim of a request is what its handle, its row or the loop in progress may still take off, whichever is more, place by place. `FormInv` says which of them exist at which place, `ListInv` that a row a sweep listed has only grown since or is finalized, `QuietInv` that on a counter that was quiet for a TTL every claim is in its row, so that a clamp takes none |
| `BudgetLedgerProofs!RunningCorrect` | `RunningHeld`, if none of `"db"`, `"lie"`, `"stall"` is among the faults | without `"db"` nothing is ever doubled, and the claims of running requests are part of all claims; with `"db"` it is false, see findings |
| `BudgetLedgerProofs!MatchCorrect` | `HandleMatchesRow`, if neither `"db"` nor `"lie"` is among the faults | `MatchInv` says it at every place of a top-up or move, with what is in hand but not yet in the row, and what is in the row but not yet in the handle |
| `BudgetLedgerProofs!StrandedCorrect` | `NothingStranded`, if the faults are at most `{"record"}` | `BackInv`, the other direction of `CoverInv`: a counter carries no more than the claims. It needs `MatchInv`, since a release by the handle must take what the row claimed, and `CalmInv`, which says that without these faults no place of a lost hold is reached. With `"outlive"` it is false: see the first observation under findings |
| `IdempotencyProofs!TypeCorrect` | `Spec => []TypeOK` | one step per action |
| `IdempotencyProofs!OwnerCorrect` | `OwnerKept` | until the first outage: a reading is at most `Slack` old, a heartbeat at most `Slack` late, and the lock reaches a whole lease, less a pause and a delay, beyond the next renewal (`KeepInv`); uses `Cadence + 2 * Slack < Lease` |
| `IdempotencyProofs!OutageCorrect` | `OutageNeeded` | `CalmInv` carries the same `KeepInv` through one short outage: while the database is down the lease has been running for the length of the outage, a pause and a delay at most, and the next attempt still comes before it ends |
| `IdempotencyProofs!ClaimCorrect` | `ClaimFenced`, any faults | from `StoreInv`: whoever is about to take over read a claim that had lapsed, or one that is gone by now, and the conditional `UPDATE` compares owner and lock |
| `IdempotencyProofs!ReplayCorrect` | `ReplaySound`, any faults | `BillInv`: who stores was billed, and so was the owner of a stored row |
| `IdempotencyProofs!BilledCorrect` | `BilledOnce` | `OnceInv`, as long as no outage began and every response can be stored and read: a request with a billed response is storing, has stored, was cancelled or died, and otherwise the row is its own and readable; a second one could only be answered as owner of the row. From `KeepInv` |
| `IdempotencyProofs!StoredCorrect` | `StoredKept`, any faults | `StoreInv`: the owner of a stored row no longer works, and whoever is about to take over saw the claim stale or unreadable, which a stored response within its retention does not become again |
| `BudgetLedgerProofs!LedgerImplements` | `Spec => ImplementsSettlement` if `"lie"` is not among the faults | every action either leaves rows and bills alone or is one step of `Settlement`; `LifeInv` says which status a claim can find |
| `RequestPipelineProofs!SpendCorrect`, `FundsCorrect`, `LetGoCorrect`, `TypeCorrect` | `SpendTrue`, `FundsBacked`, `LetGo`, `TypeOK`, for any prices and any number of failures | the properties speak of requests that are over; the invariant carries them from the beginning: nothing is recorded early (`EarlyInv`), the budget has the row's cost once, not at all, or without a ledger row twice, and the organization no more than once (`MoneyInv`, `ChargeInv`), and what each place knows of hold, grant and tools (`PlaceInv`) |
| `RequestPipelineProofs!PipelineImplements` | `Spec => ImplementsSettlement` | from the same invariant, with or without a row; a commit that landed and reported a failure has claimed the row, so the second settlement is a stutter if the request knows its row, and otherwise records again, which `Settlement` allows to a request that knows none when commits misreport |
| `JobsProofs!BilledOnceCorrect`, `RowsCorrect`, `ServedCorrect`, `TypeCorrect` | `BilledOnce`, `RowsTrue`, `ServedBilled`, `TypeOK`, for any jobs, handlers, failures and price changes | `LockInv`: the row lock is held by exactly the handler past the claim; `HandlerInv`: under it the job is not accounted, and what the handler priced is still owed; `BillInv` counts rows with the one being folded, and says of a batch about to be folded that its row was written or lost |
| `LogWriterProofs!TypeCorrect`, `AccountedCorrect` | `TypeOK`, `Accounted`, any faults | `WriterInv`: who has the batch in hand (`ShapeInv`), and that queued, taken and counted rows add up (`CountInv`); `_taken` never goes negative because it covers batch and rest |
| `LogWriterProofs!WrittenCorrect` | `WrittenTrue`, any faults | `OnceInv`: a row is queued once, so a batch holds each of its rows once and a commit that lands adds as many rows as the batch is long; the size of the table is a cardinality |
| `AttemptWalkProofs!ConsistentCorrect`, `RowsCorrect`, `StoppedCorrect`, `ModelsCorrect`, `NoFalloverCorrect` | `Consistent`, `RowsTrue`, `StoppedTrue`, `ModelsFreed`, `NoFallover`, for any requests, plans, estimates and table size | `FateInv`: candidates behind the one at hand were skipped, not sent or failed, those ahead are untouched; `RecordInv`: what is to be recorded lies behind the candidate at hand; `OpenInv` and `LoadInv`: only the candidate at hand is observed, so the load is a number of requests |
| `StreamingProofs!ConsistentCorrect`, `ClosedCorrect`, `DoneCorrect`, `CostCorrect` | `Consistent`, `ClosedTrue`, `DoneSettled`, `CostInTime`, for any number of chunks and any buffer | what was sent, what is buffered and what is still to be read make up the stream (`HeldInv`, `PlainInv`, `CarrierInv`, `TerminalInv`, `ErrorInv`, one for each state of the generator); `CallInv` and `CauseInv` tie the callback made to what happened |
| `RateLimitProofs!ConsistentCorrect`, `WindowsCorrect`, `RefusedCorrect`, `TokensCorrect` | `Consistent`, `WindowsExact`, `RefusedUncounted`, `TokensTrue`, for any requests, processes, rules, limits and number of faults | `FreshInv`: a request has nothing yet where it is still to be counted, so a hit overwrites no entry; `EstInv` and `CallInv`: an entry costs what it was admitted for until the one call that settles it; `SlotInv`, `CountInv` and `TokenInv`: what is counted is named, about to be given back, or lost to a fault. The steps of the others only let entries fade (`AsideKeeps`) |

The inductive invariants hold on the instances of the runs as well (TLC).

Every invariant and action property that a passing run checks is proved. Only
model-checked: the liveness properties (`HoldsReturned`, `HoldEnds`,
`StreamEnds`, `HandlersEnd`, `StopEnds`, `RowsKept`), since TLAPS reasons about
neither fairness nor `ENABLED`. `RowLifecycle`, `RunningHeld` and, without lost
acknowledgements, `LedgerBacked` are proved and have no passing run.

Sums over sets of requests (`HoldsCovered`, `NothingStranded`, `WindowsExact`)
would need an induction over the set, which the provers cannot instantiate. They
are proved by counting: a sum of natural numbers is the cardinality of the set of
its units, the pairs of a request and a number up to its share, and how it changes
when one share does follows from the library's facts about cardinalities
(`TotalChange`). Where a numeric induction is unavoidable (the order of a plan)
it is a least counterexample, from the well-foundedness of the natural numbers.

## Findings

One run is expected to fail, against a sentence of the code; the details are in
`PROJECT.json`.

* `ledger_lost_record`: for a ceilings-only hold a commit of the ledger row that
  landed and reported a failure leaves an active row whose hold is then released
  through the handle; `services/budgets/_ledger.py` says that "the sweep never
  releases an amount that nobody holds".

Five more sentences of the code do not hold. The models do what the code does, the
properties of the runs say what is left of the promise, and where the sentence can
be stated of a model it is, with a configuration that gives the trace
(`tlc -config <cfg> <MC module>`):

* `services/budgets/_ledger.py:199`, `LedgerSettledTwice.cfg` (`RunningHeld`) and
  `PipelineTwice.cfg` (`SpentOnce`): `try_terminate` answers true for a handle
  without a row, which is what a user without a budget gets
  (`_ledger.py:76`), as does a ceilings-only hold whose row failed to commit. When
  the settlement of such a handle lands and reports a failure,
  `release_after_failed_settlement` settles it again: the spend is recorded twice,
  and a hold that has no row is released twice, out of another request's. The code
  says "the first caller to claim the ledger row does the work and any later one is
  a no-op, so two settlement sites firing for one request cannot release the hold
  twice" (`services/budgets/_reservations.py:1091`) and "A settlement that committed
  while reporting failure has claimed the ledger row, which makes this a no-op"
  (`api/routes/_pipeline.py:5394`). Both are true with a row.
* `services/budgets/_service.py:468`, `LedgerMoveUntold.cfg` (`RunningHeld`): a move
  that landed and reported a failure keeps the old handle when `_move_landed` cannot
  tell. The refund claims the active row and gives back by the handle, which names
  the ceilings the move left: "so a hold is never given back twice"
  (`services/budgets/_ledger.py:185`).
* `api/routes/_pipeline.py:5427`, `IdempotencyPaidTools.cfg` (`KeyBilledOnce`): a
  failed request is billed for the paid tools it ran and gives its key back, so the
  retry is billed too, with nothing wrong in the gateway: "a failed request is
  refunded, so a retry of it runs again" (`services/inference/_idempotency.py:7`).
* `api/routes/batches.py:907`, `JobLostRow.cfg` (`BatchLogged`): `log_batch_usage`
  ignores what `put()` answers (a single writer returns `False` after a database
  error, `services/log_writer.py:73`, a batching one drops rows), and the batch is
  accounted all the same, without a usage row for good: "bill and log a completed
  batch's usage exactly once" (`services/batch_service.py:4`).
* `services/budgets/_reservations.py:1144`: the reconcile of a budget-exempt request
  writes no spend, but its deployment-paid share is charged to the organization, so
  the organization pays what no budget recorded (`FundsBacked`, with `Recorded`).

Observed while modelling, and part of the models as the code has it:

* `services/budgets/_ledger.py:239`: the sweep returns the user's amounts as they
  were when it listed the row. A top-up that commits between the listing and the
  claim makes the row terminal with the growth still on the user; the orphan pass
  repairs it after a quiet TTL (`HoldsReturned` includes this).
* `services/budgets/_ledger.py:325`: the orphan pass returns an unledgered hold of
  a running request after a quiet TTL (fault `stall`).
* `services/log_writer.py:155`: when `stop_timeout` passes while the loop flushes,
  the loop swallows the cancellation and the drain goes on.
* `api/routes/_attempts.py:450`: there is one slot for a failure that is not yet
  recorded. A second failure before the request was sent again, for instance in
  `prepare_kwargs`, overwrites the first, whose absorbed row is never written
  (`RowsTrue` therefore says what the rows that exist mean, not that all exist).
* `streaming.py:386`: the error path formats the buffered chunks again. When one of
  them is what could not be formatted, the second attempt raises out of the error
  path, the client gets no error event, and the request is closed by
  `on_incomplete` in the `finally` block, while the docstring has `on_error`
  "called with the raised exception on failure" (`OutcomeTrue` allows for it).
* `services/inference/_deployment_funding.py:91`: the second settlement after a
  failed one records the spend but does not charge the organization again, so
  after a rolled back settlement the organization pays less than its budget says;
  `FundsBacked` is an inequality for that reason.

Two limits have no property. One tick of the sweep reclaims a bounded number of
rows (`services/budgets/_ledger.py:302`): a backlog only delays a return. A
terminal row is pruned after its retention (`services/budgets/_ledger.py:426`): a
settlement later than TTL and retention together would find no row; the model
takes the retention to be longer than any request.

## What is not modelled

* Data: prices and estimates (inputs), token merging, refusal texts, response
  headers, wire formats and their translation (`services/inference` bridges),
  calendars of budget periods, parsing and authorization of a request.
* Within modelled parts: deletion of a user or ceiling that holds something; the
  size of a sweep's batch; `SingleLogWriter` (one transaction per row; its
  refusal is the loss of a batch's row in `Jobs`) and the wrappers
  around a log row; the older per-user limiter (one window without
  settlement); holding a stream's response for its first chunk; cancelling and
  listing jobs and the content of a video; pass-through routes, which settle
  through the pipeline's functions.
* Whole parts: budget, user and tenant administration, identity and sessions, API
  keys, files, code execution, traces and health checks (small machines, see the
  plan); pricing, providers, catalog, settings and secrets (tables, caches and
  cryptography); routing policies (pure functions of the configuration; the
  automatic router's state is in `AttemptWalk`); the in-flight registry (a
  display); usage reports (reads); tools and MCP servers (external calls, whose
  holds are the tool top-ups of `BudgetLedger` and whose cost is in
  `RequestPipeline`).
* The dashboard, the command line and hook programs, migrations, scripts and the
  search and fetch libraries: user interface, schema, or clients of other
  services. They are most of the repository's lines.

## Plan

1. An abstract specification of a key ("answered by one response") and the proof
   that `Idempotency` implements it.
2. `NothingStranded` with crashes, failed commits and late requests, as a bound on
   what is stranded until the orphan pass instead of its absence.
