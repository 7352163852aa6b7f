----------------------------- MODULE Idempotency -----------------------------
(***************************************************************************)
(* Idempotency keys of completion requests (services/inference): requests  *)
(* that carry one key race for its row, the winner keeps its claim alive   *)
(* with a heartbeat while it runs and stores its response, and the others  *)
(* are given that response, told to come back, or take over a claim whose  *)
(* lease lapsed. Keys do not interact, so the module has one.              *)
(*                                                                         *)
(* Time is the clock of the database. A transaction that reads it uses the *)
(* reading later: no transaction, and no wake-up of a heartbeat, is late   *)
(* by more than Slack.                                                     *)
(***************************************************************************)
EXTENDS Integers

CONSTANTS
  Requests,     \* requests that carry the key, each with a token of its own
  NoOne,        \* no request
  Hash,         \* the fingerprint of what each request asks for
  Unstorable,   \* requests whose response is too large, or not encryptable
  Lease,        \* idempotency_lease_sec
  Cadence,      \* a third of it: the pause between two renewals
  Shortest,     \* a sixtieth of it: the shortest pause after a failed one
  Retention,    \* idempotency_retention_sec
  Slack,        \* bound: how late a transaction or a wake-up may be
  MaxOutages,   \* bound: outages of the database
  Faults,       \* what may go wrong, a subset of FaultKinds
  MaxClock      \* bound: the last moment

\* crash:  the worker of a request dies
\* cancel: the task of a request is cancelled (a shutdown that does not wait)
\* rotate: the key that encrypted a stored response is rotated away
FaultKinds == {"crash", "cancel", "rotate"}

ASSUME RequestsAssumption ==
  /\ NoOne \notin Requests
  /\ Unstorable \subseteq Requests
  /\ DOMAIN Hash = Requests
  /\ Faults \subseteq FaultKinds
ASSUME TimesAssumption ==
  /\ {Lease, Cadence, Shortest, Retention} \subseteq Nat \ {0}
  /\ {Slack, MaxOutages, MaxClock} \subseteq Nat
  /\ Cadence + 2 * Slack < Lease

VARIABLES
  row,       \* the idempotency_keys row
  clock,     \* clock_timestamp() of the database
  down,      \* whether the database is unreachable
  pc,        \* where each request is
  tries,     \* rounds of admit() that found the claim changed
  now,       \* the time read in the round's transaction
  seen,      \* the record the round read
  beating,   \* whether the heartbeat of a request runs
  due,       \* when it tries to renew next
  ends,      \* when it believes the lease to end
  \* history
  billed,    \* requests that ran to a billed response
  paid,      \* requests that failed, and were billed for the tools they ran
  cancelled, \* requests whose task was cancelled
  got,       \* whose response a request was given as a replay
  outages,   \* outages so far
  outage     \* the length of the last one

claimVars == <<tries, now, seen>>
beatVars  == <<beating, due, ends>>
history   == <<billed, paid, cancelled, got>>
world     == <<clock, down, outages, outage>>
vars == <<row, clock, down, pc, tries, now, seen, beating, due, ends,
          billed, paid, cancelled, got, outages, outage>>

-----------------------------------------------------------------------------
Rows == [state : {"running", "stored"}, owner : Requests, lock : Nat,
         keep : Nat, readable : BOOLEAN]
NoRow == [state |-> "none", owner |-> NoOne, lock |-> 0, keep |-> 0,
          readable |-> FALSE]

Places == {"new", "admit", "find", "take", "running", "storing", "releasing",
           "stopping", "done", "refused", "reused", "inflight", "replayed",
           "failed", "dead"}
Working == {"running", "storing", "releasing"}

MaxOf(m, n) == IF m >= n THEN m ELSE n
MinOf(m, n) == IF m <= n THEN m ELSE n

\* The readings of the clock a statement may use now.
Recent == {t \in 0..clock : clock - t <= Slack}

\* What insert_claim and take_over write: a claim by r, made at t. It is kept
\* at least as long as its lease.
ClaimOf(r, t) ==
  [state |-> "running", owner |-> r, lock |-> t + Lease,
   keep |-> t + MaxOf(Lease, Retention), readable |-> FALSE]

\* The claim is still r's: the condition of every UPDATE and DELETE by token.
Holds(r) == row.state = "running" /\ row.owner = r

\* Mutant of Stale: a stored response lapses with the lease of its claim.
StaleLease(s, t) == s.lock <= t

\* A running claim is stale once its lease lapses, a stored response once its
\* retention does.
Stale(s, t) == IF s.state = "running" THEN s.lock <= t ELSE s.keep <= t

\* Mutant of Unchanged: the state of the claim is not compared.
UnchangedOwner(r) ==
  /\ row.owner = seen[r].owner
  /\ seen[r].state = "running" => row.lock <= now[r]

\* The condition of take_over: the claim is as seen, and not renewed since.
Unchanged(r) ==
  /\ row.state = seen[r].state /\ row.owner = seen[r].owner
  /\ row.state = "running" => row.lock <= now[r]

Goto(r, where) == pc' = [pc EXCEPT ![r] = where]

Init ==
  /\ row = NoRow /\ clock = 0 /\ down = FALSE
  /\ pc = [r \in Requests |-> "new"]
  /\ tries = [r \in Requests |-> 0]
  /\ now = [r \in Requests |-> 0]
  /\ seen = [r \in Requests |-> NoRow]
  /\ beating = [r \in Requests |-> FALSE]
  /\ due = [r \in Requests |-> 0]
  /\ ends = [r \in Requests |-> 0]
  /\ billed = {} /\ paid = {} /\ cancelled = {} /\ got = [r \in Requests |-> NoOne]
  /\ outages = 0 /\ outage = 0

-----------------------------------------------------------------------------
(* Admission.                                                              *)

\* The user exists and is not blocked, or the request is refused.
CheckCaller(r) ==
  /\ pc[r] = "new" /\ ~down
  /\ Goto(r, "admit") \/ Goto(r, "refused")
  /\ UNCHANGED <<row, claimVars, beatVars, history, world>>

\* admit() returns; what its rounds read is forgotten.
EndAdmit(r, where) ==
  /\ tries' = [tries EXCEPT ![r] = 0]
  /\ now' = [now EXCEPT ![r] = 0]
  /\ seen' = [seen EXCEPT ![r] = NoRow]
  /\ Goto(r, where)

ChangesBeforeConflict == 3

\* The claim changed under this round: look again, a few times.
Retry(r) ==
  IF tries[r] + 1 = ChangesBeforeConflict THEN EndAdmit(r, "inflight")
  ELSE /\ tries' = [tries EXCEPT ![r] = @ + 1]
       /\ now' = [now EXCEPT ![r] = 0]
       /\ seen' = [seen EXCEPT ![r] = NoRow]
       /\ Goto(r, "admit")

\* The claim is r's: the request runs and its heartbeat starts.
StartRun(r, t) ==
  /\ row' = ClaimOf(r, t)
  /\ beating' = [beating EXCEPT ![r] = TRUE]
  /\ due' = [due EXCEPT ![r] = clock + Cadence]
  /\ ends' = [ends EXCEPT ![r] = clock + Lease]
  /\ EndAdmit(r, "running")

\* insert_claim: the key is free, or the transaction goes on to read its row.
Insert(r) ==
  /\ pc[r] = "admit" /\ ~down
  /\ \E t \in Recent :
       \/ row = NoRow /\ StartRun(r, t)
       \/ /\ row # NoRow
          /\ now' = [now EXCEPT ![r] = t]
          /\ Goto(r, "find")
          /\ UNCHANGED <<row, tries, seen, beatVars>>
  /\ UNCHANGED <<history, world>>

\* Mutant of Answer: any stored response is replayed.
AnswerAny(r) ==
  IF Stale(row, now[r]) THEN "take"
  ELSE IF row.state = "stored"
       THEN IF row.readable THEN "replayed" ELSE "take"
       ELSE "inflight"

\* What a round does with the record it read.
Answer(r) ==
  IF Stale(row, now[r]) THEN "take"
  ELSE IF Hash[row.owner] # Hash[r] THEN "reused"
  ELSE IF row.state = "stored"
       THEN IF row.readable THEN "replayed" ELSE "take"
       ELSE "inflight"

Find(r) ==
  /\ pc[r] = "find" /\ ~down
  /\ \/ row = NoRow /\ Retry(r)
     \/ /\ row # NoRow /\ Answer(r) = "take"
        /\ seen' = [seen EXCEPT ![r] = row]
        /\ Goto(r, "take")
        /\ UNCHANGED <<tries, now>>
     \/ row # NoRow /\ Answer(r) # "take" /\ EndAdmit(r, Answer(r))
  /\ got' = [got EXCEPT ![r] = IF pc'[r] = "replayed" THEN row.owner ELSE @]
  /\ UNCHANGED <<row, beatVars, billed, paid, cancelled, world>>

TakeOver(r) ==
  /\ pc[r] = "take" /\ ~down
  /\ \/ Unchanged(r) /\ StartRun(r, now[r])
     \/ ~Unchanged(r) /\ Retry(r) /\ UNCHANGED <<row, beatVars>>
  /\ UNCHANGED <<history, world>>

\* The database fails a round, and with it the request: it holds no claim, but
\* the commit of one may have landed, which is left to lapse.
AdmitFails(r) ==
  /\ pc[r] \in {"new", "admit", "find", "take"} /\ down
  /\ \/ UNCHANGED row
     \/ pc[r] = "admit" /\ row = NoRow /\ \E t \in Recent : row' = ClaimOf(r, t)
     \/ pc[r] = "take" /\ Unchanged(r) /\ row' = ClaimOf(r, now[r])
  /\ EndAdmit(r, "failed")
  /\ UNCHANGED <<beatVars, history, world>>

-----------------------------------------------------------------------------
(* The heartbeat: keep_claim_alive.                                        *)

StopBeat(r) ==
  /\ beating' = [beating EXCEPT ![r] = FALSE]
  /\ due' = [due EXCEPT ![r] = 0]
  /\ ends' = [ends EXCEPT ![r] = 0]

\* Mutant of RetryDelay: a failed renewal is tried again at the usual pace.
RetryDelayUsual(left) == Cadence

\* After a failed renewal the pause shrinks with the lease that is left.
RetryDelay(left) == MinOf(Cadence, MaxOf(left \div 4, Shortest))

\* Mutant of Renewed: the lease is not pushed out.
RenewedNot(t) == row

\* extend_lease.
Renewed(t) == [row EXCEPT !.lock = t + Lease]

\* A heartbeat that finds its claim gone or stored ends.
Renew(r) ==
  /\ beating[r] /\ clock >= due[r] /\ ~down
  /\ \/ /\ Holds(r)
        /\ \E t \in Recent : row' = Renewed(t)
        /\ due' = [due EXCEPT ![r] = clock + Cadence]
        /\ ends' = [ends EXCEPT ![r] = clock + Lease]
        /\ UNCHANGED beating
     \/ ~Holds(r) /\ StopBeat(r) /\ UNCHANGED row
  /\ UNCHANGED <<pc, claimVars, history, world>>

\* The renewal fails, or lands and reports a failure.
RenewFails(r) ==
  /\ beating[r] /\ clock >= due[r] /\ down
  /\ \/ UNCHANGED row
     \/ Holds(r) /\ \E t \in Recent : row' = Renewed(t)
  /\ due' = [due EXCEPT ![r] = clock + RetryDelay(ends[r] - clock)]
  /\ UNCHANGED <<pc, beating, ends, claimVars, history, world>>

-----------------------------------------------------------------------------
(* The end of a request: IdempotencyGuard.complete and release.            *)

\* The provider answered and the request is billed.
Succeed(r) ==
  /\ pc[r] = "running"
  /\ billed' = billed \cup {r}
  /\ Goto(r, "storing")
  /\ UNCHANGED <<row, claimVars, beatVars, paid, cancelled, got, world>>

\* The request failed and is refunded, or, when the gateway ran paid tools for
\* it, billed for them (release_reservation, _log_failure_and_refund). Its key is
\* given back either way.
Fail(r) ==
  /\ pc[r] = "running"
  /\ Goto(r, "releasing")
  /\ paid' \in {paid, paid \cup {r}}
  /\ UNCHANGED <<row, claimVars, beatVars, billed, cancelled, got, world>>

\* Mutant of Storable: the claim may be another request's by now.
StorableAny(r) == row.state = "running"

\* The condition of the UPDATE that stores a response.
Storable(r) == Holds(r)

Stored(t) == [row EXCEPT !.state = "stored", !.keep = t + Retention, !.readable = TRUE]

\* A response that cannot be stored gives the key back; a claim that was taken
\* over is left alone.
Store(r) ==
  /\ pc[r] = "storing"
  /\ \/ /\ r \in Unstorable
        /\ Goto(r, "releasing")
        /\ UNCHANGED row
     \/ /\ r \notin Unstorable /\ ~down
        /\ Goto(r, "stopping")
        /\ IF Storable(r) THEN \E t \in Recent : row' = Stored(t) ELSE UNCHANGED row
  /\ UNCHANGED <<claimVars, beatVars, history, world>>

\* The store fails, or lands and reports a failure: the claim is left to lapse.
StoreFails(r) ==
  /\ pc[r] = "storing" /\ r \notin Unstorable /\ down
  /\ Goto(r, "stopping")
  /\ \/ UNCHANGED row
     \/ Storable(r) /\ \E t \in Recent : row' = Stored(t)
  /\ UNCHANGED <<claimVars, beatVars, history, world>>

\* The DELETE of a claim.
Released == NoRow

\* The claim is deleted if it is still r's; when the database fails, it may be.
Release(r) ==
  /\ pc[r] = "releasing"
  /\ Goto(r, "stopping")
  /\ \/ Holds(r) /\ row' = Released
     \/ (Holds(r) => down) /\ UNCHANGED row
  /\ UNCHANGED <<claimVars, beatVars, history, world>>

\* The heartbeat is cancelled last, so the claim stays renewed until then.
Stop(r) ==
  /\ pc[r] = "stopping"
  /\ StopBeat(r)
  /\ Goto(r, "done")
  /\ UNCHANGED <<row, claimVars, history, world>>

\* The request's task is cancelled. The guard gives the key back on the way out,
\* unless the response was being stored, which may still land (complete).
Cancel(r) ==
  /\ "cancel" \in Faults
  /\ pc[r] \in {"running", "storing"}
  /\ cancelled' = cancelled \cup {r}
  /\ \/ Goto(r, "releasing") /\ UNCHANGED row
     \/ /\ pc[r] = "storing" /\ r \notin Unstorable
        /\ Goto(r, "stopping")
        /\ \/ UNCHANGED row
           \/ Storable(r) /\ \E t \in Recent : row' = Stored(t)
  /\ UNCHANGED <<claimVars, beatVars, billed, paid, got, world>>

\* The worker dies.
Crash(r) ==
  /\ "crash" \in Faults
  /\ pc[r] \in Working \cup {"admit", "find", "take", "stopping"}
  /\ StopBeat(r)
  /\ EndAdmit(r, "dead")
  /\ UNCHANGED <<row, history, world>>

-----------------------------------------------------------------------------
(* The sweep, the database and time.                                       *)

\* delete_expired: the retention has passed and no live claim is on it.
Expired(t) == /\ row # NoRow /\ row.keep <= t
              /\ row.state = "stored" \/ row.lock <= t

Sweep ==
  /\ ~down
  /\ \E t \in Recent : Expired(t)
  /\ row' = NoRow
  /\ UNCHANGED <<pc, claimVars, beatVars, history, world>>

RotateSecret ==
  /\ "rotate" \in Faults
  /\ row.readable
  /\ row' = [row EXCEPT !.readable = FALSE]
  /\ UNCHANGED <<pc, claimVars, beatVars, history, world>>

GoDown ==
  /\ ~down /\ outages < MaxOutages
  /\ down' = TRUE /\ outages' = outages + 1
  /\ outage' = 0
  /\ UNCHANGED <<row, clock, pc, claimVars, beatVars, history>>

ComeUp ==
  /\ down
  /\ down' = FALSE
  /\ UNCHANGED <<row, clock, outages, outage, pc, claimVars, beatVars, history>>

Tick ==
  /\ clock < MaxClock
  /\ \A r \in Requests :
       /\ pc[r] \in {"find", "take"} => clock - now[r] < Slack
       /\ beating[r] => clock < due[r] + Slack
  /\ clock' = clock + 1
  /\ outage' = IF down THEN outage + 1 ELSE outage
  /\ UNCHANGED <<row, down, outages, pc, claimVars, beatVars, history>>

Request(r) ==
  \/ CheckCaller(r) \/ Insert(r) \/ Find(r) \/ TakeOver(r) \/ AdmitFails(r)
  \/ Renew(r) \/ RenewFails(r)
  \/ Succeed(r) \/ Fail(r) \/ Store(r) \/ StoreFails(r) \/ Release(r)
  \/ Stop(r) \/ Cancel(r) \/ Crash(r)

Next ==
  \/ \E r \in Requests : Request(r)
  \/ Sweep \/ RotateSecret \/ GoDown \/ ComeUp \/ Tick

Spec == Init /\ [][Next]_vars

-----------------------------------------------------------------------------
(* Properties.                                                             *)

\* Every variable has its type.
TypeOK ==
  /\ row \in Rows \cup {NoRow} /\ clock \in Nat /\ down \in BOOLEAN
  /\ pc \in [Requests -> Places]
  /\ tries \in [Requests -> 0..ChangesBeforeConflict - 1]
  /\ now \in [Requests -> Nat]
  /\ seen \in [Requests -> Rows \cup {NoRow}]
  /\ beating \in [Requests -> BOOLEAN]
  /\ due \in [Requests -> Nat] /\ ends \in [Requests -> Nat]
  /\ billed \subseteq Requests /\ paid \subseteq Requests /\ cancelled \subseteq Requests
  /\ got \in [Requests -> Requests \cup {NoOne}]
  /\ outages \in Nat /\ outage \in Nat

\* "A retry can then take the key over only once the worker running the
\* request is gone" (keep_claim_alive): until the database fails, a request
\* that runs holds the key and its lease is good, however long it runs. So no
\* two requests of one key run at once.
OwnerKept ==
  outages = 0 =>
    \A r \in Requests : pc[r] \in Working => Holds(r) /\ row.lock > clock

\* "The claim lapses only when the database stays unreachable for about the
\* whole lease" (keep_claim_alive): with one outage, and delays no longer than
\* the shortest pause, a running request loses its claim only if the outage
\* lasted about as long as the lease, less the pause in which it began and the
\* last pause.
OutageNeeded ==
  outages <= 1 /\ Slack <= Shortest =>
    \A r \in Requests :
      pc[r] \in Working /\ ~(Holds(r) /\ row.lock > clock) =>
        outage + Cadence + Shortest + 3 * Slack >= Lease

\* Until the database fails, and while the retention lasts, a key has one billed
\* response: once a request has it, no other request with the key runs, and none
\* was answered before, unless a worker died or a task was cancelled. What else is
\* billed are the paid tools of requests that had failed before.
BilledOnce ==
  outages = 0 /\ Unstorable = {} /\ "rotate" \notin Faults /\ MaxClock < Retention =>
    \A q \in billed :
      \/ pc[q] = "dead" \/ q \in cancelled
      \/ \A r \in Requests \ {q} :
           /\ pc[r] \notin Working
           /\ r \in billed => pc[r] = "dead" \/ r \in cancelled

\* "Only a success is stored: a failed request is refunded, so a retry of it runs
\* again" (_idempotency.py): while nothing goes wrong in the gateway, no two
\* requests with one key are billed. The code bills the tools of a failed one.
KeyBilledOnce ==
  outages = 0 /\ Unstorable = {} /\ Faults = {} /\ MaxClock < Retention =>
    \A q, r \in billed \cup paid : q = r

\* A replay is the billed response to the same request as the one replayed to.
ReplaySound ==
  \A r \in Requests : pc[r] = "replayed" =>
    got[r] \in billed /\ Hash[got[r]] = Hash[r]

\* A stored response that can be read stays until its retention ends: no late
\* request, retry or sweep replaces or deletes it, in whatever order they come.
StoredKept ==
  [][row.state = "stored" /\ row.readable /\ clock < row.keep =>
       row' \in {row, [row EXCEPT !.readable = FALSE]}]_vars

\* A claim whose lease is good changes hands only by its owner giving it back:
\* neither a retry nor a late end of another request touches it.
ClaimFenced ==
  [][\A r \in Requests :
       Holds(r) /\ row.lock > clock /\ ~Holds(r)' => pc[r] \in Working /\ pc'[r] = "stopping"]_vars
=============================================================================
