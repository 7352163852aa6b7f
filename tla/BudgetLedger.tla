---------------------------- MODULE BudgetLedger ----------------------------
(***************************************************************************)
(* Budget reservations of the gateway (services/budgets): the conditional  *)
(* holds a request takes on its user row and on the scoped ceilings, the   *)
(* ledger row that makes the holds reclaimable, their top-ups and moves,   *)
(* settlement and refund, and the sweeper that returns what leaked.        *)
(*                                                                         *)
(* Every action is one database commit (or one decision between two        *)
(* commits): that is the granularity at which requests interleave, because *)
(* no lock is held from one commit of a request to the next.               *)
(***************************************************************************)
EXTENDS Integers, FiniteSets

CONSTANTS
  Users,          \* rows of the users table
  Ceilings,       \* rows of the scoped_budgets table
  Requests,       \* billable requests, each with at most one ledger row
  Sweeper,        \* the background sweep task
  NoCap,          \* a limit column that is NULL
  Cap,            \* [Cells -> Nat or NoCap]: the limits of the budgets
  Rank,           \* the total order in which ceilings are held
  UserOf,         \* the user a request bills
  Primary,        \* the ceilings that bind the request's first provider
  Fallback,       \* the ceilings that bind its fallback's provider
  Size,           \* the estimate at admission, per axis
  Grown,          \* the estimate after the prompt grew, per axis
  FallbackUsd,    \* the estimate of the fallback, in dollars
  ToolUsd,        \* what one billable tool call adds, in dollars
  Uses,           \* the possible measured uses of a request, per axis
  Free,           \* requests on free models: no dollar axis
  Exempt,         \* requests of a key flagged exclude_from_budget
  Budgeted,       \* users that start with a budget attached
  Reassigned,     \* users whose budget is attached and detached meanwhile
  Windowed,       \* counters whose budget has a reset period
  MaxChanges,     \* bound: top-ups and moves of one request
  Faults          \* what may go wrong, a subset of FaultKinds

\* crash:   a request's process dies, or its settlement never commits
\* db:      a statement or a commit fails, or a commit lands and reports a failure
\* record:  the ledger row of a ceilings-only hold fails to commit
\* lie:     ... or commits and reports a failure
\* outlive: a request outlives the TTL of its ledger row
\* stall:   a request sits on a hold no row records for a whole TTL
FaultKinds == {"crash", "db", "record", "lie", "outlive", "stall"}

Axes     == {"usd", "tokens", "requests"}
Counters == Users \cup Ceilings
Cells    == Counters \X Axes
Procs    == Requests \cup {Sweeper}
Amt      == [Axes -> Nat]      \* HeldAmounts: one figure per axis
Amounts  == [Cells -> Nat]     \* figures for every counter

ASSUME SetsAssumption ==
  /\ IsFiniteSet(Requests)
  /\ Users \cap Ceilings = {}
  /\ Sweeper \notin Requests
  /\ NoCap \notin Nat
ASSUME RequestAssumption ==
  /\ UserOf \in [Requests -> Users]
  /\ Primary \in [Requests -> SUBSET Ceilings]
  /\ Fallback \in [Requests -> SUBSET Ceilings]
  /\ Size \in [Requests -> Amt]
  /\ Grown \in [Requests -> Amt]
  /\ FallbackUsd \in [Requests -> Nat]
  /\ Uses \in [Requests -> SUBSET Amt]
  /\ MaxChanges \in [Requests -> Nat]
  /\ \A r \in Requests : Size[r]["requests"] = 1 /\ Grown[r]["requests"] = 0
  /\ \A r \in Free : Size[r]["usd"] = 0 /\ Grown[r]["usd"] = 0
ASSUME ParameterAssumption ==
  /\ Cap \in [Cells -> Nat \cup {NoCap}]
  /\ Rank \in [Ceilings -> Nat]
  /\ \A c, d \in Ceilings : Rank[c] = Rank[d] => c = d
  /\ ToolUsd \in Nat
  /\ Free \subseteq Requests /\ Exempt \subseteq Requests
  /\ Budgeted \subseteq Users /\ Reassigned \subseteq Users
  /\ Windowed \subseteq Counters
  /\ Faults \subseteq FaultKinds

VARIABLES
  \* the database
  reserved,   \* reserved, reserved_tokens, reserved_requests of each counter
  used,       \* spend and the window's token and request counters
  row,        \* the budget_reservations row of each request, with its lines
  expired,    \* requests whose row is past expires_at
  quiet,      \* counters not written for a TTL (updated_at < cutoff)
  ended,      \* counters whose window is over and not rolled yet
  budgeted,   \* users that have a budget attached
  \* local state of the requests
  pc,         \* where each request is
  leg,        \* what it read of its user row: see LoadUser
  hdl,        \* its ReservationHandle
  taken,      \* ceilings held so far by the loop of reserve()
  top,        \* the growth of its top-up in progress
  changes,    \* top-ups and moves so far
  \* local state of the sweeps
  batch,      \* rows listed as expired, as they were when listed
  phase,      \* the sweeper's place in its tick
  cand,       \* counters the sweeper picked as quiet
  \* history
  billed,     \* times the use of a request was recorded
  first,      \* the first finalization of a request
  over,       \* use recorded in this window that no hold covered
  doubled     \* holds given back that a handle without a fence names still

sweepVars == <<batch, phase, cand>>
history   == <<billed, first, over, doubled>>
vars == <<reserved, used, row, expired, quiet, ended, budgeted,
          pc, leg, hdl, taken, top, changes, batch, phase, cand,
          billed, first, over, doubled>>

-----------------------------------------------------------------------------
(* Amounts.                                                                *)

Zero    == [a \in Axes |-> 0]
Nothing == [k \in Cells |-> 0]

Plus(f, g)   == [k \in DOMAIN f |-> f[k] + g[k]]
Larger(f, g) == [k \in DOMAIN f |-> IF f[k] >= g[k] THEN f[k] ELSE g[k]]

\* Subtraction clamped at zero: how every release is written.
Less(f, g) == [k \in DOMAIN f |-> IF f[k] >= g[k] THEN f[k] - g[k] ELSE 0]

\* `user` on the row of r's user when onUser, `scoped` on each ceiling of S.
Holding(r, onUser, user, S, scoped) ==
  [k \in Cells |-> IF k[1] = UserOf[r] THEN IF onUser THEN user[k[2]] ELSE 0
                   ELSE IF k[1] \in S THEN scoped[k[2]] ELSE 0]

OnCeilings(r, S, amt) == Holding(r, FALSE, Zero, S, amt)
OnUser(r, amt)        == Holding(r, TRUE, amt, {}, Zero)

\* The counters on which an amount is positive: the rows an UPDATE writes.
Support(f) == {c \in Counters : \E a \in Axes : f[<<c, a>>] > 0}

-----------------------------------------------------------------------------
(* The three records of a request.                                         *)

Statuses == {"none", "active", "settled", "released", "expired"}
Terminal == {"settled", "released", "expired"}
Rows     == [status : Statuses, held : Amounts, on : SUBSET Ceilings]
NoRow    == [status |-> "none", held |-> Nothing, on |-> {}]

Active(r) == row[r].status = "active"

\* budgets/scoped: the ceilings held and the figure held on each; reserved and
\* user: the user leg; id: whether reservation_id is set.
Handles == [budgets : SUBSET Ceilings, user : Amt, scoped : Amt,
            reserved : BOOLEAN, counts : BOOLEAN, id : BOOLEAN]
NoHandle(counts) ==
  [budgets |-> {}, user |-> Zero, scoped |-> Zero,
   reserved |-> FALSE, counts |-> counts, id |-> FALSE]

\* What settling or refunding a handle gives back.
HeldBy(r, h) == Holding(r, h.reserved, h.user, h.budgets, h.scoped)

\* The growth of each leg, whether a tool call asks for it, and handle.reserved
\* as it was before.
TopUps  == [user : Amt, scoped : Amt, tool : BOOLEAN, reserved : BOOLEAN]
NoTopUp == [user |-> Zero, scoped |-> Zero, tool |-> FALSE, reserved |-> FALSE]

Places == {"idle", "scope", "reclaim", "ceilings", "giveback", "unsure",
           "running", "tceil", "tgiveback", "tload", "thold", "tback",
           "tgrow", "treturn", "refused", "again", "done", "rejected", "dead"}
Over   == {"done", "rejected", "dead"}

Goto(r, where) == pc' = [pc EXCEPT ![r] = where]

\* Mutant of Admits: the holds of other requests are not counted.
AdmitsUnheld(use, c, amt, newRequest, free) ==
  \A a \in Axes : Cap[<<c, a>>] # NoCap => use[<<c, a>>] + amt[a] <= Cap[<<c, a>>]

\* The gate of one counter: every capped axis must have room for the hold,
\* and an arrival is refused by an axis that is already full. A free request
\* is not asked about dollars.
Admits(use, c, amt, newRequest, free) ==
  \A a \in Axes :
    Cap[<<c, a>>] # NoCap /\ ~(free /\ a = "usd") =>
      /\ use[<<c, a>>] + reserved[<<c, a>>] + amt[a] <= Cap[<<c, a>>]
      /\ newRequest => use[<<c, a>>] + reserved[<<c, a>>] < Cap[<<c, a>>]

CapsCounts(c) == Cap[<<c, "tokens">>] # NoCap \/ Cap[<<c, "requests">>] # NoCap

\* The counters after the ended windows of C were rolled: use is zeroed, holds
\* stay.
Rolled(f, C) == [k \in Cells |-> IF k[1] \in C \cap ended THEN 0 ELSE f[k]]
RollWindows(C) ==
  /\ used' = Rolled(used, C)
  /\ over' = Rolled(over, C)
  /\ ended' = ended \ C

Init ==
  /\ reserved = Nothing /\ used = Nothing
  /\ row = [r \in Requests |-> NoRow]
  /\ expired = {} /\ quiet = {} /\ ended = {} /\ budgeted = Budgeted
  /\ pc = [r \in Requests |-> "idle"]
  /\ leg = [r \in Requests |-> "none"]
  /\ hdl = [r \in Requests |-> NoHandle(TRUE)]
  /\ taken = [r \in Requests |-> {}]
  /\ top = [r \in Requests |-> NoTopUp]
  /\ changes = [r \in Requests |-> 0]
  /\ batch = [p \in Procs |-> {}]
  /\ phase = "idle" /\ cand = {}
  /\ billed = [r \in Requests |-> 0]
  /\ first = [r \in Requests |-> "none"]
  /\ over = Nothing /\ doubled = Nothing

-----------------------------------------------------------------------------
(* Admission: reserve_budget.                                              *)

\* A user that is missing, deleted or blocked.
RejectUser(r) ==
  /\ pc[r] = "idle"
  /\ Goto(r, "rejected")
  /\ UNCHANGED <<reserved, used, row, expired, quiet, ended, budgeted, leg,
                 hdl, taken, top, changes, sweepVars, history>>

\* A budget-exempt key holds nothing and will record no use.
AdmitExempt(r) ==
  /\ pc[r] = "idle" /\ r \in Exempt
  /\ hdl' = [hdl EXCEPT ![r] = NoHandle(FALSE)]
  /\ Goto(r, "running")
  /\ UNCHANGED <<reserved, used, row, expired, quiet, ended, budgeted, leg,
                 taken, top, changes, sweepVars, history>>

\* The user row and its budget are read, and the ended window of a budgeted
\* user is rolled by compare-and-swap.
LoadUser(r) ==
  LET u == UserOf[r] IN
  /\ pc[r] = "idle" /\ r \notin Exempt
  /\ RollWindows(budgeted \cap {u})
  /\ quiet' = quiet \ (budgeted \cap ended \cap {u})
  /\ leg' = [leg EXCEPT ![r] =
       IF u \notin budgeted THEN "none"
       ELSE IF u \notin Support(reserved) THEN "clear" ELSE "holding"]
  /\ Goto(r, "scope")
  /\ UNCHANGED <<reserved, row, expired, budgeted, hdl, taken, top, changes,
                 sweepVars, billed, first, doubled>>

\* The ceilings of the request are listed and their ended windows rolled. A
\* request with nothing to hold gets an empty handle; otherwise the leaked
\* holds of the user come next, unless the row just read holds nothing.
ListCeilings(r) ==
  LET C == Primary[r] IN
  /\ pc[r] = "scope"
  /\ RollWindows(C)
  /\ quiet' = quiet \ (C \cap ended)
  /\ Goto(r, IF \/ leg[r] = "none" /\ C = {}
                \/ /\ r \in Free
                   /\ leg[r] # "none" => ~CapsCounts(UserOf[r])
                   /\ \A c \in C : ~CapsCounts(c)
             THEN "running"
             ELSE IF leg[r] = "clear" THEN "ceilings" ELSE "reclaim")
  /\ UNCHANGED <<reserved, row, expired, budgeted, leg, hdl, taken, top,
                 changes, sweepVars, billed, first, doubled>>

\* list_expired: the active rows past their TTL, as they are now. Only the
\* user leg of a listed row is used later; the lines are read again.
Listed(S) == {[r |-> q, user |-> [a \in Axes |-> row[q].held[<<UserOf[q], a>>]]] :
                q \in {q \in S \cap expired : Active(q)}}

\* reclaim_expired_for_user, its listing.
ReclaimOwn(r) ==
  /\ pc[r] = "reclaim"
  /\ batch' = [batch EXCEPT ![r] = Listed({q \in Requests : UserOf[q] = UserOf[r]})]
  /\ Goto(r, "ceilings")
  /\ UNCHANGED <<reserved, used, row, expired, quiet, ended, budgeted, leg,
                 hdl, taken, top, changes, phase, cand, history>>

\* The loop of reserve() over the ceilings of an arrival or of a top-up.
LoopSet(r) == IF pc[r] = "tceil" THEN hdl[r].budgets ELSE Primary[r]
LoopAmt(r) == IF pc[r] = "tceil" THEN top[r].scoped ELSE Size[r]
Todo(r)    == LoopSet(r) \ taken[r]
InLoop(r)  == pc[r] \in {"ceilings", "tceil"} /\ batch[r] = {}
IsNext(r, c) == c \in Todo(r) /\ \A d \in Todo(r) : Rank[c] <= Rank[d]
LoopAdmits(r, c) ==
  Admits(used, c, LoopAmt(r), pc[r] = "ceilings", pc[r] = "ceilings" /\ r \in Free)

\* One conditional UPDATE, committed. After the last ceiling a top-up writes
\* its growth into the handle before it goes on to the user leg.
HoldCeiling(r, c) ==
  LET last == pc[r] = "tceil" /\ Todo(r) = {c} IN
  /\ InLoop(r) /\ IsNext(r, c) /\ LoopAdmits(r, c)
  /\ reserved' = Plus(reserved, OnCeilings(r, {c}, LoopAmt(r)))
  /\ quiet' = quiet \ {c}
  /\ taken' = [taken EXCEPT ![r] = IF last THEN {} ELSE @ \cup {c}]
  /\ IF last
     THEN /\ hdl' = [hdl EXCEPT ![r].scoped = Plus(@, top[r].scoped)]
          /\ Goto(r, IF top[r].user # Zero THEN "tload" ELSE "tgrow")
     ELSE UNCHANGED <<hdl, pc>>
  /\ UNCHANGED <<used, row, expired, ended, budgeted, leg, top, changes,
                 sweepVars, history>>

\* A ceiling has no room, or the database failed the statement: the holds
\* already taken go back. A failure reported for a commit that landed leaves
\* the hold on this ceiling to the orphan pass.
RefuseCeiling(r, c) ==
  /\ InLoop(r) /\ IsNext(r, c)
  /\ \/ /\ ~LoopAdmits(r, c) \/ "db" \in Faults
        /\ UNCHANGED <<reserved, quiet>>
     \/ /\ LoopAdmits(r, c) /\ "db" \in Faults
        /\ reserved' = Plus(reserved, OnCeilings(r, {c}, LoopAmt(r)))
        /\ quiet' = quiet \ {c}
  /\ Goto(r, IF pc[r] = "tceil" THEN "tgiveback" ELSE "giveback")
  /\ UNCHANGED <<used, row, expired, ended, budgeted, leg, hdl, taken, top,
                 changes, sweepVars, history>>

\* The loop's release of what it took. An arrival is rejected; a refused tool
\* call is answered to the model and the request goes on; any other refused
\* top-up fails the request, whose caller refunds the handle.
GiveBack(r) ==
  /\ pc[r] \in {"giveback", "tgiveback"}
  /\ LET amt == IF pc[r] = "tgiveback" THEN top[r].scoped ELSE Size[r] IN
     reserved' = Less(reserved, OnCeilings(r, taken[r], amt))
  /\ quiet' = quiet \ taken[r]
  /\ taken' = [taken EXCEPT ![r] = {}]
  /\ top' = [top EXCEPT ![r] = NoTopUp]
  /\ Goto(r, IF pc[r] = "giveback" THEN "rejected"
             ELSE IF top[r].tool THEN "running" ELSE "refused")
  /\ UNCHANGED <<used, row, expired, ended, budgeted, leg, hdl, changes,
                 sweepVars, history>>

\* All ceilings of an arrival are held.
CeilingsHeld(r) == pc[r] = "ceilings" /\ InLoop(r) /\ Todo(r) = {}

AdmissionRow(r, onUser) ==
  [status |-> "active", on |-> Primary[r],
   held |-> Holding(r, onUser, Size[r], Primary[r], Size[r])]
AdmissionHandle(r, onUser, id) ==
  [budgets |-> Primary[r],
   user    |-> IF onUser THEN Size[r] ELSE Zero,
   scoped  |-> IF Primary[r] = {} THEN Zero ELSE Size[r],
   reserved |-> onUser, counts |-> TRUE, id |-> id]

\* The hold on the user row and the ledger row, one commit.
HoldUser(r) ==
  LET u == UserOf[r] IN
  /\ CeilingsHeld(r) /\ leg[r] # "none"
  /\ Admits(used, u, Size[r], TRUE, r \in Free)
  /\ reserved' = Plus(reserved, OnUser(r, Size[r]))
  /\ row' = [row EXCEPT ![r] = AdmissionRow(r, TRUE)]
  /\ hdl' = [hdl EXCEPT ![r] = AdmissionHandle(r, TRUE, TRUE)]
  /\ quiet' = quiet \ {u}
  /\ taken' = [taken EXCEPT ![r] = {}]
  /\ Goto(r, "running")
  /\ UNCHANGED <<used, expired, ended, budgeted, leg, top, changes, sweepVars,
                 history>>

\* Mutant of RefuseUser: the ceilings' holds are not given back.
RefuseUserLeaky(r) ==
  /\ CeilingsHeld(r) /\ leg[r] # "none"
  /\ ~Admits(used, UserOf[r], Size[r], TRUE, r \in Free)
  /\ Goto(r, "rejected")
  /\ UNCHANGED <<reserved, used, row, expired, quiet, ended, budgeted, leg,
                 hdl, taken, top, changes, sweepVars, history>>

\* The user row has no room, or the transaction failed before its commit.
RefuseUser(r) ==
  /\ CeilingsHeld(r) /\ leg[r] # "none"
  /\ ~Admits(used, UserOf[r], Size[r], TRUE, r \in Free) \/ "db" \in Faults
  /\ Goto(r, "giveback")
  /\ UNCHANGED <<reserved, used, row, expired, quiet, ended, budgeted, leg,
                 hdl, taken, top, changes, sweepVars, history>>

\* The commit reported a failure: it landed or it did not.
HoldUserUnsure(r) ==
  LET u == UserOf[r] IN
  /\ "db" \in Faults /\ CeilingsHeld(r) /\ leg[r] # "none"
  /\ Admits(used, u, Size[r], TRUE, r \in Free)
  /\ \/ /\ reserved' = Plus(reserved, OnUser(r, Size[r]))
        /\ row' = [row EXCEPT ![r] = AdmissionRow(r, TRUE)]
        /\ quiet' = quiet \ {u}
     \/ UNCHANGED <<reserved, row, quiet>>
  /\ Goto(r, "unsure")
  /\ UNCHANGED <<used, expired, ended, budgeted, leg, hdl, taken, top, changes,
                 sweepVars, history>>

\* release_unrecorded: a released row under the same id is the fence. If the
\* row landed the insert is a duplicate and the sweep owns the holds.
ReleaseUnrecorded(r) ==
  /\ pc[r] = "unsure"
  /\ IF row[r].status = "none" /\ Primary[r] # {}
     THEN /\ row' = [row EXCEPT ![r] = [NoRow EXCEPT !.status = "released"]]
          /\ reserved' = Less(reserved, OnCeilings(r, taken[r], Size[r]))
          /\ quiet' = quiet \ taken[r]
     ELSE UNCHANGED <<row, reserved, quiet>>
  /\ taken' = [taken EXCEPT ![r] = {}]
  /\ Goto(r, "rejected")
  /\ UNCHANGED <<used, expired, ended, budgeted, leg, hdl, top, changes,
                 sweepVars, history>>

\* No per-user budget: the row of the ceilings' holds is a commit of its own,
\* and when it fails the request is served on an unledgered hold.
RecordHold(r) ==
  /\ CeilingsHeld(r) /\ leg[r] = "none"
  /\ \E outcome \in {"landed"} \cup (Faults \cap {"record", "lie"}) :
       /\ row' = IF outcome = "record" THEN row
                 ELSE [row EXCEPT ![r] = AdmissionRow(r, FALSE)]
       /\ hdl' = [hdl EXCEPT ![r] = AdmissionHandle(r, FALSE, outcome = "landed")]
  /\ taken' = [taken EXCEPT ![r] = {}]
  /\ Goto(r, "running")
  /\ UNCHANGED <<reserved, used, expired, quiet, ended, budgeted, leg, top,
                 changes, sweepVars, history>>

-----------------------------------------------------------------------------
(* Top-ups: increase_reservation and hold_tool_call.                       *)

MaxOf(m, n) == IF m >= n THEN m ELSE n

\* The request's new size: the grown prompt's estimate, or what the larger leg
\* holds plus one tool call.
NewSize(r, tool) ==
  IF tool
  THEN [Zero EXCEPT !["usd"] =
          MaxOf(hdl[r].user["usd"], hdl[r].scoped["usd"]) + ToolUsd]
  ELSE Grown[r]

\* Each leg grows by what it lacks of the new size.
StartTopUp(r, tool) ==
  LET h == hdl[r]
      scoped == IF h.budgets = {} THEN Zero ELSE Less(NewSize(r, tool), h.scoped)
      user   == Less(NewSize(r, tool), h.user)
  IN
  /\ pc[r] = "running" /\ changes[r] < MaxChanges[r]
  /\ h.counts
  /\ scoped # Zero \/ user # Zero
  /\ top' = [top EXCEPT ![r] = [user |-> user, scoped |-> scoped,
                                  tool |-> tool, reserved |-> h.reserved]]
  /\ changes' = [changes EXCEPT ![r] = @ + 1]
  /\ Goto(r, IF scoped # Zero THEN "tceil" ELSE "tload")
  /\ UNCHANGED <<reserved, used, row, expired, quiet, ended, budgeted, leg,
                 hdl, taken, sweepVars, history>>

\* reserve_budget for the growth of the user leg: a user without a budget, or
\* a free model no count cap concerns, grows nothing.
LoadUserAgain(r) ==
  LET u == UserOf[r]
      holds == u \in budgeted /\ (r \in Free /\ ~top[r].tool => CapsCounts(u))
  IN
  /\ pc[r] = "tload"
  /\ RollWindows(budgeted \cap {u})
  /\ quiet' = quiet \ (budgeted \cap ended \cap {u})
  /\ top' = [top EXCEPT ![r].user = IF holds THEN @ ELSE Zero]
  /\ Goto(r, IF holds THEN "thold"
             ELSE IF top[r].scoped # Zero THEN "tgrow" ELSE "running")
  /\ UNCHANGED <<reserved, row, expired, budgeted, leg, hdl, taken, changes,
                 sweepVars, billed, first, doubled>>

GrowUser(r) ==
  LET u == UserOf[r] IN
  /\ pc[r] = "thold"
  /\ Admits(used, u, top[r].user, FALSE, r \in Free /\ ~top[r].tool)
  /\ reserved' = Plus(reserved, OnUser(r, top[r].user))
  /\ hdl' = [hdl EXCEPT ![r].user = Plus(@, top[r].user), ![r].reserved = TRUE]
  /\ quiet' = quiet \ {u}
  /\ Goto(r, "tgrow")
  /\ UNCHANGED <<used, row, expired, ended, budgeted, leg, taken, top, changes,
                 sweepVars, history>>

\* The user is blocked by now or has no room. A refused tool call gives the
\* ceilings' growth back; any other refusal leaves that to the refund.
RefuseGrowth(r) ==
  /\ \/ pc[r] = "tload"
     \/ pc[r] = "thold" /\ ~Admits(used, UserOf[r], top[r].user, FALSE,
                                   r \in Free /\ ~top[r].tool)
  /\ IF top[r].tool
     THEN Goto(r, "tback") /\ UNCHANGED top
     ELSE Goto(r, "refused") /\ top' = [top EXCEPT ![r] = NoTopUp]
  /\ UNCHANGED <<reserved, used, row, expired, quiet, ended, budgeted, leg,
                 hdl, taken, changes, sweepVars, history>>

GiveBackGrowth(r) ==
  /\ pc[r] = "tback"
  /\ reserved' = Less(reserved, OnCeilings(r, hdl[r].budgets, top[r].scoped))
  /\ quiet' = IF top[r].scoped = Zero THEN quiet ELSE quiet \ hdl[r].budgets
  /\ hdl' = [hdl EXCEPT ![r].scoped = Less(@, top[r].scoped)]
  /\ top' = [top EXCEPT ![r] = NoTopUp]
  /\ Goto(r, "running")
  /\ UNCHANGED <<used, row, expired, ended, budgeted, leg, taken, changes,
                 sweepVars, history>>

\* The database failed the growth of the user leg, before its commit or after
\* it landed. hold_tool_call restores the handle to what it was.
GrowUserFails(r) ==
  /\ "db" \in Faults /\ pc[r] = "thold"
  /\ \/ UNCHANGED <<reserved, quiet>>
     \/ /\ Admits(used, UserOf[r], top[r].user, FALSE, r \in Free /\ ~top[r].tool)
        /\ reserved' = Plus(reserved, OnUser(r, top[r].user))
        /\ quiet' = quiet \ {UserOf[r]}
  /\ IF top[r].tool
     THEN /\ hdl' = [hdl EXCEPT ![r].scoped = Less(@, top[r].scoped)]
          /\ Goto(r, "running")
     ELSE UNCHANGED hdl /\ Goto(r, "refused")
  /\ top' = [top EXCEPT ![r] = NoTopUp]
  /\ UNCHANGED <<used, row, expired, ended, budgeted, leg, taken, changes,
                 sweepVars, history>>

\* Mutant of GrowthOf: the lines of the ceilings do not grow.
GrowthOfUserOnly(r) == OnUser(r, top[r].user)

\* What a top-up adds to the row: to the user leg, and to every line of it.
GrowthOf(r) == Holding(r, TRUE, top[r].user, row[r].on, top[r].scoped)

\* ledger.grow: the growth is folded into an active row.
GrowRow(r) ==
  /\ pc[r] = "tgrow"
  /\ ~hdl[r].id \/ Active(r)
  /\ row' = IF hdl[r].id THEN [row EXCEPT ![r].held = Plus(@, GrowthOf(r))] ELSE row
  /\ top' = [top EXCEPT ![r] = NoTopUp]
  /\ Goto(r, "running")
  /\ UNCHANGED <<reserved, used, expired, quiet, ended, budgeted, leg, hdl,
                 taken, changes, sweepVars, history>>

\* The commit of ledger.grow reported a failure: it landed or it did not.
GrowRowFails(r) ==
  /\ "db" \in Faults
  /\ pc[r] = "tgrow" /\ hdl[r].id /\ Active(r)
  /\ \/ row' = [row EXCEPT ![r].held = Plus(@, GrowthOf(r))]
     \/ UNCHANGED row
  /\ IF top[r].tool
     THEN /\ hdl' = [hdl EXCEPT ![r].scoped = Less(@, top[r].scoped),
                                ![r].user   = Less(@, top[r].user),
                                ![r].reserved = top[r].reserved]
          /\ Goto(r, "running")
     ELSE UNCHANGED hdl /\ Goto(r, "refused")
  /\ top' = [top EXCEPT ![r] = NoTopUp]
  /\ UNCHANGED <<reserved, used, expired, quiet, ended, budgeted, leg, taken,
                 changes, sweepVars, history>>

\* The sweep reclaimed the row first: the growth goes back, the ceilings' and
\* then the user's.
GrowLost(r) ==
  /\ pc[r] = "tgrow" /\ hdl[r].id /\ ~Active(r)
  /\ reserved' = Less(reserved, OnCeilings(r, hdl[r].budgets, top[r].scoped))
  /\ quiet' = IF top[r].scoped = Zero THEN quiet ELSE quiet \ hdl[r].budgets
  /\ hdl' = [hdl EXCEPT ![r].scoped = Less(@, top[r].scoped)]
  /\ Goto(r, IF top[r].user # Zero THEN "treturn" ELSE "running")
  /\ top' = [top EXCEPT ![r].scoped = Zero]
  /\ UNCHANGED <<used, row, expired, ended, budgeted, leg, taken, changes,
                 sweepVars, history>>

ReturnUserGrowth(r) ==
  /\ pc[r] = "treturn"
  /\ reserved' = Less(reserved, OnUser(r, top[r].user))
  /\ quiet' = quiet \ {UserOf[r]}
  /\ hdl' = [hdl EXCEPT ![r].user = Less(@, top[r].user)]
  /\ top' = [top EXCEPT ![r] = NoTopUp]
  /\ Goto(r, "running")
  /\ UNCHANGED <<used, row, expired, ended, budgeted, leg, taken, changes,
                 sweepVars, history>>

-----------------------------------------------------------------------------
(* A fallback moves the holds to the ceilings of its provider:             *)
(* move_reservation, one transaction.                                      *)

\* What each target ceiling holds after the move: a fallback's hold only grows.
MoveAmt(r) ==
  IF hdl[r].budgets # {}
  THEN [hdl[r].scoped EXCEPT !["usd"] = MaxOf(@, FallbackUsd[r])]
  ELSE [Size[r] EXCEPT !["usd"] = FallbackUsd[r]]
MoveFree(r) == r \in Free /\ MoveAmt(r)["usd"] = 0

\* plan: None when the move would change nothing.
MovePlanned(r) ==
  LET h == hdl[r] IN
  /\ h.counts
  /\ Fallback[r] # {} \/ h.budgets # {}
  /\ Fallback[r] # h.budgets \/ MoveAmt(r)["usd"] > h.scoped["usd"]
  /\ MoveFree(r) => \E c \in Fallback[r] : CapsCounts(c)

\* Mutant of Dropped: a ceiling both providers have is given back too.
DroppedAll(r) == hdl[r].budgets

Added(r)   == Fallback[r] \ hdl[r].budgets
Shared(r)  == Fallback[r] \cap hdl[r].budgets
Dropped(r) == hdl[r].budgets \ Fallback[r]
MoveGrowth(r) == [Zero EXCEPT !["usd"] = MoveAmt(r)["usd"] - hdl[r].scoped["usd"]]

\* The added ceilings admit the whole hold as an arrival, after their ended
\* windows were rolled; the shared ones admit the growth.
MoveAdmitted(r) ==
  /\ \A c \in Added(r) :
       Admits(Rolled(used, Added(r)), c, MoveAmt(r), TRUE, MoveFree(r))
  /\ MoveGrowth(r) # Zero =>
       \A c \in Shared(r) : Admits(used, c, MoveGrowth(r), FALSE, FALSE)

Retargeted(r) ==
  [hdl[r] EXCEPT !.budgets = Fallback[r],
                 !.scoped  = IF Fallback[r] = {} THEN Zero ELSE MoveAmt(r),
                 !.id      = @ \/ Fallback[r] # {}]

\* move_lines on the row, or a first row for a handle that has none.
MovedRow(r) ==
  LET held == [k \in Cells |->
        IF k[1] \in Fallback[r] THEN MoveAmt(r)[k[2]]
        ELSE IF k[1] # UserOf[r] THEN 0
        ELSE IF hdl[r].id THEN row[r].held[k]
        ELSE HeldBy(r, hdl[r])[k]]
  IN IF hdl[r].id \/ Fallback[r] # {}
     THEN [status |-> "active", held |-> held, on |-> Fallback[r]]
     ELSE row[r]

CanMove(r) == pc[r] = "running" /\ changes[r] < MaxChanges[r] /\ MovePlanned(r)

\* The holds, the rolled windows and the row of a move, in its one commit.
MoveHolds(r) ==
  /\ CanMove(r) /\ (hdl[r].id => Active(r)) /\ MoveAdmitted(r)
  /\ RollWindows(Added(r))
  /\ reserved' = Less(Plus(reserved,
                     Plus(OnCeilings(r, Added(r), MoveAmt(r)),
                          OnCeilings(r, Shared(r), MoveGrowth(r)))),
                     OnCeilings(r, Dropped(r), hdl[r].scoped))
  /\ quiet' = quiet \ (Added(r) \cup Dropped(r) \cup
                       IF MoveGrowth(r) = Zero THEN {} ELSE Shared(r))
  /\ row' = [row EXCEPT ![r] = MovedRow(r)]
  /\ changes' = [changes EXCEPT ![r] = @ + 1]

Move(r) ==
  /\ MoveHolds(r)
  /\ hdl' = [hdl EXCEPT ![r] = Retargeted(r)]
  /\ UNCHANGED <<expired, budgeted, pc, leg, taken, top, sweepVars, billed, first, doubled>>

\* What the handle of before the move would give back, and the move gave back or
\* wrote into a row of its own.
Doubly(r) ==
  IF hdl[r].id \/ Fallback[r] = {} THEN OnCeilings(r, Dropped(r), hdl[r].scoped)
  ELSE HeldBy(r, hdl[r])

\* The commit of a move landed and reported a failure, and landed() could not tell
\* (the database failed it too, the sweep was there, or neither the handle nor the
\* target has a row): the chain stops, and the caller finalizes the old handle.
MoveUntold(r) ==
  /\ "db" \in Faults /\ MoveHolds(r)
  /\ doubled' = Plus(doubled, Doubly(r))
  /\ Goto(r, "refused")
  /\ UNCHANGED <<expired, budgeted, leg, hdl, taken, top, sweepVars, billed, first>>

\* A statement or the commit of a move failed: the chain stops. Asking whether it
\* landed leaves a released row where the move would have written the first one.
MoveFails(r) ==
  /\ "db" \in Faults /\ CanMove(r)
  /\ \/ UNCHANGED row
     \/ /\ ~hdl[r].id /\ row[r].status = "none" /\ Fallback[r] # {}
        /\ row' = [row EXCEPT ![r] = [NoRow EXCEPT !.status = "released"]]
  /\ changes' = [changes EXCEPT ![r] = @ + 1]
  /\ Goto(r, "refused")
  /\ UNCHANGED <<reserved, used, expired, quiet, ended, budgeted, leg, hdl, taken,
                 top, sweepVars, history>>

\* A ceiling refuses: what was taken goes back inside the transaction, and
\* only the rolled windows remain of it.
RefuseMove(r) ==
  /\ CanMove(r) /\ (hdl[r].id => Active(r)) /\ ~MoveAdmitted(r)
  /\ RollWindows(Added(r))
  /\ quiet' = quiet \ (Added(r) \cup Shared(r))
  /\ changes' = [changes EXCEPT ![r] = @ + 1]
  /\ UNCHANGED <<reserved, row, expired, budgeted, pc, leg, hdl, taken, top,
                 sweepVars, billed, first, doubled>>

\* The row was reclaimed: nothing is held, but the handle names the fallback's
\* ceilings, which its use settles on.
MoveReclaimed(r) ==
  /\ CanMove(r) /\ hdl[r].id /\ ~Active(r)
  /\ hdl' = [hdl EXCEPT ![r] = Retargeted(r)]
  /\ changes' = [changes EXCEPT ![r] = @ + 1]
  /\ UNCHANGED <<reserved, used, row, expired, quiet, ended, budgeted, pc, leg,
                 taken, top, sweepVars, history>>

-----------------------------------------------------------------------------
(* Finalization: reconcile_reservation and refund_reservation.             *)

\* Mutant of Claims: a handle gives back what it holds, whatever its row says.
ClaimsAnyway(r) == TRUE

\* try_terminate: who may give the holds back. Without a row, the handle.
Claims(r) == hdl[r].id => Active(r)

\* Mutants of Reclaimed: the late settlement is missing, or takes any row.
ReclaimedNever(r) == FALSE
ReclaimedAny(r)   == hdl[r].id /\ row[r].status \in Terminal

\* try_settle_reclaimed: the sweep took the hold, the use is still owed.
Reclaimed(r) == hdl[r].id /\ row[r].status = "expired"

\* What settling records: dollars for every user, the window's counts only on
\* a leg that held, everything on the ceilings.
UseOn(r, use) ==
  LET h == hdl[r] IN
  Holding(r, TRUE,
          [a \in Axes |-> CASE a = "usd"    -> use["usd"]
                            [] a = "tokens" -> IF h.reserved THEN use["tokens"] ELSE 0
                            [] OTHER        -> IF h.reserved THEN h.user["requests"] ELSE 0],
          h.budgets, [use EXCEPT !["requests"] = h.scoped["requests"]])

\* Mutant of MayFinalize: later sites settle a handle without a row as well.
MayFinalizeAny(r) == pc[r] \in {"running", "refused", "again", "done"}

\* One finalization per request, and, because several sites may fire for one
\* request, any number of later ones for a handle that names a row. A handle that
\* names none is finalized again after a settlement that reported a failure.
MayFinalize(r) ==
  \/ pc[r] \in {"running", "refused", "again"}
  \/ pc[r] = "done" /\ hdl[r].id

Finish(r, how, where) ==
  /\ first' = [first EXCEPT ![r] = IF @ = "none" THEN how ELSE @]
  /\ Goto(r, where)

\* The commit of a settlement may report a failure for what landed, and the request
\* settles again: try_terminate of no id succeeds every time.
Settle(r, use) ==
  LET h     == hdl[r]
      acts  == Claims(r) \/ Reclaimed(r)
      adds  == IF acts /\ h.counts THEN UseOn(r, use) ELSE Nothing
      gives == IF Claims(r) THEN HeldBy(r, h) ELSE Nothing
  IN
  /\ MayFinalize(r)
  /\ use \in Uses[r]
  /\ used' = Plus(used, adds)
  /\ reserved' = Less(reserved, gives)
  /\ over' = Plus(over, Less(adds, Less(reserved, reserved')))
  /\ row' = IF h.id /\ acts THEN [row EXCEPT ![r].status = "settled"] ELSE row
  /\ quiet' = quiet \ (Support(adds) \cup Support(gives))
  /\ billed' = [billed EXCEPT ![r] = IF acts THEN @ + 1 ELSE @]
  /\ \/ Finish(r, "settle", "done") /\ UNCHANGED doubled
     \/ /\ "db" \in Faults /\ ~h.id /\ pc[r] \in {"running", "refused"}
        /\ Finish(r, "settle", "again") /\ doubled' = Plus(doubled, gives)
  /\ UNCHANGED <<expired, ended, budgeted, leg, hdl, taken, top, changes,
                 sweepVars>>

Refund(r) ==
  LET gives == IF Claims(r) THEN HeldBy(r, hdl[r]) ELSE Nothing IN
  /\ MayFinalize(r)
  /\ reserved' = Less(reserved, gives)
  /\ row' = IF hdl[r].id /\ Claims(r)
            THEN [row EXCEPT ![r].status = "released"] ELSE row
  /\ quiet' = quiet \ Support(gives)
  /\ Finish(r, "refund", "done")
  /\ UNCHANGED <<used, expired, ended, budgeted, leg, hdl, taken, top, changes,
                 sweepVars, billed, over, doubled>>

\* The process of the request dies, or its finalization never commits.
Crash(r) ==
  /\ "crash" \in Faults
  /\ pc[r] \notin Over \cup {"idle"}
  /\ batch' = [batch EXCEPT ![r] = {}]
  /\ Goto(r, "dead")
  /\ UNCHANGED <<reserved, used, row, expired, quiet, ended, budgeted, leg,
                 hdl, taken, top, changes, phase, cand, history>>

-----------------------------------------------------------------------------
(* The sweeps. `p` is the sweeper or a request that reclaims on arrival.   *)

\* _reclaim: the claim and the release it authorizes, one commit. The lines
\* are read after the claim; the user leg is the one that was listed.
Reclaim(p, x) ==
  LET r == x.r
      gives == [k \in Cells |-> IF k[1] = UserOf[r] THEN x.user[k[2]]
                                ELSE row[r].held[k]]
  IN
  /\ x \in batch[p]
  /\ batch' = [batch EXCEPT ![p] = @ \ {x}]
  /\ IF Active(r)
     THEN /\ row' = [row EXCEPT ![r].status = "expired"]
          /\ reserved' = Less(reserved, gives)
          /\ quiet' = quiet \ Support(gives)
     ELSE UNCHANGED <<row, reserved, quiet>>
  /\ UNCHANGED <<used, expired, ended, budgeted, pc, leg, hdl, taken, top,
                 changes, phase, cand, history>>

SweepList ==
  /\ phase = "idle"
  /\ phase' = "expire"
  /\ batch' = [batch EXCEPT ![Sweeper] = Listed(Requests)]
  /\ UNCHANGED <<reserved, used, row, expired, quiet, ended, budgeted, pc, leg,
                 hdl, taken, top, changes, cand, history>>

\* Mutant of SweepScan: the ceilings are left out.
SweepScanUsers ==
  /\ phase = "expire" /\ batch[Sweeper] = {}
  /\ phase' = "orphans"
  /\ cand' = quiet \cap Support(reserved) \cap Users
  /\ UNCHANGED <<reserved, used, row, expired, quiet, ended, budgeted, pc, leg,
                 hdl, taken, top, changes, batch, history>>

\* reconcile_orphaned_holds picks the quiet counters that hold something.
SweepScan ==
  /\ phase = "expire" /\ batch[Sweeper] = {}
  /\ phase' = "orphans"
  /\ cand' = quiet \cap Support(reserved)
  /\ UNCHANGED <<reserved, used, row, expired, quiet, ended, budgeted, pc, leg,
                 hdl, taken, top, changes, batch, history>>

\* A sum over the requests, as the number of units they hold.
Total(f) == Cardinality(UNION {{r} \X (1..f[r]) : r \in Requests})

RowHeld(r) == IF Active(r) THEN row[r].held ELSE Nothing
RecordedOn(k) == Total([r \in Requests |-> RowHeld(r)[k]])

\* _reconcile_user and _reconcile_scoped: under the row's lock and with the
\* quiet test repeated, each figure is brought down to what the active rows
\* hold.
SweepClamp(c) ==
  /\ phase = "orphans" /\ c \in cand
  /\ cand' = cand \ {c}
  /\ LET clamped == [k \in Cells |->
           IF k[1] = c /\ reserved[k] > RecordedOn(k) THEN RecordedOn(k)
           ELSE reserved[k]]
     IN IF c \in quiet
        THEN /\ reserved' = clamped
             /\ quiet' = IF clamped = reserved THEN quiet ELSE quiet \ {c}
        ELSE UNCHANGED <<reserved, quiet>>
  /\ UNCHANGED <<used, row, expired, ended, budgeted, pc, leg, hdl, taken, top,
                 changes, batch, phase, history>>

\* prune_terminal: terminal rows past the retention, of requests that ended.
SweepPrune ==
  /\ phase = "orphans" /\ cand = {}
  /\ phase' = "idle"
  /\ \E S \in SUBSET {r \in expired : row[r].status \in Terminal /\ pc[r] \in Over} :
       row' = [r \in Requests |-> IF r \in S THEN NoRow ELSE row[r]]
  /\ UNCHANGED <<reserved, used, expired, quiet, ended, budgeted, pc, leg, hdl,
                 taken, top, changes, batch, cand, history>>

\* Any error of a tick is swallowed; the next tick starts over.
SweepFails ==
  /\ "db" \in Faults /\ phase # "idle"
  /\ phase' = "idle" /\ cand' = {}
  /\ batch' = [batch EXCEPT ![Sweeper] = {}]
  /\ UNCHANGED <<reserved, used, row, expired, quiet, ended, budgeted, pc, leg,
                 hdl, taken, top, changes, history>>

-----------------------------------------------------------------------------
(* What a request may still take off the counters.                         *)

\* Holds of the ceiling loop that the handle does not name yet.
InHand(r) ==
  CASE pc[r] \in {"ceilings", "giveback"} -> OnCeilings(r, taken[r], Size[r])
    [] pc[r] = "unsure" -> IF row[r].status = "none"
                           THEN OnCeilings(r, taken[r], Size[r]) ELSE Nothing
    [] pc[r] \in {"tceil", "tgiveback"} -> OnCeilings(r, taken[r], top[r].scoped)
    [] OTHER -> Nothing

\* Growth that is on the counters and not in the row yet.
Growth(r) ==
  CASE pc[r] \in {"tceil", "tgiveback"} -> OnCeilings(r, taken[r], top[r].scoped)
    [] pc[r] \in {"tload", "thold", "tback"} ->
         OnCeilings(r, hdl[r].budgets, top[r].scoped)
    [] pc[r] \in {"tgrow", "treturn"} ->
         Holding(r, TRUE, top[r].user, hdl[r].budgets, top[r].scoped)
    [] OTHER -> Nothing

Claim(r) ==
  IF pc[r] \in Over THEN RowHeld(r)
  ELSE IF ~hdl[r].id THEN Plus(RowHeld(r), Plus(HeldBy(r, hdl[r]), InHand(r)))
  ELSE IF Active(r)
       THEN Larger(Plus(row[r].held, Growth(r)), Plus(HeldBy(r, hdl[r]), InHand(r)))
       ELSE Growth(r)

\* The request has nothing to give back on c that its row does not record.
RecordedAt(r, c) == \A a \in Axes : Claim(r)[<<c, a>>] <= RowHeld(r)[<<c, a>>]

-----------------------------------------------------------------------------
(* Time and administration.                                                *)

Expire(r) ==
  /\ Active(r) /\ r \notin expired
  /\ "outlive" \in Faults \/ pc[r] \in Over
  /\ expired' = expired \cup {r}
  /\ UNCHANGED <<reserved, used, row, quiet, ended, budgeted, pc, leg, hdl,
                 taken, top, changes, sweepVars, history>>

\* A counter that holds something goes a TTL without a write. Without the
\* stall fault no live request sits on an unrecorded hold for that long.
GoQuiet(c) ==
  /\ c \in Support(reserved) \ quiet
  /\ "stall" \in Faults \/ \A r \in Requests : RecordedAt(r, c)
  /\ quiet' = quiet \cup {c}
  /\ UNCHANGED <<reserved, used, row, expired, ended, budgeted, pc, leg, hdl,
                 taken, top, changes, sweepVars, history>>

EndWindow(c) ==
  /\ c \in Windowed \ ended
  /\ ended' = ended \cup {c}
  /\ UNCHANGED <<reserved, used, row, expired, quiet, budgeted, pc, leg, hdl,
                 taken, top, changes, sweepVars, history>>

\* update_user: a budget is attached to a user, which starts a window, or
\* detached from it. Use and holds stay.
AssignBudget(u) ==
  /\ u \in Reassigned
  /\ budgeted' = IF u \in budgeted THEN budgeted \ {u} ELSE budgeted \cup {u}
  /\ ended' = ended \ {u}
  /\ quiet' = quiet \ {u}
  /\ UNCHANGED <<reserved, used, row, expired, pc, leg, hdl, taken, top,
                 changes, sweepVars, history>>

-----------------------------------------------------------------------------
Request(r) ==
  \/ RejectUser(r) \/ AdmitExempt(r) \/ LoadUser(r) \/ ListCeilings(r)
  \/ ReclaimOwn(r)
  \/ \E c \in Ceilings : HoldCeiling(r, c) \/ RefuseCeiling(r, c)
  \/ GiveBack(r) \/ HoldUser(r) \/ RefuseUser(r) \/ HoldUserUnsure(r)
  \/ ReleaseUnrecorded(r) \/ RecordHold(r)
  \/ \E tool \in BOOLEAN : StartTopUp(r, tool)
  \/ LoadUserAgain(r) \/ GrowUser(r) \/ RefuseGrowth(r) \/ GiveBackGrowth(r)
  \/ GrowUserFails(r) \/ GrowRow(r) \/ GrowRowFails(r) \/ GrowLost(r)
  \/ ReturnUserGrowth(r)
  \/ Move(r) \/ MoveUntold(r) \/ MoveFails(r) \/ RefuseMove(r) \/ MoveReclaimed(r)
  \/ \E use \in Uses[r] : Settle(r, use)
  \/ Refund(r) \/ Crash(r)

Sweep ==
  \/ SweepList \/ SweepScan \/ SweepPrune \/ SweepFails
  \/ \E c \in Counters : SweepClamp(c)

Next ==
  \/ \E r \in Requests : Request(r) \/ Expire(r)
  \/ \E p \in Procs : \E x \in batch[p] : Reclaim(p, x)
  \/ Sweep
  \/ \E c \in Counters : GoQuiet(c) \/ EndWindow(c)
  \/ \E u \in Users : AssignBudget(u)

Spec == Init /\ [][Next]_vars

-----------------------------------------------------------------------------
(* Properties.                                                             *)

\* Every variable has its type.
TypeOK ==
  /\ reserved \in Amounts /\ used \in Amounts
  /\ over \in Amounts /\ doubled \in Amounts
  /\ row \in [Requests -> Rows]
  /\ expired \subseteq Requests /\ quiet \subseteq Counters
  /\ ended \subseteq Counters /\ budgeted \subseteq Users
  /\ pc \in [Requests -> Places]
  /\ leg \in [Requests -> {"none", "clear", "holding"}]
  /\ hdl \in [Requests -> Handles]
  /\ taken \in [Requests -> SUBSET Ceilings]
  /\ top \in [Requests -> TopUps]
  /\ changes \in [Requests -> Nat]
  /\ batch \in [Procs -> SUBSET [r : Requests, user : Amt]]
  /\ phase \in {"idle", "expire", "orphans"} /\ cand \subseteq Counters
  /\ billed \in [Requests -> Nat]
  /\ first \in [Requests -> {"none", "settle", "refund"}]

\* Every counter carries at least what the requests may still take off it, by
\* a refund, a settlement, a returned top-up or the sweep, less what was given back
\* behind a handle that nothing fences: besides that, no release ever gives back a
\* hold that belongs to another request, whatever the order in which requests,
\* failures and sweeps interleave.
ClaimedOn(k) == Total([r \in Requests |-> Claim(r)[k]])
HoldsCovered == \A k \in Cells : ClaimedOn(k) <= reserved[k] + doubled[k]

\* "so two settlement sites firing for one request cannot release the hold twice"
\* (reconcile_reservation), "so a hold is never given back twice" (try_terminate):
\* what the running requests hold is on the counters.
RunningHeld ==
  \A k \in Cells :
    Total([r \in Requests |-> IF pc[r] = "running" THEN Claim(r)[k] ELSE 0]) <= reserved[k]

\* "The ledger never claims a hold the counters do not have" (_held_handle):
\* the active rows of a counter never add up to more than the counter.
LedgerBacked == \A k \in Cells : RecordedOn(k) <= reserved[k]

\* Use and holds never exceed a cap, except by the use that was recorded
\* without a hold to cover it (a late settlement, or a measured use above its
\* estimate): concurrent arrivals, top-ups, moves and window rolls cannot
\* admit more than the budget has room for.
CapRespected ==
  \A k \in Cells :
    Cap[k] # NoCap /\ (k[1] \in Users => k[1] \in Budgeted \ Reassigned) =>
      used[k] + reserved[k] <= Cap[k] + over[k]

\* A request that settled is billed, also when the sweep returned its hold first,
\* and exactly once, also when several settlement sites fired or commits reported
\* failures; but a handle without a row is billed twice after such a report.
BilledOnce ==
  \A r \in Requests :
    /\ billed[r] <= IF hdl[r].id \/ "db" \notin Faults THEN 1 ELSE 2
    /\ first[r] = "settle" => billed[r] >= 1

\* A ledger row leaves "active" once and for all: of every settlement, refund
\* and sweep that races for it, one wins, and only a late settlement follows
\* an expiry.
RowLifecycle ==
  [][\A r \in Requests :
       LET old == row[r].status  new == row'[r].status IN
       new # old => \/ old = "none" /\ new \in {"active", "released"}
                    \/ old = "active" /\ new \in Terminal
                    \/ old = "expired" /\ new = "settled"
                    \/ old \in Terminal /\ new = "none" /\ pc[r] \in Over]_row

\* Requests, failures and sweeps together implement the promise of Settlement:
\* of all the settlements, refunds, expiries and prunings that race for a row,
\* every commit is one legal step of one hold, and none of them records a use
\* that was recorded before, of a request that knows its row, or whose hold was
\* released.
Promise == INSTANCE Settlement WITH
             Misreports <- "db" \in Faults,
             status <- [r \in Requests |-> row[r].status],
             known  <- {r \in Requests : hdl[r].id}
ImplementsSettlement == Promise!Spec

\* What a row records and what its request would give back are the same
\* amounts between two top-ups, so it does not matter whether the request or
\* the sweep finalizes it.
HandleMatchesRow ==
  \A r \in Requests :
    pc[r] = "running" /\ hdl[r].id /\ Active(r) => HeldBy(r, hdl[r]) = row[r].held

\* Nothing is held that no request can give back.
NothingStranded == \A k \in Cells : reserved[k] <= ClaimedOn(k)

\* The sweeper's ticks and the passing of time go on; a tick may fail again
\* and again, but not for ever at the same place.
Fairness ==
  /\ \A r \in Requests : WF_vars(Expire(r))
  /\ \A c \in Counters : WF_vars(GoQuiet(c)) /\ SF_vars(SweepClamp(c))
  /\ WF_vars(SweepList) /\ SF_vars(SweepScan) /\ SF_vars(SweepPrune)
  /\ SF_vars(\E x \in batch[Sweeper] : Reclaim(Sweeper, x))
FairSpec == Spec /\ Fairness

\* Once every request is over, by whatever end, every hold is returned.
AllOver == \A r \in Requests : pc[r] \in Over
HoldsReturned == AllOver ~> reserved = Nothing
====
