--------------------------- MODULE IdempotencyProofs ---------------------------
(***************************************************************************)
(* What Idempotency promises for every lease, cadence, retention and set   *)
(* of requests: a running request keeps its key while the database answers *)
(* (OwnerKept), losing it takes an outage (OutageNeeded), the row of a     *)
(* running request changes hands in no other way (ClaimFenced), a stored   *)
(* response stays for its retention whatever fails (StoredKept), a replay  *)
(* is the answer of the request that ran (ReplaySound), and a key has one  *)
(* billed response unless a worker died or a task was cancelled            *)
(* (BilledOnce).                                                           *)
(***************************************************************************)
EXTENDS Idempotency, TLAPS

\* The times are numbers, and a lease outlasts a pause and two delays.
LEMMA Times ==
  /\ Lease \in Nat /\ Cadence \in Nat /\ Shortest \in Nat /\ Retention \in Nat
  /\ Slack \in Nat /\ Cadence + 2 * Slack < Lease
  BY TimesAssumption

\* A reading of the clock is at most Slack old.
LEMMA RecentType ==
  ASSUME clock \in Nat, NEW t \in Recent
  PROVE  t \in Nat /\ t <= clock /\ clock - t <= Slack
  BY DEF Recent

\* A claim is a row.
LEMMA ClaimType ==
  ASSUME NEW r \in Requests, NEW t \in Nat
  PROVE  /\ ClaimOf(r, t) \in Rows
         /\ ClaimOf(r, t).state = "running" /\ ClaimOf(r, t).owner = r
         /\ ClaimOf(r, t).lock = t + Lease
  BY Times DEF ClaimOf, Rows, MaxOf

\* No row is a row that holds nothing.
LEMMA NoRowState ==
  /\ NoRow.state = "none" /\ NoRow.owner = NoOne
  /\ NoRow.readable = FALSE /\ NoRow \notin Rows
  BY DEF NoRow, Rows

\* The row after a renewal and after a store.
LEMMA RowTypes ==
  ASSUME TypeOK, row # NoRow, NEW t \in Nat
  PROVE  /\ row \in Rows /\ Renewed(t) \in Rows /\ Stored(t) \in Rows
         /\ Renewed(t).state = row.state /\ Renewed(t).owner = row.owner
         /\ Renewed(t).lock = t + Lease
         /\ Renewed(t).keep = row.keep /\ Renewed(t).readable = row.readable
         /\ Stored(t).state = "stored" /\ Stored(t).owner = row.owner
  <1>1. row \in Rows
    BY DEF TypeOK
  <1>2. t + Lease \in Nat /\ t + Retention \in Nat
    BY Times
  <1>3. Renewed(t) \in Rows
    BY <1>1, <1>2 DEF Renewed, Rows
  <1>4. Stored(t) \in Rows
    BY <1>1, <1>2 DEF Stored, Rows
  <1>5. /\ Renewed(t).state = row.state /\ Renewed(t).owner = row.owner
        /\ Renewed(t).lock = t + Lease
        /\ Renewed(t).keep = row.keep /\ Renewed(t).readable = row.readable
    BY <1>1 DEF Renewed, Rows
  <1>6. Stored(t).state = "stored" /\ Stored(t).owner = row.owner
    BY <1>1 DEF Stored, Rows
  <1> QED BY <1>1, <1>3, <1>4, <1>5, <1>6

\* The row a request holds is a row of that request.
LEMMA HoldsRow ==
  ASSUME NEW r \in Requests, Holds(r)
  PROVE  row # NoRow
  BY NoRowState DEF Holds

\* The pause after a failed renewal is a number.
LEMMA DelayType ==
  ASSUME NEW left \in Int
  PROVE  RetryDelay(left) \in Nat
  BY Times DEF RetryDelay, MinOf, MaxOf

\* The variables of the requests keep their types.
LEMMA AdmitType ==
  ASSUME TypeOK, NEW r \in Requests, NEW where \in Places, EndAdmit(r, where)
  PROVE  /\ tries' \in [Requests -> 0..ChangesBeforeConflict - 1]
         /\ now' \in [Requests -> Nat]
         /\ seen' \in [Requests -> Rows \cup {NoRow}]
         /\ pc' \in [Requests -> Places]
         /\ pc'[r] = where
         /\ \A q \in Requests \ {r} : pc'[q] = pc[q] /\ now'[q] = now[q] /\ seen'[q] = seen[q]
  BY DEF TypeOK, EndAdmit, Goto, ChangesBeforeConflict

\* Another round of admit() preserves the types.
LEMMA RetryType ==
  ASSUME TypeOK, NEW r \in Requests, Retry(r)
  PROVE  /\ tries' \in [Requests -> 0..ChangesBeforeConflict - 1]
         /\ now' \in [Requests -> Nat]
         /\ seen' \in [Requests -> Rows \cup {NoRow}]
         /\ pc' \in [Requests -> Places]
         /\ pc'[r] \in {"admit", "inflight"}
         /\ \A q \in Requests \ {r} : pc'[q] = pc[q] /\ now'[q] = now[q] /\ seen'[q] = seen[q]
  <1>1. CASE tries[r] + 1 = ChangesBeforeConflict
    <2>1. EndAdmit(r, "inflight")
      BY <1>1 DEF Retry
    <2> QED BY <2>1, AdmitType DEF Places
  <1>2. CASE tries[r] + 1 # ChangesBeforeConflict
    BY <1>2 DEF TypeOK, Retry, Goto, ChangesBeforeConflict, Places
  <1> QED BY <1>1, <1>2

\* Claiming the key and starting the heartbeat preserves the types.
LEMMA StartType ==
  ASSUME TypeOK, NEW r \in Requests, NEW t \in Nat, StartRun(r, t)
  PROVE  /\ row' \in Rows
         /\ tries' \in [Requests -> 0..ChangesBeforeConflict - 1]
         /\ now' \in [Requests -> Nat]
         /\ seen' \in [Requests -> Rows \cup {NoRow}]
         /\ pc' \in [Requests -> Places] /\ pc'[r] = "running"
         /\ \A q \in Requests \ {r} : /\ pc'[q] = pc[q] /\ now'[q] = now[q] /\ seen'[q] = seen[q]
                                      /\ beating'[q] = beating[q] /\ due'[q] = due[q]
         /\ beating' \in [Requests -> BOOLEAN] /\ beating'[r]
         /\ due' \in [Requests -> Nat] /\ due'[r] = clock + Cadence
         /\ ends' \in [Requests -> Nat]
  <1>1. EndAdmit(r, "running") /\ row' = ClaimOf(r, t)
    BY DEF StartRun
  <1>2. /\ beating' \in [Requests -> BOOLEAN] /\ beating'[r]
        /\ due' \in [Requests -> Nat] /\ due'[r] = clock + Cadence
        /\ ends' \in [Requests -> Nat]
        /\ \A q \in Requests \ {r} : beating'[q] = beating[q] /\ due'[q] = due[q]
    BY Times DEF StartRun, TypeOK
  <1> QED BY <1>1, <1>2, AdmitType, ClaimType DEF Places

\* Cancelling the heartbeat preserves the types.
LEMMA StopType ==
  ASSUME TypeOK, NEW r \in Requests, StopBeat(r)
  PROVE  /\ beating' \in [Requests -> BOOLEAN] /\ ~beating'[r]
         /\ due' \in [Requests -> Nat] /\ ends' \in [Requests -> Nat]
         /\ \A q \in Requests \ {r} : beating'[q] = beating[q] /\ due'[q] = due[q] /\ ends'[q] = ends[q]
  BY DEF StopBeat, TypeOK

\* The steps of one request keep the types.
LEMMA RequestType ==
  ASSUME TypeOK, NEW r \in Requests, Request(r)
  PROVE  TypeOK'
  <1> USE DEF claimVars, beatVars, history, world
  <1>0. clock \in Nat /\ (down \in BOOLEAN)
    BY DEF TypeOK
  <1>1. ASSUME NEW where \in Places, Goto(r, where)
        PROVE  pc' \in [Requests -> Places]
    BY <1>1 DEF TypeOK, Goto
  <1>2. \A t \in Recent : t \in Nat
    BY <1>0, RecentType
  <1>3. CASE CheckCaller(r)
    <2>1. pc' \in [Requests -> Places]
      BY <1>1, <1>3 DEF CheckCaller, Places
    <2> QED BY <1>3, <2>1 DEF TypeOK, CheckCaller
  <1>4. CASE Insert(r)
    <2>1. PICK t \in Recent :
            \/ (row = NoRow /\ StartRun(r, t))
            \/ /\ row # NoRow
               /\ now' = [now EXCEPT ![r] = t]
               /\ Goto(r, "find")
               /\ UNCHANGED <<row, tries, seen, beatVars>>
      BY <1>4 DEF Insert
    <2>2. CASE StartRun(r, t)
      BY <1>2, <1>4, <2>2, StartType DEF TypeOK, Insert
    <2>3. CASE now' = [now EXCEPT ![r] = t] /\ Goto(r, "find") /\ UNCHANGED <<row, tries, seen, beatVars>>
      <3>1. now' \in [Requests -> Nat] /\ pc' \in [Requests -> Places]
        BY <1>1, <1>2, <2>3 DEF TypeOK, Places
      <3> QED BY <1>4, <2>3, <3>1 DEF TypeOK, Insert
    <2> QED BY <2>1, <2>2, <2>3
  <1>5. CASE Find(r)
    <2>1. got' \in [Requests -> Requests \cup {NoOne}]
      <3>1. row.owner \in Requests \cup {NoOne}
        BY NoRowState DEF TypeOK, Rows
      <3> QED BY <1>5, <3>1 DEF TypeOK, Find
    <2>2. CASE Retry(r)
      BY <1>5, <2>1, <2>2, RetryType DEF TypeOK, Find
    <2>3. CASE seen' = [seen EXCEPT ![r] = row] /\ Goto(r, "take") /\ UNCHANGED <<tries, now>>
      <3>1. seen' \in [Requests -> Rows \cup {NoRow}] /\ pc' \in [Requests -> Places]
        BY <1>1, <2>3 DEF TypeOK, Places
      <3> QED BY <1>5, <2>1, <2>3, <3>1 DEF TypeOK, Find
    <2>4. CASE EndAdmit(r, Answer(r))
      <3>1. Answer(r) \in Places
        BY DEF Answer, Places
      <3> QED BY <1>5, <2>1, <2>4, <3>1, AdmitType DEF TypeOK, Find
    <2> QED BY <1>5, <2>2, <2>3, <2>4 DEF Find
  <1>6. CASE TakeOver(r)
    <2>1. CASE StartRun(r, now[r])
      <3>1. now[r] \in Nat
        BY DEF TypeOK
      <3> QED BY <1>6, <2>1, <3>1, StartType DEF TypeOK, TakeOver
    <2>2. CASE Retry(r) /\ UNCHANGED <<row, beatVars>>
      BY <1>6, <2>2, RetryType DEF TypeOK, TakeOver
    <2> QED BY <1>6, <2>1, <2>2 DEF TakeOver
  <1>7. CASE AdmitFails(r)
    <2>1. row' \in Rows \cup {NoRow}
      <3>1. now[r] \in Nat /\ row \in Rows \cup {NoRow}
        BY DEF TypeOK
      <3> QED BY <1>2, <1>7, <3>1, ClaimType DEF AdmitFails
    <2>2. EndAdmit(r, "failed") /\ "failed" \in Places
      BY <1>7 DEF AdmitFails, Places
    <2> QED BY <1>7, <2>1, <2>2, AdmitType DEF TypeOK, AdmitFails
  <1>8. ASSUME UNCHANGED row \/ (Holds(r) /\ \E t \in Recent : row' = Renewed(t))
        PROVE  row' \in Rows \cup {NoRow}
    BY <1>2, <1>8, HoldsRow, RowTypes DEF TypeOK
  <1>9. CASE Renew(r)
    <2>1. row' \in Rows \cup {NoRow}
      BY <1>8, <1>9 DEF Renew
    <2>2. CASE Holds(r)
      <3>1. due' \in [Requests -> Nat] /\ ends' \in [Requests -> Nat]
        BY <1>0, <1>9, <2>2, Times DEF TypeOK, Renew
      <3> QED BY <1>9, <2>1, <2>2, <3>1 DEF TypeOK, Renew
    <2>3. CASE ~Holds(r)
      BY <1>9, <2>1, <2>3, StopType DEF TypeOK, Renew
    <2> QED BY <2>2, <2>3
  <1>10. CASE RenewFails(r)
    <2>1. row' \in Rows \cup {NoRow}
      BY <1>8, <1>10 DEF RenewFails
    <2>2. due' \in [Requests -> Nat]
      <3>1. ends[r] - clock \in Int
        BY <1>0 DEF TypeOK
      <3>2. clock + RetryDelay(ends[r] - clock) \in Nat
        BY <1>0, <3>1, DelayType
      <3> QED BY <1>10, <3>2 DEF TypeOK, RenewFails
    <2> QED BY <1>10, <2>1, <2>2 DEF TypeOK, RenewFails
  <1>11. CASE Succeed(r)
    <2>1. pc' \in [Requests -> Places]
      BY <1>1, <1>11 DEF Succeed, Places
    <2> QED BY <1>11, <2>1 DEF TypeOK, Succeed
  <1>12. CASE Fail(r)
    <2>1. pc' \in [Requests -> Places]
      BY <1>1, <1>12 DEF Fail, Places
    <2>2. paid' \subseteq Requests
      BY <1>12 DEF Fail, TypeOK
    <2> QED BY <1>12, <2>1, <2>2 DEF TypeOK, Fail
  <1>13. ASSUME UNCHANGED row \/ (Storable(r) /\ \E t \in Recent : row' = Stored(t))
        PROVE  row' \in Rows \cup {NoRow}
    BY <1>2, <1>13, HoldsRow, RowTypes DEF TypeOK, Storable
  <1>14. CASE Store(r)
    <2>1. pc' \in [Requests -> Places]
      BY <1>1, <1>14 DEF Store, Places
    <2>2. row' \in Rows \cup {NoRow}
      BY <1>13, <1>14 DEF Store
    <2> QED BY <1>14, <2>1, <2>2 DEF TypeOK, Store
  <1>15. CASE StoreFails(r)
    <2>1. pc' \in [Requests -> Places]
      BY <1>1, <1>15 DEF StoreFails, Places
    <2>2. row' \in Rows \cup {NoRow}
      BY <1>13, <1>15 DEF StoreFails
    <2> QED BY <1>15, <2>1, <2>2 DEF TypeOK, StoreFails
  <1>16. CASE Release(r)
    <2>1. pc' \in [Requests -> Places]
      BY <1>1, <1>16 DEF Release, Places
    <2>2. row' \in Rows \cup {NoRow}
      BY <1>16 DEF Release, Released, TypeOK
    <2> QED BY <1>16, <2>1, <2>2 DEF TypeOK, Release
  <1>17. CASE Stop(r)
    <2>1. pc' \in [Requests -> Places]
      BY <1>1, <1>17 DEF Stop, Places
    <2> QED BY <1>17, <2>1, StopType DEF TypeOK, Stop
  <1>18. CASE Crash(r)
    <2>1. StopBeat(r) /\ EndAdmit(r, "dead") /\ "dead" \in Places
      BY <1>18 DEF Crash, Places
    <2> QED BY <1>18, <2>1, StopType, AdmitType DEF TypeOK, Crash
  <1>19. CASE Cancel(r)
    <2>1. pc' \in [Requests -> Places]
      BY <1>1, <1>19 DEF Cancel, Places
    <2>2. row' \in Rows \cup {NoRow}
      BY <1>13, <1>19 DEF Cancel
    <2>3. cancelled' \subseteq Requests
      BY <1>19 DEF Cancel, TypeOK
    <2> QED BY <1>19, <2>1, <2>2, <2>3 DEF TypeOK, Cancel
  <1> QED BY <1>3, <1>4, <1>5, <1>6, <1>7, <1>9, <1>10, <1>11, <1>12, <1>14, <1>15,
             <1>16, <1>17, <1>18, <1>19 DEF Request

\* Every variable of Idempotency keeps its type.
THEOREM TypeCorrect == Spec => []TypeOK
  <1> USE DEF claimVars, beatVars, history, world
  <1>1. Init => TypeOK
    <2> SUFFICES ASSUME Init PROVE TypeOK
      OBVIOUS
    <2>1. 0 \in 0..ChangesBeforeConflict - 1 /\ "new" \in Places
      BY DEF ChangesBeforeConflict, Places
    <2>2. (down \in BOOLEAN) /\ beating \in [Requests -> BOOLEAN]
      BY DEF Init
    <2> QED BY <2>1, <2>2 DEF Init, TypeOK
  <1>2. TypeOK /\ [Next]_vars => TypeOK'
    <2> SUFFICES ASSUME TypeOK, [Next]_vars PROVE TypeOK'
      OBVIOUS
    <2>1. CASE \E r \in Requests : Request(r)
      BY <2>1, RequestType
    <2>2. CASE Sweep
      BY <2>2 DEF TypeOK, Sweep
    <2>3. CASE RotateSecret
      <3>1. row \in Rows
        BY <2>3, NoRowState DEF TypeOK, RotateSecret
      <3>2. row' \in Rows
        BY <2>3, <3>1 DEF RotateSecret, Rows
      <3> QED BY <2>3, <3>2 DEF TypeOK, RotateSecret
    <2>4. CASE GoDown
      BY <2>4 DEF TypeOK, GoDown
    <2>5. CASE ComeUp
      BY <2>5 DEF TypeOK, ComeUp
    <2>6. CASE Tick
      BY <2>6 DEF TypeOK, Tick
    <2>7. CASE UNCHANGED vars
      BY <2>7 DEF TypeOK, vars
    <2> QED BY <2>1, <2>2, <2>3, <2>4, <2>5, <2>6, <2>7 DEF Next
  <1> QED BY <1>1, <1>2, PTL DEF Spec

-----------------------------------------------------------------------------
(* A running request keeps its key.                                        *)

\* How old the reading of a request's round may be.
Fresh(r) == now[r] <= clock /\ (pc[r] \in {"find", "take"} => clock <= now[r] + Slack)

\* What keeps the claim of a running request alive. Its heartbeat wakes, late
\* by Slack, before the lease ends, which it knows within Slack; in an outage
\* the lease has been running for its length, a pause and a delay at most.
Safe(r) ==
  /\ Holds(r) /\ beating[r]
  /\ due[r] + Slack < row.lock
  /\ ends[r] <= row.lock + Slack /\ ends[r] <= clock + Lease
  /\ down => clock + Lease <= ends[r] + Cadence + Slack + outage
  /\ outages = 0 => due[r] + Lease <= ends[r] + Cadence

KeepInv ==
  /\ \A r \in Requests : Fresh(r)
  /\ \A r \in Requests : beating[r] =>
       pc[r] \in Working \cup {"stopping"} /\ clock <= due[r] + Slack
  /\ \A r \in Requests : pc[r] \in Working => Safe(r)

\* An outage, the only one, that is shorter than what OutageNeeded says.
Short == Slack <= Shortest /\ outage + Cadence + Shortest + 3 * Slack < Lease
Calm == outages = 0 \/ (outages = 1 /\ Short)

\* What is kept until the database fails, or fails for long.
CalmInv ==
  /\ outages = 0 => ~down /\ outage = 0
  /\ Calm => KeepInv

\* Safe is enough for the lease of a running request to be good.
LEMMA KeepGood ==
  ASSUME TypeOK, KeepInv, NEW r \in Requests, pc[r] \in Working
  PROVE  /\ Safe(r) /\ Holds(r) /\ row \in Rows /\ row.lock > clock
         /\ \A q \in Requests : pc[q] \in Working => q = r
  <1>1. Safe(r) /\ Holds(r) /\ due[r] + Slack < row.lock /\ clock <= due[r] + Slack
    BY DEF KeepInv, Safe
  <1>2. row \in Rows
    BY <1>1, HoldsRow DEF TypeOK
  <1>3. row.lock \in Nat /\ due[r] \in Nat /\ clock \in Nat
    BY <1>2 DEF TypeOK, Rows
  <1>4. row.lock > clock
    BY <1>1, <1>3, Times
  <1>5. \A q \in Requests : pc[q] \in Working => q = r
    BY <1>1 DEF KeepInv, Safe, Holds
  <1> QED BY <1>1, <1>2, <1>4, <1>5

\* Nobody runs on a claim that may be taken over.
LEMMA NobodyRuns ==
  ASSUME TypeOK, KeepInv, NEW r \in Requests, row = NoRow \/ (pc[r] = "take" /\ Unchanged(r))
  PROVE  \A q \in Requests : pc[q] \notin Working
  <1> SUFFICES ASSUME NEW q \in Requests, pc[q] \in Working PROVE FALSE
    OBVIOUS
  <1>1. row.state = "running" /\ row.lock > clock /\ row.lock \in Nat /\ row # NoRow
    BY KeepGood, HoldsRow DEF Holds, Rows
  <1>2. row.lock <= now[r] /\ now[r] <= clock /\ now[r] \in Nat /\ clock \in Nat
    BY <1>1 DEF Unchanged, KeepInv, Fresh, TypeOK
  <1> QED BY <1>1, <1>2

\* A step that moves one request on without the row or a heartbeat.
LEMMA KeepSame ==
  ASSUME KeepInv, NEW r \in Requests, UNCHANGED <<row, clock, down, outages, outage, beating, due, ends>>,
         \A q \in Requests \ {r} : pc'[q] = pc[q] /\ now'[q] = now[q],
         Fresh(r)',
         pc'[r] \in Working => pc[r] \in Working,
         pc[r] \in Working \cup {"stopping"} => pc'[r] \in Working \cup {"stopping"}
  PROVE  KeepInv'
  <1>1. \A q \in Requests : Safe(q) => Safe(q)'
    BY DEF Safe, Holds
  <1> QED BY <1>1 DEF KeepInv, Fresh

\* What a claim or a renewal that is reported gives.
LEMMA SafeStart ==
  ASSUME TypeOK, NEW r \in Requests, NEW t \in Nat, t <= clock, clock - t <= Slack,
         row'.state = "running", row'.owner = r, row'.lock = t + Lease,
         due'[r] = clock + Cadence, ends'[r] = clock + Lease, beating'[r],
         UNCHANGED <<clock, down, outages, outage>>, ~down
  PROVE  Safe(r)' /\ clock <= due'[r] + Slack
  <1>1. clock \in Nat
    BY DEF TypeOK
  <1>2. /\ due'[r] + Slack < row'.lock /\ ends'[r] <= row'.lock + Slack
        /\ ends'[r] <= clock + Lease /\ due'[r] + Lease <= ends'[r] + Cadence
        /\ clock <= due'[r] + Slack
    BY <1>1, Times
  <1> QED BY <1>2 DEF Safe, Holds

\* A claim on a key no request runs on.
LEMMA KeepStart ==
  ASSUME TypeOK, KeepInv, NEW r \in Requests, NEW t \in Nat, t <= clock, clock - t <= Slack,
         StartRun(r, t), UNCHANGED <<clock, down, outages, outage>>, ~down,
         \A q \in Requests : pc[q] \notin Working
  PROVE  KeepInv'
  <1>1. /\ pc'[r] = "running" /\ beating'[r] /\ due'[r] = clock + Cadence
        /\ \A q \in Requests \ {r} : pc'[q] = pc[q] /\ now'[q] = now[q]
                                     /\ beating'[q] = beating[q] /\ due'[q] = due[q]
    BY StartType
  <1>2. row'.state = "running" /\ row'.owner = r /\ row'.lock = t + Lease
    BY ClaimType DEF StartRun
  <1>3. clock \in Nat /\ now'[r] = 0 /\ ends'[r] = clock + Lease
    BY DEF TypeOK, StartRun, EndAdmit
  <1>4. Safe(r)' /\ clock <= due'[r] + Slack
    BY <1>1, <1>2, <1>3, SafeStart
  <1>5. \A q \in Requests : Fresh(q)'
    BY <1>1, <1>3 DEF KeepInv, Fresh
  <1>6. \A q \in Requests : beating'[q] =>
          pc'[q] \in Working \cup {"stopping"} /\ clock <= due'[q] + Slack
    BY <1>1, <1>4 DEF KeepInv, Working
  <1>7. \A q \in Requests : pc'[q] \in Working => q = r
    BY <1>1
  <1> QED BY <1>4, <1>5, <1>6, <1>7 DEF KeepInv

\* A request that stops working, whatever becomes of its row.
LEMMA KeepEnd ==
  ASSUME TypeOK, KeepInv, NEW r \in Requests, UNCHANGED <<clock, down, outages, outage>>,
         \A q \in Requests \ {r} : /\ pc'[q] = pc[q] /\ now'[q] = now[q] /\ beating'[q] = beating[q]
                                   /\ due'[q] = due[q] /\ ends'[q] = ends[q],
         Fresh(r)', pc'[r] \notin Working,
         row' = row \/ Holds(r) \/ \A q \in Requests : pc[q] \notin Working,
         beating'[r] => beating[r] /\ due'[r] = due[r] /\ pc'[r] = "stopping"
  PROVE  KeepInv'
  <1>1. \A q \in Requests : pc'[q] \in Working => row' = row /\ pc[q] \in Working /\ q # r
    BY DEF KeepInv, Safe, Holds
  <1>2. \A q \in Requests : beating'[q] =>
          pc'[q] \in Working \cup {"stopping"} /\ clock <= due'[q] + Slack
    BY DEF KeepInv
  <1>3. \A q \in Requests : Fresh(q)'
    BY DEF KeepInv, Fresh
  <1>4. \A q \in Requests : pc'[q] \in Working => Safe(q)'
    BY <1>1 DEF KeepInv, Safe, Holds
  <1> QED BY <1>2, <1>3, <1>4 DEF KeepInv

\* After a failed renewal the heartbeat still wakes before the lease ends, in
\* an outage that is short: a quarter of the lease that is left, or the
\* shortest pause, and a delay fit into what is left.
LEMMA RetryInTime ==
  ASSUME NEW left \in Int, left > Shortest + 2 * Slack, Slack <= Shortest
  PROVE  RetryDelay(left) + 2 * Slack < left
  <1> DEFINE d == left \div 4
  <1>1. left \in Nat /\ Slack \in Nat /\ Shortest \in Nat /\ Cadence \in Nat
    BY Times
  <1>2. d \in Nat /\ 4 * d <= left
    BY <1>1
  <1> HIDE DEF d
  <1>3. d + 2 * Slack < left
    BY <1>1, <1>2
  <1>4. RetryDelay(left) <= d \/ RetryDelay(left) <= Shortest
    BY <1>1, <1>2 DEF RetryDelay, MinOf, MaxOf, d
  <1>5. RetryDelay(left) \in Nat
    BY DelayType
  <1> QED BY <1>1, <1>2, <1>3, <1>4, <1>5

\* A renewal that fails in a calm time is tried again before the lease ends.
LEMMA KeepRetry ==
  ASSUME TypeOK, KeepInv, Calm, outages = 0 => ~down, NEW r \in Requests, RenewFails(r)
  PROVE  KeepInv'
  <1> USE DEF claimVars, beatVars, history, world
  <1>0. /\ clock \in Nat /\ down /\ outages = 1 /\ Short /\ beating[r]
        /\ UNCHANGED <<pc, beating, ends, now, clock, down, outages, outage>>
    BY DEF RenewFails, TypeOK, Calm
  <1> DEFINE e == ends[r] - clock
             d == RetryDelay(e)
  <1>1. e \in Int /\ ends[r] \in Nat /\ outage \in Nat
    BY <1>0 DEF TypeOK
  <1>2. d \in Nat
    BY <1>1, DelayType
  <1>3. due'[r] = clock + d /\ \A q \in Requests \ {r} : due'[q] = due[q]
    BY DEF RenewFails, TypeOK
  <1>4. row' = row \/ (Holds(r) /\ \E t \in Recent : row' = Renewed(t))
    BY DEF RenewFails
  <1>5. \A q \in Requests : Fresh(q)'
    BY <1>0 DEF KeepInv, Fresh
  <1> HIDE DEF d, e
  <1>6. clock <= due'[r] + Slack
    BY <1>0, <1>2, <1>3, Times
  <1>7. \A q \in Requests : beating'[q] =>
          pc'[q] \in Working \cup {"stopping"} /\ clock <= due'[q] + Slack
    BY <1>0, <1>3, <1>6 DEF KeepInv
  <1>8. ASSUME NEW q \in Requests, pc[q] \in Working, q # r
        PROVE  Safe(q)'
    <2>1. Safe(q) /\ Holds(q)
      BY <1>8 DEF KeepInv, Safe
    <2>2. row' = row
      BY <1>4, <1>8, <2>1 DEF Holds
    <2> QED BY <1>0, <1>3, <1>8, <2>1, <2>2 DEF Safe, Holds
  <1>9. ASSUME pc[r] \in Working
        PROVE  Safe(r)'
    <2>1. /\ Safe(r) /\ Holds(r) /\ row \in Rows /\ row # NoRow /\ row.lock \in Nat
      BY <1>9, KeepGood, HoldsRow DEF Rows
    <2>2. ends[r] <= row.lock + Slack /\ ends[r] <= clock + Lease
          /\ clock + Lease <= ends[r] + Cadence + Slack + outage
      BY <1>0, <2>1 DEF Safe
    <2>3. e > Shortest + 2 * Slack /\ Slack <= Shortest
      BY <1>0, <1>1, <2>2, Times DEF Short, e
    <2>4. d + 2 * Slack < e
      BY <1>1, <2>3, RetryInTime DEF d
    <2>5. /\ row'.state = "running" /\ row'.owner = r /\ row'.lock \in Nat
          /\ ends[r] <= row'.lock + Slack
      <3>1. CASE row' = row
        BY <2>1, <2>2, <3>1 DEF Holds
      <3>2. ASSUME NEW t \in Recent, row' = Renewed(t)
            PROVE  /\ row'.state = "running" /\ row'.owner = r /\ row'.lock \in Nat
                   /\ ends[r] <= row'.lock + Slack
        <4>1. t \in Nat /\ t <= clock /\ clock - t <= Slack
          BY <1>0, RecentType
        <4>2. row'.state = "running" /\ row'.owner = r /\ row'.lock = t + Lease
          BY <2>1, <3>2, <4>1, RowTypes DEF Holds
        <4> QED BY <1>0, <1>1, <2>2, <4>1, <4>2, Times
      <3> QED BY <1>4, <3>1, <3>2
    <2>6. due'[r] + Slack < row'.lock
      BY <1>0, <1>1, <1>2, <1>3, <2>4, <2>5, Times DEF e
    <2> QED BY <1>0, <2>2, <2>5, <2>6 DEF Safe, Holds
  <1> QED BY <1>0, <1>5, <1>7, <1>8, <1>9 DEF KeepInv

\* No step of a request, by itself or of another, breaks what keeps a claim alive.
LEMMA RequestKeep ==
  ASSUME TypeOK, KeepInv, Calm, outages = 0 => ~down, NEW r \in Requests, Request(r)
  PROVE  KeepInv'
  <1> USE DEF claimVars, beatVars, history, world
  <1>0. /\ clock \in Nat /\ now[r] \in Nat /\ now[r] <= clock
        /\ pc \in [Requests -> Places] /\ now \in [Requests -> Nat]
    BY DEF TypeOK, KeepInv, Fresh
  <1>1. \A t \in Recent : t \in Nat /\ t <= clock /\ clock - t <= Slack
    BY <1>0, RecentType
  <1>2. ASSUME NEW where, Goto(r, where)
        PROVE  pc'[r] = where /\ \A q \in Requests \ {r} : pc'[q] = pc[q]
    BY <1>0, <1>2 DEF Goto
  <1>3. CASE CheckCaller(r)
    <2>1. pc[r] = "new" /\ UNCHANGED <<row, clock, down, outages, outage, beating, due, ends, now>>
      BY <1>3 DEF CheckCaller
    <2>2. pc'[r] \notin Working /\ \A q \in Requests \ {r} : pc'[q] = pc[q]
      BY <1>2, <1>3 DEF CheckCaller, Working
    <2>3. Fresh(r)'
      BY <1>0, <1>2, <1>3, <2>1 DEF Fresh, CheckCaller
    <2> QED BY <2>1, <2>2, <2>3, KeepSame DEF Working
  <1>4. CASE Insert(r)
    <2>1. PICK t \in Recent :
            \/ (row = NoRow /\ StartRun(r, t))
            \/ /\ row # NoRow
               /\ now' = [now EXCEPT ![r] = t]
               /\ Goto(r, "find")
               /\ UNCHANGED <<row, tries, seen, beatVars>>
      BY <1>4 DEF Insert
    <2>2. CASE row = NoRow /\ StartRun(r, t)
      <3>1. \A q \in Requests : pc[q] \notin Working
        BY <2>2, NobodyRuns
      <3> QED BY <1>1, <1>4, <2>2, <3>1, KeepStart DEF Insert
    <2>3. CASE now' = [now EXCEPT ![r] = t] /\ Goto(r, "find") /\ UNCHANGED <<row, tries, seen, beatVars>>
      <3>1. now'[r] = t /\ \A q \in Requests \ {r} : now'[q] = now[q] /\ pc'[q] = pc[q]
        BY <1>0, <1>2, <2>3
      <3>2. pc'[r] = "find" /\ pc[r] = "admit" /\ UNCHANGED <<clock, down, outages, outage>>
        BY <1>2, <1>4, <2>3 DEF Insert
      <3>3. Fresh(r)'
        BY <1>0, <1>1, <3>1, <3>2, Times DEF Fresh
      <3> QED BY <2>3, <3>1, <3>2, <3>3, KeepSame DEF Working
    <2> QED BY <2>1, <2>2, <2>3
  <1>5. CASE Find(r)
    <2>1. pc[r] = "find" /\ UNCHANGED <<row, clock, down, outages, outage, beating, due, ends>>
      BY <1>5 DEF Find
    <2>2. pc'[r] \notin Working /\ Fresh(r)'
          /\ \A q \in Requests \ {r} : pc'[q] = pc[q] /\ now'[q] = now[q]
      <3>1. CASE Retry(r)
        <4>1. now'[r] = 0
          BY <1>0, <3>1 DEF Retry, EndAdmit
        <4> QED BY <1>0, <2>1, <3>1, <4>1, RetryType DEF Working, Fresh
      <3>2. CASE Goto(r, "take") /\ UNCHANGED <<tries, now>>
        BY <1>0, <1>2, <2>1, <3>2 DEF Working, Fresh, KeepInv
      <3>3. CASE Answer(r) # "take" /\ EndAdmit(r, Answer(r))
        <4>1. Answer(r) \in Places /\ Answer(r) \notin Working
          BY DEF Answer, Places, Working
        <4>2. now'[r] = 0
          BY <1>0, <3>3 DEF EndAdmit
        <4>3. Answer(r) \in {"take", "reused", "replayed", "inflight"}
          BY DEF Answer
        <4> QED BY <1>0, <2>1, <3>3, <4>1, <4>2, <4>3, AdmitType DEF Fresh
      <3> QED BY <1>5, <3>1, <3>2, <3>3 DEF Find
    <2> QED BY <2>1, <2>2, KeepSame DEF Working
  <1>6. CASE TakeOver(r)
    <2>1. pc[r] = "take" /\ UNCHANGED <<clock, down, outages, outage>> /\ ~down
      BY <1>6 DEF TakeOver
    <2>2. CASE Unchanged(r) /\ StartRun(r, now[r])
      <3>1. \A q \in Requests : pc[q] \notin Working
        BY <2>1, <2>2, NobodyRuns
      <3>3. clock - now[r] <= Slack
        BY <1>0, <2>1, Times DEF KeepInv, Fresh
      <3> QED BY <1>0, <2>1, <2>2, <3>1, <3>3, KeepStart
    <2>3. CASE Retry(r) /\ UNCHANGED <<row, beatVars>>
      <3>1. now'[r] = 0
        BY <1>0, <2>3 DEF Retry, EndAdmit
      <3>2. /\ pc'[r] \in {"admit", "inflight"}
            /\ \A q \in Requests \ {r} : pc'[q] = pc[q] /\ now'[q] = now[q]
        BY <2>3, RetryType
      <3>3. Fresh(r)'
        BY <1>0, <2>1, <3>1, <3>2 DEF Fresh
      <3> QED BY <2>1, <2>3, <3>2, <3>3, KeepSame DEF Working
    <2> QED BY <1>6, <2>2, <2>3 DEF TakeOver
  <1>7. CASE AdmitFails(r)
    <2>1. /\ EndAdmit(r, "failed") /\ "failed" \in Places
          /\ UNCHANGED <<clock, down, outages, outage, beating, due, ends>>
          /\ pc[r] \in {"new", "admit", "find", "take"}
      BY <1>7 DEF AdmitFails, Places
    <2>2. pc'[r] = "failed" /\ now'[r] = 0
          /\ \A q \in Requests \ {r} : pc'[q] = pc[q] /\ now'[q] = now[q]
      BY <1>0, <2>1, AdmitType DEF EndAdmit
    <2>3. Fresh(r)'
      BY <1>0, <2>1, <2>2 DEF Fresh
    <2>4. row' = row \/ row = NoRow \/ (pc[r] = "take" /\ Unchanged(r))
      BY <1>7 DEF AdmitFails
    <2>5. row' = row \/ \A q \in Requests : pc[q] \notin Working
      BY <2>4, NobodyRuns
    <2>6. ~beating[r]
      BY <2>1 DEF KeepInv, Working
    <2> QED BY <2>1, <2>2, <2>3, <2>5, <2>6, KeepEnd DEF Working
  <1>8. CASE Renew(r)
    <2>1. UNCHANGED <<pc, now, clock, down, outages, outage>> /\ ~down
      BY <1>8 DEF Renew
    <2>2. CASE Holds(r)
      <3>1. PICK t \in Recent : row' = Renewed(t)
        BY <1>8, <2>2 DEF Renew
      <3>2. row'.state = "running" /\ row'.owner = r /\ row'.lock = t + Lease
        BY <1>1, <2>2, <3>1, HoldsRow, RowTypes DEF Holds
      <3>3. /\ due'[r] = clock + Cadence /\ ends'[r] = clock + Lease /\ beating' = beating /\ beating[r]
            /\ \A q \in Requests \ {r} : due'[q] = due[q]
        BY <1>8, <2>2 DEF Renew, TypeOK
      <3>4. Safe(r)' /\ clock <= due'[r] + Slack
        BY <1>1, <2>1, <3>2, <3>3, SafeStart
      <3>5. \A q \in Requests : pc[q] \in Working => q = r
        BY <2>2 DEF KeepInv, Safe, Holds
      <3>7. \A q \in Requests : beating'[q] =>
              pc'[q] \in Working \cup {"stopping"} /\ clock <= due'[q] + Slack
        BY <2>1, <3>3, <3>4 DEF KeepInv
      <3>8. \A q \in Requests : Fresh(q)'
        BY <2>1 DEF KeepInv, Fresh
      <3> QED BY <2>1, <3>4, <3>5, <3>7, <3>8 DEF KeepInv
    <2>3. CASE ~Holds(r)
      <3>1. StopBeat(r) /\ row' = row
        BY <1>8, <2>3 DEF Renew
      <3>2. pc[r] \notin Working
        BY <2>3 DEF KeepInv, Safe
      <3>3. Fresh(r)'
        BY <2>1 DEF KeepInv, Fresh
      <3> QED BY <2>1, <3>1, <3>2, <3>3, StopType, KeepEnd
    <2> QED BY <2>2, <2>3
  <1>9. CASE Succeed(r) \/ Fail(r)
    <2>1. /\ pc[r] = "running" /\ pc'[r] \in Working
          /\ UNCHANGED <<row, clock, down, outages, outage, beating, due, ends, now>>
          /\ \A q \in Requests \ {r} : pc'[q] = pc[q]
      BY <1>2, <1>9 DEF Succeed, Fail, Working
    <2>2. Fresh(r)'
      BY <2>1 DEF KeepInv, Fresh, Working
    <2> QED BY <2>1, <2>2, KeepSame DEF Working
  <1>10. ASSUME UNCHANGED <<clock, down, now>>, pc[r] \in Working \cup {"stopping"},
                pc'[r] \notin {"find", "take"}
         PROVE  Fresh(r)'
    BY <1>10 DEF KeepInv, Fresh
  <1>11. CASE Store(r) \/ StoreFails(r) \/ Release(r) \/ Cancel(r)
    <2>1. /\ pc[r] \in Working /\ pc'[r] \in {"releasing", "stopping"}
          /\ UNCHANGED <<clock, down, outages, outage, beating, due, ends, now>>
          /\ \A q \in Requests \ {r} : pc'[q] = pc[q]
      BY <1>2, <1>11 DEF Store, StoreFails, Release, Cancel, Working
    <2>2. Fresh(r)'
      BY <1>10, <2>1
    <2>3. CASE pc'[r] = "releasing"
      <3>1. row' = row
        BY <1>2, <1>11, <2>3 DEF Store, StoreFails, Release, Cancel
      <3> QED BY <2>1, <2>2, <2>3, <3>1, KeepSame DEF Working
    <2>4. CASE pc'[r] = "stopping"
      <3>1. Holds(r)
        BY <2>1 DEF KeepInv, Safe
      <3> QED BY <2>1, <2>2, <2>4, <3>1, KeepEnd DEF Working
    <2> QED BY <2>1, <2>3, <2>4
  <1>12. CASE Stop(r)
    <2>1. /\ pc[r] = "stopping" /\ pc'[r] = "done" /\ StopBeat(r)
          /\ UNCHANGED <<row, clock, down, outages, outage, now>>
          /\ \A q \in Requests \ {r} : pc'[q] = pc[q]
      BY <1>2, <1>12 DEF Stop
    <2>2. Fresh(r)'
      BY <1>10, <2>1
    <2> QED BY <2>1, <2>2, StopType, KeepEnd DEF Working
  <1>13. CASE Crash(r)
    <2>1. StopBeat(r) /\ EndAdmit(r, "dead") /\ UNCHANGED <<row, clock, down, outages, outage>> /\ "dead" \in Places
      BY <1>13 DEF Crash, Places
    <2>2. pc'[r] = "dead" /\ now'[r] = 0
          /\ \A q \in Requests \ {r} : pc'[q] = pc[q] /\ now'[q] = now[q]
      BY <1>0, <2>1, AdmitType DEF EndAdmit
    <2>3. Fresh(r)'
      BY <1>0, <2>1, <2>2 DEF Fresh
    <2> QED BY <2>1, <2>2, <2>3, StopType, KeepEnd DEF Working
  <1> QED BY <1>3, <1>4, <1>5, <1>6, <1>7, <1>8, <1>9, <1>11, <1>12, <1>13, KeepRetry DEF Request

\* No step of a request moves the clock or the database.
LEMMA RequestWorld ==
  ASSUME NEW r \in Requests, Request(r)
  PROVE  UNCHANGED <<clock, down, outages, outage>>
  BY DEF Request, CheckCaller, Insert, Find, TakeOver, AdmitFails, Renew, RenewFails, Succeed,
     Fail, Store, StoreFails, Release, Stop, Cancel, Crash, world

\* Requests, time and a short outage keep the running request's claim.
LEMMA CalmStep ==
  ASSUME TypeOK, CalmInv, [Next]_vars
  PROVE  CalmInv'
  <1> USE DEF claimVars, beatVars, history, world
  <1>0. clock \in Nat /\ outages \in Nat /\ outage \in Nat
    BY DEF TypeOK
  <1>1. CASE \E r \in Requests : Request(r)
    BY <1>1, RequestWorld, RequestKeep DEF CalmInv, Calm, Short
  <1>2. CASE Sweep
    <2>1. ASSUME KeepInv PROVE \A q \in Requests : pc[q] \notin Working
      <3> SUFFICES ASSUME NEW q \in Requests, pc[q] \in Working PROVE FALSE
        OBVIOUS
      <3>1. row.state = "running" /\ row.lock > clock /\ row.lock \in Nat
        BY <2>1, KeepGood DEF Holds, Rows
      <3>2. PICK t \in Recent : Expired(t)
        BY <1>2 DEF Sweep
      <3>3. t \in Nat /\ t <= clock /\ row.lock <= t
        BY <1>0, <3>1, <3>2, RecentType DEF Expired
      <3> QED BY <1>0, <3>1, <3>3
    <2>2. UNCHANGED <<clock, down, outages, outage, pc, now, beating, due, ends>>
      BY <1>2 DEF Sweep
    <2>3. KeepInv => KeepInv'
      BY <2>1, <2>2 DEF KeepInv, Fresh
    <2> QED BY <2>2, <2>3 DEF CalmInv, Calm, Short
  <1>3. CASE RotateSecret
    <2>1. row \in Rows
      BY <1>3, NoRowState DEF TypeOK, RotateSecret
    <2>2. row'.state = row.state /\ row'.owner = row.owner /\ row'.lock = row.lock
      BY <1>3, <2>1 DEF RotateSecret, Rows
    <2>3. UNCHANGED <<clock, down, outages, outage, pc, now, beating, due, ends>>
      BY <1>3 DEF RotateSecret
    <2>4. KeepInv => KeepInv'
      BY <2>2, <2>3 DEF KeepInv, Fresh, Safe, Holds
    <2> QED BY <2>3, <2>4 DEF CalmInv, Calm, Short
  <1>4. CASE GoDown
    <2>1. /\ ~down /\ down' /\ outages' = outages + 1 /\ outage' = 0
          /\ UNCHANGED <<row, clock, pc, now, beating, due, ends>>
      BY <1>4 DEF GoDown
    <2> SUFFICES ASSUME Calm' PROVE KeepInv'
      BY <1>0, <2>1 DEF CalmInv
    <2>2. outages = 0 /\ outage = 0 /\ KeepInv
      BY <1>0, <2>1 DEF Calm, CalmInv
    <2>3. ASSUME NEW q \in Requests, pc[q] \in Working PROVE Safe(q)'
      <3>1. Safe(q) /\ beating[q] /\ due[q] + Lease <= ends[q] + Cadence /\ clock <= due[q] + Slack
        BY <2>2, <2>3 DEF KeepInv, Safe
      <3>2. due[q] \in Nat /\ ends[q] \in Nat
        BY DEF TypeOK
      <3>3. clock + Lease <= ends[q] + Cadence + Slack + 0
        BY <1>0, <3>1, <3>2, Times
      <3>4. outages' # 0
        BY <2>1, <2>2
      <3> QED BY <2>1, <3>1, <3>3, <3>4 DEF Safe, Holds
    <2> QED BY <2>1, <2>2, <2>3 DEF KeepInv, Fresh
  <1>5. CASE ComeUp
    <2>1. down /\ ~down' /\ UNCHANGED <<row, clock, outages, outage, pc, now, beating, due, ends>>
      BY <1>5 DEF ComeUp
    <2>2. KeepInv => KeepInv'
      BY <2>1 DEF KeepInv, Fresh, Safe, Holds
    <2> QED BY <2>1, <2>2 DEF CalmInv, Calm, Short
  <1>6. CASE Tick
    <2>1. /\ clock' = clock + 1 /\ UNCHANGED <<row, down, outages, pc, now, beating, due, ends>>
          /\ outage' = IF down THEN outage + 1 ELSE outage
          /\ \A r \in Requests : /\ pc[r] \in {"find", "take"} => clock - now[r] < Slack
                                 /\ beating[r] => clock < due[r] + Slack
      BY <1>6 DEF Tick
    <2>2. \A r \in Requests : now[r] \in Nat /\ due[r] \in Nat /\ ends[r] \in Nat
      BY DEF TypeOK
    <2>3. Calm' => Calm
      BY <1>0, <2>1, Times DEF Calm, Short
    <2>4. outages = 0 => ~down' /\ outage' = 0
      BY <2>1 DEF CalmInv
    <2>5. ASSUME KeepInv PROVE KeepInv'
      <3>1. \A r \in Requests : Fresh(r)'
        BY <1>0, <2>1, <2>2, <2>5, Times DEF KeepInv, Fresh
      <3>2. \A r \in Requests : beating[r] =>
              pc[r] \in Working \cup {"stopping"} /\ clock + 1 <= due[r] + Slack
        BY <1>0, <2>1, <2>2, <2>5, Times DEF KeepInv
      <3>3. ASSUME NEW r \in Requests, pc[r] \in Working PROVE Safe(r)'
        <4>1. Safe(r)
          BY <2>5, <3>3 DEF KeepInv
        <4>2. ends[r] <= clock' + Lease
          BY <1>0, <2>1, <2>2, <4>1, Times DEF Safe
        <4>3. down => clock' + Lease <= ends[r] + Cadence + Slack + outage'
          BY <1>0, <2>1, <2>2, <4>1, Times DEF Safe
        <4> QED BY <2>1, <4>1, <4>2, <4>3 DEF Safe, Holds
      <3> QED BY <2>1, <3>1, <3>2, <3>3 DEF KeepInv
    <2> QED BY <2>1, <2>3, <2>4, <2>5 DEF CalmInv
  <1>7. CASE UNCHANGED vars
    <2>1. UNCHANGED <<row, clock, down, outages, outage, pc, now, beating, due, ends>>
      BY <1>7 DEF vars
    <2>2. KeepInv => KeepInv'
      BY <2>1 DEF KeepInv, Fresh, Safe, Holds
    <2> QED BY <2>1, <2>2 DEF CalmInv, Calm, Short
  <1> QED BY <1>1, <1>2, <1>3, <1>4, <1>5, <1>6, <1>7 DEF Next

\* So it is kept in every state.
LEMMA CalmAlways == Spec => []CalmInv
  <1>1. Init => CalmInv
    BY DEF CalmInv, Calm, Init, KeepInv, Fresh, Working
  <1>2. TypeOK /\ CalmInv /\ [Next]_vars => CalmInv'
    BY CalmStep
  <1> QED BY <1>1, <1>2, TypeCorrect, PTL DEF Spec

\* "A retry can then take the key over only once the worker running the request
\* is gone" (keep_claim_alive): until the database fails, and when transactions
\* and wake-ups are late by at most Slack and a lease outlasts a pause and two
\* such delays, every running request holds its key and its lease is good.
THEOREM OwnerCorrect == Spec => []OwnerKept
  <1>1. TypeOK /\ CalmInv => OwnerKept
    BY KeepGood DEF OwnerKept, CalmInv, Calm
  <1> QED BY <1>1, CalmAlways, TypeCorrect, PTL

\* "The claim lapses only when the database stays unreachable for about the
\* whole lease" (keep_claim_alive, RetryDelay): a running request that lost its
\* claim in one outage saw one that lasted the lease, less a pause, the shortest
\* pause and three delays.
THEOREM OutageCorrect == Spec => []OutageNeeded
  <1>1. ASSUME TypeOK, CalmInv PROVE OutageNeeded
    <2> SUFFICES ASSUME outages <= 1, Slack <= Shortest, NEW r \in Requests, pc[r] \in Working,
                        ~(Holds(r) /\ row.lock > clock)
                 PROVE  outage + Cadence + Shortest + 3 * Slack >= Lease
      BY DEF OutageNeeded
    <2>1. ~Calm
      BY <1>1, KeepGood DEF CalmInv
    <2>2. outages = 1 /\ ~Short
      BY <1>1, <2>1 DEF Calm, TypeOK
    <2>3. ~(outage + Cadence + Shortest + 3 * Slack < Lease) /\ outage \in Nat
      BY <1>1, <2>2 DEF Short, TypeOK
    <2> QED BY <2>3, Times
  <1> QED BY <1>1, CalmAlways, TypeCorrect, PTL

-----------------------------------------------------------------------------
(* A stored response stays.                                                *)

Admission == {"new", "admit", "find", "take"}

\* What a step of r does to the row.
LEMMA RowMoves ==
  ASSUME TypeOK, NEW r \in Requests, Request(r)
  PROVE  \/ row' = row
         \/ /\ row = NoRow \/ (pc[r] = "take" /\ Unchanged(r))
            /\ pc[r] \in Admission /\ pc'[r] \in {"running", "failed"}
            /\ \E t \in Nat : row' = ClaimOf(r, t)
         \/ Holds(r) /\ row' = NoRow /\ pc[r] = "releasing" /\ pc'[r] = "stopping"
         \/ Holds(r) /\ UNCHANGED <<pc, seen, now>> /\ \E t \in Nat : row' = Renewed(t)
         \/ Holds(r) /\ pc[r] = "storing" /\ pc'[r] = "stopping" /\ \E t \in Nat : row' = Stored(t)
  <1> USE DEF claimVars, beatVars, history, world
  <1>1. \A t \in Recent : t \in Nat
    BY RecentType DEF TypeOK
  <1>2. now[r] \in Nat /\ pc \in [Requests -> Places]
    BY DEF TypeOK
  <1>3. ASSUME NEW where, Goto(r, where) PROVE pc'[r] = where
    BY <1>2, <1>3 DEF Goto
  <1>4. CASE \/ CheckCaller(r) \/ Find(r) \/ Succeed(r) \/ Fail(r) \/ Stop(r) \/ Crash(r)
    BY <1>4 DEF CheckCaller, Find, Succeed, Fail, Stop, Crash
  <1>5. CASE Insert(r)
    <2>1. CASE row' = row
      BY <2>1
    <2>2. CASE row' # row
      <3>1. PICK t \in Recent : row = NoRow /\ StartRun(r, t)
        BY <1>5, <2>2 DEF Insert
      <3>2. row' = ClaimOf(r, t) /\ pc'[r] = "running" /\ pc[r] = "admit"
        BY <1>3, <1>5, <3>1 DEF StartRun, EndAdmit, Insert
      <3> QED BY <1>1, <3>1, <3>2 DEF Admission
    <2> QED BY <2>1, <2>2
  <1>6. CASE TakeOver(r)
    <2>1. CASE Unchanged(r) /\ StartRun(r, now[r])
      <3>1. row' = ClaimOf(r, now[r]) /\ pc'[r] = "running" /\ pc[r] = "take"
        BY <1>3, <1>6, <2>1 DEF StartRun, EndAdmit, TakeOver
      <3> QED BY <1>2, <2>1, <3>1 DEF Admission
    <2> QED BY <1>6, <2>1 DEF TakeOver
  <1>7. CASE AdmitFails(r)
    <2>1. pc'[r] = "failed" /\ pc[r] \in Admission
      BY <1>3, <1>7 DEF AdmitFails, EndAdmit, Admission
    <2>2. CASE pc[r] = "admit" /\ row = NoRow /\ \E t \in Recent : row' = ClaimOf(r, t)
      BY <1>1, <2>1, <2>2
    <2>3. CASE pc[r] = "take" /\ Unchanged(r) /\ row' = ClaimOf(r, now[r])
      BY <1>2, <2>1, <2>3
    <2> QED BY <1>7, <2>2, <2>3 DEF AdmitFails
  <1>8. CASE Renew(r) \/ RenewFails(r)
    <2>1. UNCHANGED <<pc, seen, now>>
      BY <1>8 DEF Renew, RenewFails
    <2>2. row' = row \/ (Holds(r) /\ \E t \in Recent : row' = Renewed(t))
      BY <1>8 DEF Renew, RenewFails
    <2> QED BY <1>1, <2>1, <2>2
  <1>9. CASE Store(r) \/ StoreFails(r)
    <2>1. pc[r] = "storing"
      BY <1>9 DEF Store, StoreFails
    <2>2. row' = row \/ (pc'[r] = "stopping" /\ Holds(r) /\ \E t \in Recent : row' = Stored(t))
      BY <1>3, <1>9 DEF Store, StoreFails, Storable
    <2> QED BY <1>1, <2>1, <2>2
  <1>10. CASE Release(r)
    BY <1>3, <1>10 DEF Release, Released
  <1>11. CASE Cancel(r)
    <2>1. row' = row \/ (/\ pc[r] = "storing" /\ pc'[r] = "stopping" /\ Holds(r)
                         /\ \E t \in Recent : row' = Stored(t))
      BY <1>3, <1>11 DEF Cancel, Storable
    <2> QED BY <1>1, <2>1
  <1> QED BY <1>4, <1>5, <1>6, <1>7, <1>8, <1>9, <1>10, <1>11 DEF Request

\* What a step of r does to what requests know.
LEMMA LocalMoves ==
  ASSUME TypeOK, NEW r \in Requests, Request(r), now[r] <= clock
  PROVE  /\ \A q \in Requests \ {r} : pc'[q] = pc[q] /\ now'[q] = now[q] /\ seen'[q] = seen[q]
         /\ pc'[r] \in Admission => pc[r] \in Admission
         /\ pc'[r] \in Working => pc[r] \in Admission \cup Working
         /\ now'[r] <= clock /\ clock' = clock
         /\ pc'[r] = "take" =>
              \/ pc[r] = "take" /\ seen'[r] = seen[r] /\ now'[r] = now[r]
              \/ /\ pc[r] = "find" /\ row # NoRow /\ Answer(r) = "take"
                 /\ row' = row /\ seen'[r] = row /\ now'[r] = now[r]
  <1> USE DEF claimVars, beatVars, history, world, Admission, Working
  <1>1. /\ clock \in Nat /\ pc \in [Requests -> Places] /\ now \in [Requests -> Nat]
        /\ seen \in [Requests -> Rows \cup {NoRow}]
    BY DEF TypeOK
  <1>2. ASSUME NEW where \in Places, EndAdmit(r, where)
        PROVE  /\ pc'[r] = where /\ now'[r] = 0
               /\ \A q \in Requests \ {r} : pc'[q] = pc[q] /\ now'[q] = now[q] /\ seen'[q] = seen[q]
    BY <1>1, <1>2, AdmitType DEF EndAdmit
  <1>3. ASSUME Retry(r)
        PROVE  /\ pc'[r] \in {"admit", "inflight"} /\ now'[r] = 0
               /\ \A q \in Requests \ {r} : pc'[q] = pc[q] /\ now'[q] = now[q] /\ seen'[q] = seen[q]
    BY <1>1, <1>3, RetryType DEF Retry, EndAdmit
  <1>4. ASSUME NEW where, Goto(r, where)
        PROVE  pc'[r] = where /\ \A q \in Requests \ {r} : pc'[q] = pc[q]
    BY <1>1, <1>4 DEF Goto
  <1>5. /\ "running" \in Places /\ "failed" \in Places /\ "dead" \in Places
    BY DEF Places
  <1>6. CASE CheckCaller(r)
    BY <1>4, <1>6 DEF CheckCaller
  <1>7. CASE Insert(r)
    <2>1. PICK t \in Recent :
            \/ (row = NoRow /\ StartRun(r, t))
            \/ /\ row # NoRow
               /\ now' = [now EXCEPT ![r] = t]
               /\ Goto(r, "find")
               /\ UNCHANGED <<row, tries, seen, beatVars>>
      BY <1>7 DEF Insert
    <2>2. t \in Nat /\ t <= clock
      BY <1>1, RecentType
    <2>3. CASE StartRun(r, t)
      BY <1>1, <1>2, <1>5, <1>7, <2>3 DEF StartRun, Insert
    <2>4. CASE now' = [now EXCEPT ![r] = t] /\ Goto(r, "find") /\ UNCHANGED <<row, tries, seen, beatVars>>
      BY <1>1, <1>4, <1>7, <2>2, <2>4 DEF Insert
    <2> QED BY <2>1, <2>3, <2>4
  <1>8. CASE Find(r)
    <2>1. CASE Retry(r)
      BY <1>1, <1>3, <1>8, <2>1 DEF Find
    <2>2. CASE /\ row # NoRow /\ Answer(r) = "take"
               /\ seen' = [seen EXCEPT ![r] = row] /\ Goto(r, "take") /\ UNCHANGED <<tries, now>>
      BY <1>1, <1>4, <1>8, <2>2 DEF Find
    <2>3. CASE Answer(r) # "take" /\ EndAdmit(r, Answer(r))
      <3>1. Answer(r) \in {"reused", "replayed", "inflight"} /\ Answer(r) \in Places
        BY <2>3 DEF Answer, Places
      <3> QED BY <1>1, <1>2, <1>8, <2>3, <3>1 DEF Find
    <2> QED BY <1>8, <2>1, <2>2, <2>3 DEF Find
  <1>9. CASE TakeOver(r)
    <2>1. CASE StartRun(r, now[r])
      BY <1>1, <1>2, <1>5, <1>9, <2>1 DEF StartRun, TakeOver
    <2>2. CASE Retry(r)
      BY <1>1, <1>3, <1>9, <2>2 DEF TakeOver
    <2> QED BY <1>9, <2>1, <2>2 DEF TakeOver
  <1>10. CASE AdmitFails(r)
    BY <1>1, <1>2, <1>5, <1>10 DEF AdmitFails
  <1>11. CASE Renew(r) \/ RenewFails(r)
    BY <1>11 DEF Renew, RenewFails
  <1>12. CASE Succeed(r) \/ Fail(r)
    BY <1>4, <1>12 DEF Succeed, Fail
  <1>13. CASE Store(r) \/ StoreFails(r) \/ Release(r) \/ Cancel(r)
    <2>1. pc'[r] \in {"releasing", "stopping"} /\ \A q \in Requests \ {r} : pc'[q] = pc[q]
      BY <1>4, <1>13 DEF Store, StoreFails, Release, Cancel
    <2>2. pc[r] \in Working /\ UNCHANGED <<now, seen, clock>>
      BY <1>13 DEF Store, StoreFails, Release, Cancel
    <2> QED BY <2>1, <2>2
  <1>14. CASE Stop(r)
    BY <1>4, <1>14 DEF Stop
  <1>15. CASE Crash(r)
    BY <1>1, <1>2, <1>5, <1>15 DEF Crash
  <1> QED BY <1>6, <1>7, <1>8, <1>9, <1>10, <1>11, <1>12, <1>13, <1>14, <1>15 DEF Request

\* The owner of a row left admission, and stopped working once its response is
\* stored; a request about to take a claim over saw it stale or unreadable,
\* and a stored response it saw is as it was, or unreadable by now.
StoreInv ==
  /\ \A r \in Requests : now[r] <= clock
  /\ row # NoRow => pc[row.owner] \notin Admission
  /\ row.state = "stored" => pc[row.owner] \notin Working
  /\ \A q \in Requests : pc[q] = "take" =>
       /\ seen[q] # NoRow
       /\ Stale(seen[q], now[q]) \/ (seen[q].state = "stored" /\ ~seen[q].readable)
       /\ seen[q].state = "stored" =>
            /\ pc[seen[q].owner] \notin Admission \cup Working
            /\ row.state = "stored" /\ row.owner = seen[q].owner =>
                 row.keep = seen[q].keep /\ (row.readable => seen[q].readable)

\* No step replaces or deletes a stored response within its retention.
LEMMA StoredStep ==
  ASSUME TypeOK, StoreInv, [Next]_vars,
         row.state = "stored", row.readable, clock < row.keep
  PROVE  row' \in {row, [row EXCEPT !.readable = FALSE]}
  <1> USE DEF claimVars, beatVars, history, world
  <1>1. row # NoRow /\ row \in Rows /\ row.keep \in Nat /\ clock \in Nat
    BY NoRowState DEF TypeOK, Rows
  <1>2. ASSUME NEW r \in Requests, Request(r)
        PROVE  row' = row
    <2>1. ~Holds(r)
      BY DEF Holds
    <2>2. CASE pc[r] = "take" /\ Unchanged(r)
      <3>1. seen[r].state = "stored" /\ row.owner = seen[r].owner
        BY <2>2 DEF Unchanged
      <3>2. row.keep = seen[r].keep /\ seen[r].readable
        BY <2>2, <3>1 DEF StoreInv
      <3>3. Stale(seen[r], now[r])
        BY <2>2, <3>2 DEF StoreInv
      <3>4. row.keep <= now[r] /\ now[r] <= clock /\ now[r] \in Nat
        BY <3>1, <3>2, <3>3 DEF Stale, StoreInv, TypeOK
      <3> QED BY <1>1, <3>4
    <2> QED BY <1>1, <1>2, <2>1, <2>2, RowMoves
  <1>3. CASE Sweep
    <2>1. PICK t \in Recent : Expired(t)
      BY <1>3 DEF Sweep
    <2>2. t \in Nat /\ t <= clock /\ row.keep <= t
      BY <1>1, <2>1, RecentType DEF Expired
    <2> QED BY <1>1, <2>2
  <1>4. CASE RotateSecret
    BY <1>4 DEF RotateSecret
  <1>5. CASE GoDown \/ ComeUp \/ Tick \/ UNCHANGED vars
    BY <1>5 DEF GoDown, ComeUp, Tick, vars
  <1> QED BY <1>2, <1>3, <1>4, <1>5 DEF Next

\* A step of one request keeps StoreInv.
LEMMA StoreStep ==
  ASSUME TypeOK, StoreInv, NEW r \in Requests, Request(r)
  PROVE  StoreInv'
  <1>1. /\ \A q \in Requests \ {r} : pc'[q] = pc[q] /\ now'[q] = now[q] /\ seen'[q] = seen[q]
        /\ pc'[r] \in Admission => pc[r] \in Admission
        /\ pc'[r] \in Working => pc[r] \in Admission \cup Working
        /\ now'[r] <= clock /\ clock' = clock
        /\ pc'[r] = "take" =>
             \/ pc[r] = "take" /\ seen'[r] = seen[r] /\ now'[r] = now[r]
             \/ /\ pc[r] = "find" /\ row # NoRow /\ Answer(r) = "take"
                /\ row' = row /\ seen'[r] = row /\ now'[r] = now[r]
    BY LocalMoves DEF StoreInv
  <1>2. \A q \in Requests : now'[q] <= clock'
    BY <1>1 DEF StoreInv
  <1>3. row # NoRow => row.owner \in Requests /\ row \in Rows
    BY DEF TypeOK, Rows
  <1>4. \A q \in Requests : seen[q] # NoRow => seen[q].owner \in Requests
    BY DEF TypeOK, Rows
  <1>5. \A q \in Requests : pc'[q] \in Admission \cup Working => pc[q] \in Admission \cup Working
    BY <1>1
  <1>6. Admission \cap Working = {} /\ "find" \in Admission
    BY DEF Admission, Working
  \* what the row is afterwards
  <1>7. /\ row' # NoRow => pc'[row'.owner] \notin Admission
        /\ row'.state = "stored" => pc'[row'.owner] \notin Working
        /\ \A q \in Requests :
             pc[q] = "take" /\ seen[q].state = "stored" /\ row'.state = "stored"
               /\ row'.owner = seen[q].owner =>
             row'.keep = seen[q].keep /\ (row'.readable => seen[q].readable)
    <2>1. CASE row' = row
      <3>1. row # NoRow => pc'[row.owner] \notin Admission
        BY <1>1, <1>3 DEF StoreInv
      <3>2. row.state = "stored" => pc'[row.owner] \notin Working
        BY <1>3, <1>5, NoRowState DEF StoreInv
      <3> QED BY <2>1, <3>1, <3>2 DEF StoreInv
    <2>2. CASE pc[r] \in Admission /\ pc'[r] \in {"running", "failed"} /\ \E t \in Nat : row' = ClaimOf(r, t)
      <3>1. row'.state = "running" /\ row'.owner = r
        BY <2>2, ClaimType
      <3> QED BY <2>2, <3>1 DEF Admission
    <2>3. CASE row' = NoRow
      BY <2>3, NoRowState
    <2>4. CASE Holds(r) /\ UNCHANGED <<pc, seen, now>> /\ \E t \in Nat : row' = Renewed(t)
      <3>1. row # NoRow
        BY <2>4, HoldsRow
      <3>2. row'.state = "running" /\ row'.owner = row.owner
        BY <2>4, <3>1, RowTypes DEF Holds
      <3> QED BY <2>4, <3>1, <3>2 DEF StoreInv
    <2>5. CASE Holds(r) /\ pc[r] = "storing" /\ pc'[r] = "stopping" /\ \E t \in Nat : row' = Stored(t)
      <3>1. row'.state = "stored" /\ row'.owner = r
        BY <2>5, HoldsRow, RowTypes DEF Holds
      <3>2. \A q \in Requests : pc[q] = "take" /\ seen[q].state = "stored" => seen[q].owner # r
        BY <2>5 DEF StoreInv, Working
      <3> QED BY <2>5, <3>1, <3>2 DEF Admission, Working
    <2> QED BY <2>1, <2>2, <2>3, <2>4, <2>5, RowMoves
  <1>8. ASSUME NEW q \in Requests, pc'[q] = "take"
        PROVE  /\ seen'[q] # NoRow
               /\ Stale(seen'[q], now'[q]) \/ (seen'[q].state = "stored" /\ ~seen'[q].readable)
               /\ seen'[q].state = "stored" =>
                    /\ pc'[seen'[q].owner] \notin Admission \cup Working
                    /\ row'.state = "stored" /\ row'.owner = seen'[q].owner =>
                         row'.keep = seen'[q].keep /\ (row'.readable => seen'[q].readable)
    <2>1. CASE pc[q] = "take" /\ seen'[q] = seen[q] /\ now'[q] = now[q]
      <3>1. seen[q] # NoRow /\ (Stale(seen[q], now[q]) \/ (seen[q].state = "stored" /\ ~seen[q].readable))
        BY <2>1 DEF StoreInv
      <3>2. seen[q].state = "stored" => pc[seen[q].owner] \notin Admission \cup Working
        BY <2>1 DEF StoreInv
      <3>3. seen[q].state = "stored" => pc'[seen[q].owner] \notin Admission \cup Working
        BY <1>4, <1>5, <3>1, <3>2
      <3> QED BY <1>7, <2>1, <3>1, <3>3
    <2>2. CASE /\ q = r /\ pc[r] = "find" /\ row # NoRow /\ Answer(r) = "take"
               /\ row' = row /\ seen'[r] = row /\ now'[r] = now[r]
      <3>1. Stale(row, now[r]) \/ (row.state = "stored" /\ ~row.readable)
        BY <2>2 DEF Answer
      <3>2. row.state = "stored" => pc'[row.owner] \notin Admission \cup Working
        BY <1>3, <1>5, <2>2 DEF StoreInv
      <3> QED BY <2>2, <3>1, <3>2
    <2> QED BY <1>1, <1>8, <2>1, <2>2
  <1> QED BY <1>2, <1>7, <1>8 DEF StoreInv, Stale

\* What readers and the row know of each other holds in every state.
LEMMA StoreAlways == Spec => []StoreInv
  <1> USE DEF claimVars, beatVars, history, world
  <1>1. Init => StoreInv
    BY NoRowState DEF Init, StoreInv
  <1>2. TypeOK /\ StoreInv /\ [Next]_vars => StoreInv'
    <2> SUFFICES ASSUME TypeOK, StoreInv, [Next]_vars PROVE StoreInv'
      OBVIOUS
    <2>1. CASE \E r \in Requests : Request(r)
      BY <2>1, StoreStep
    <2>2. CASE Sweep
      BY <2>2, NoRowState DEF Sweep, StoreInv, Stale
    <2>3. CASE RotateSecret
      <3>1. row \in Rows
        BY <2>3, NoRowState DEF TypeOK, RotateSecret
      <3>2. /\ row # NoRow /\ row'.state = row.state /\ row'.owner = row.owner
            /\ row'.keep = row.keep /\ ~row'.readable
        BY <2>3, <3>1, NoRowState DEF RotateSecret, Rows
      <3> QED BY <2>3, <3>2 DEF RotateSecret, StoreInv, Stale
    <2>4. CASE GoDown \/ ComeUp \/ UNCHANGED vars
      BY <2>4 DEF GoDown, ComeUp, vars, StoreInv, Stale
    <2>5. CASE Tick
      <3>1. clock' = clock + 1 /\ UNCHANGED <<row, pc, now, seen>>
        BY <2>5 DEF Tick
      <3>2. \A r \in Requests : now'[r] <= clock'
        BY <3>1 DEF StoreInv, TypeOK
      <3> QED BY <3>1, <3>2 DEF StoreInv, Stale
    <2> QED BY <2>1, <2>2, <2>3, <2>4, <2>5 DEF Next
  <1> QED BY <1>1, <1>2, TypeCorrect, PTL DEF Spec

\* A stored response that can be read stays until its retention ends, whatever
\* crashes, outages, late requests, retries and sweeps come.
THEOREM StoredCorrect == Spec => StoredKept
  <1>1. TypeOK /\ StoreInv /\ [Next]_vars =>
          [row.state = "stored" /\ row.readable /\ clock < row.keep =>
             row' \in {row, [row EXCEPT !.readable = FALSE]}]_vars
    BY StoredStep
  <1> QED BY <1>1, StoreAlways, TypeCorrect, PTL DEF Spec, StoredKept

\* A claim whose lease is good changes hands only by its owner giving it back
\* (Release) or storing its response (Store): a retry that read it earlier
\* (TakeOver), a late end of another request and the sweep leave it alone,
\* whatever crashes and outages there are.
THEOREM ClaimCorrect == Spec => ClaimFenced
  <1>1. ASSUME TypeOK, StoreInv, [Next]_vars, NEW r \in Requests, Holds(r), row.lock > clock, ~Holds(r)'
        PROVE  pc[r] \in Working /\ pc'[r] = "stopping"
    <2>1. /\ row # NoRow /\ row \in Rows /\ row.lock \in Nat /\ clock \in Nat
          /\ row.state = "running" /\ row.owner = r
      BY <1>1, HoldsRow DEF TypeOK, Rows, Holds
    <2>2. ASSUME NEW q \in Requests, Request(q)
          PROVE  pc[r] \in Working /\ pc'[r] = "stopping"
      <3>1. CASE pc[q] = "take" /\ Unchanged(q)
        <4>1. row.lock <= now[q] /\ now[q] <= clock /\ now[q] \in Nat
          BY <1>1, <2>1, <3>1 DEF Unchanged, StoreInv, TypeOK
        <4> QED BY <1>1, <2>1, <4>1
      <3>2. CASE row' = row
        BY <1>1, <3>2 DEF Holds
      <3>3. Holds(q) => q = r
        BY <2>1 DEF Holds
      <3>4. CASE Holds(q) /\ row' = NoRow /\ pc[q] = "releasing" /\ pc'[q] = "stopping"
        BY <3>3, <3>4 DEF Working
      <3>5. CASE Holds(q) /\ pc[q] = "storing" /\ pc'[q] = "stopping"
        BY <3>3, <3>5 DEF Working
      <3>6. CASE \E t \in Nat : row' = Renewed(t)
        BY <1>1, <2>1, <3>6, RowTypes DEF Holds
      <3> QED BY <1>1, <2>1, <2>2, <3>1, <3>2, <3>4, <3>5, <3>6, RowMoves
    <2>3. CASE Sweep
      <3>1. PICK t \in Recent : Expired(t)
        BY <2>3 DEF Sweep
      <3>2. t \in Nat /\ t <= clock /\ row.lock <= t
        BY <2>1, <3>1, RecentType DEF Expired
      <3> QED BY <1>1, <2>1, <3>2
    <2>4. CASE RotateSecret
      <3>1. row'.state = row.state /\ row'.owner = row.owner
        BY <2>1, <2>4 DEF RotateSecret, Rows
      <3> QED BY <1>1, <3>1 DEF Holds
    <2>5. CASE GoDown \/ ComeUp \/ Tick \/ UNCHANGED vars
      BY <1>1, <2>5 DEF GoDown, ComeUp, Tick, vars, Holds
    <2> QED BY <1>1, <2>2, <2>3, <2>4, <2>5 DEF Next
  <1>2. TypeOK /\ StoreInv /\ [Next]_vars =>
          [\A r \in Requests : Holds(r) /\ row.lock > clock /\ ~Holds(r)' =>
              pc[r] \in Working /\ pc'[r] = "stopping"]_vars
    BY <1>1
  <1> QED BY <1>2, StoreAlways, TypeCorrect, PTL DEF Spec, ClaimFenced

-----------------------------------------------------------------------------
(* What is billed, and what is replayed.                                   *)

\* What a step of r does to what is billed and replayed.
LEMMA BillMoves ==
  ASSUME TypeOK, NEW r \in Requests, Request(r)
  PROVE  /\ \A q \in Requests \ {r} : pc'[q] = pc[q] /\ got'[q] = got[q]
         /\ billed' = billed \/ (pc[r] = "running" /\ pc'[r] = "storing" /\ row' = row /\ billed' = billed \cup {r})
         /\ pc'[r] = "storing" => pc[r] = "storing" \/ r \in billed'
         /\ pc'[r] = "replayed" =>
              \/ pc[r] = "replayed" /\ got'[r] = got[r]
              \/ row.state = "stored" /\ Hash[row.owner] = Hash[r] /\ got'[r] = row.owner
  <1> USE DEF claimVars, beatVars, history, world
  <1>1. pc \in [Requests -> Places] /\ got \in [Requests -> Requests \cup {NoOne}]
    BY DEF TypeOK
  <1>2. ASSUME NEW where \in Places, EndAdmit(r, where)
        PROVE  pc'[r] = where /\ \A q \in Requests \ {r} : pc'[q] = pc[q]
    BY <1>2, AdmitType
  <1>3. ASSUME Retry(r)
        PROVE  pc'[r] \in {"admit", "inflight"} /\ \A q \in Requests \ {r} : pc'[q] = pc[q]
    BY <1>3, RetryType
  <1>4. ASSUME NEW where, Goto(r, where)
        PROVE  pc'[r] = where /\ \A q \in Requests \ {r} : pc'[q] = pc[q]
    BY <1>1, <1>4 DEF Goto
  <1>5. "running" \in Places /\ "failed" \in Places /\ "dead" \in Places
    BY DEF Places
  <1>6. ASSUME NEW t, StartRun(r, t)
        PROVE  pc'[r] = "running" /\ \A q \in Requests \ {r} : pc'[q] = pc[q]
    BY <1>2, <1>5, <1>6 DEF StartRun
  <1>7. CASE CheckCaller(r)
    BY <1>4, <1>7 DEF CheckCaller
  <1>8. CASE Insert(r)
    <2>1. pc'[r] \in {"running", "find"} /\ \A q \in Requests \ {r} : pc'[q] = pc[q]
      BY <1>4, <1>6, <1>8 DEF Insert
    <2> QED BY <1>8, <2>1 DEF Insert
  <1>9. CASE Find(r)
    <2>1. /\ billed' = billed /\ \A q \in Requests \ {r} : got'[q] = got[q]
          /\ pc'[r] = "replayed" => got'[r] = row.owner
      BY <1>1, <1>9 DEF Find
    <2>2. CASE Retry(r)
      BY <1>3, <2>1, <2>2
    <2>3. CASE Goto(r, "take")
      BY <1>4, <2>1, <2>3
    <2>4. CASE row # NoRow /\ Answer(r) # "take" /\ EndAdmit(r, Answer(r))
      <3>1. Answer(r) \in {"reused", "replayed", "inflight"} /\ Answer(r) \in Places
        BY <2>4 DEF Answer, Places
      <3>2. pc'[r] = Answer(r) /\ \A q \in Requests \ {r} : pc'[q] = pc[q]
        BY <1>2, <2>4, <3>1
      <3>3. Answer(r) = "replayed" => row.state = "stored" /\ Hash[row.owner] = Hash[r]
        BY DEF Answer
      <3> QED BY <2>1, <3>1, <3>2, <3>3
    <2> QED BY <1>9, <2>2, <2>3, <2>4 DEF Find
  <1>10. CASE TakeOver(r)
    <2>1. pc'[r] \in {"running", "admit", "inflight"} /\ \A q \in Requests \ {r} : pc'[q] = pc[q]
      BY <1>3, <1>6, <1>10 DEF TakeOver
    <2> QED BY <1>10, <2>1 DEF TakeOver
  <1>11. CASE AdmitFails(r)
    BY <1>2, <1>5, <1>11 DEF AdmitFails
  <1>12. CASE Renew(r) \/ RenewFails(r)
    <2>1. UNCHANGED <<pc, billed, got>>
      BY <1>12 DEF Renew, RenewFails
    <2> QED BY <2>1
  <1>13. CASE Succeed(r)
    BY <1>4, <1>13 DEF Succeed
  <1>14. CASE Fail(r)
    BY <1>4, <1>14 DEF Fail
  <1>15. CASE Store(r) \/ StoreFails(r) \/ Release(r) \/ Cancel(r)
    <2>1. pc'[r] \in {"releasing", "stopping"} /\ \A q \in Requests \ {r} : pc'[q] = pc[q]
      BY <1>4, <1>15 DEF Store, StoreFails, Release, Cancel
    <2>2. UNCHANGED <<billed, got>>
      BY <1>15 DEF Store, StoreFails, Release, Cancel
    <2> QED BY <2>1, <2>2
  <1>16. CASE Stop(r)
    BY <1>4, <1>16 DEF Stop
  <1>17. CASE Crash(r)
    BY <1>2, <1>5, <1>17 DEF Crash
  <1> QED BY <1>7, <1>8, <1>9, <1>10, <1>11, <1>12, <1>13, <1>14, <1>15, <1>16, <1>17 DEF Request

\* A response is stored by a request that was billed for it.
BillInv ==
  /\ \A r \in Requests : pc[r] = "storing" => r \in billed
  /\ row.state = "stored" => row.owner \in billed

\* A replay is the billed response to the same request as the one replayed to,
\* however the claim changed hands (Find, Answer, Store).
THEOREM ReplayCorrect == Spec => []ReplaySound
  <1> USE DEF claimVars, beatVars, history, world
  <1>1. Init => BillInv /\ ReplaySound
    BY NoRowState DEF Init, BillInv, ReplaySound
  <1>2. ASSUME TypeOK, BillInv, ReplaySound, [Next]_vars
        PROVE  BillInv' /\ ReplaySound'
    <2>1. ASSUME NEW r \in Requests, Request(r)
          PROVE  BillInv' /\ ReplaySound'
      <3>1. /\ \A q \in Requests \ {r} : pc'[q] = pc[q] /\ got'[q] = got[q]
            /\ billed \subseteq billed'
            /\ pc'[r] = "storing" => pc[r] = "storing" \/ r \in billed'
            /\ pc'[r] = "replayed" =>
                 \/ pc[r] = "replayed" /\ got'[r] = got[r]
                 \/ row.state = "stored" /\ Hash[row.owner] = Hash[r] /\ got'[r] = row.owner
        BY <1>2, <2>1, BillMoves
      <3>2. \A q \in Requests : pc'[q] = "storing" => q \in billed'
        BY <1>2, <3>1 DEF BillInv
      <3>3. ReplaySound'
        BY <1>2, <3>1 DEF BillInv, ReplaySound
      <3>4. row'.state = "stored" => row'.owner \in billed'
        <4>1. CASE row' = row
          BY <1>2, <3>1, <4>1 DEF BillInv
        <4>2. CASE \E t \in Nat : row' = ClaimOf(r, t)
          BY <4>2, ClaimType
        <4>3. CASE row' = NoRow
          BY <4>3, NoRowState
        <4>4. CASE Holds(r) /\ \E t \in Nat : row' = Renewed(t)
          BY <1>2, <4>4, HoldsRow, RowTypes DEF Holds
        <4>5. CASE Holds(r) /\ pc[r] = "storing" /\ \E t \in Nat : row' = Stored(t)
          <5>1. row'.owner = r
            BY <1>2, <4>5, HoldsRow, RowTypes DEF Holds
          <5> QED BY <1>2, <3>1, <4>5, <5>1 DEF BillInv
        <4> QED BY <1>2, <2>1, <4>1, <4>2, <4>3, <4>4, <4>5, RowMoves
      <3> QED BY <3>2, <3>3, <3>4 DEF BillInv
    <2>2. CASE Sweep
      BY <1>2, <2>2, NoRowState DEF Sweep, BillInv, ReplaySound
    <2>3. CASE RotateSecret
      <3>1. row \in Rows
        BY <1>2, <2>3, NoRowState DEF TypeOK, RotateSecret
      <3>2. row'.state = row.state /\ row'.owner = row.owner
        BY <2>3, <3>1 DEF RotateSecret, Rows
      <3> QED BY <1>2, <2>3, <3>2 DEF RotateSecret, BillInv, ReplaySound
    <2>4. CASE GoDown \/ ComeUp \/ Tick \/ UNCHANGED vars
      <3>1. UNCHANGED <<row, pc, billed, got>>
        BY <2>4 DEF GoDown, ComeUp, Tick, vars
      <3> QED BY <1>2, <3>1 DEF BillInv, ReplaySound
    <2> QED BY <1>2, <2>1, <2>2, <2>3, <2>4 DEF Next
  <1> QED BY <1>1, <1>2, TypeCorrect, PTL DEF Spec

\* When every response can be stored and read and its retention outlasts the
\* clock, the key is with the one request that was billed, lives and was not
\* cancelled.
Once == Unstorable = {} /\ "rotate" \notin Faults /\ MaxClock < Retention

OnceInv ==
  /\ clock <= MaxClock
  /\ row.state = "stored" => row.readable /\ row.keep >= Retention
  /\ \A q \in billed \ cancelled :
                       /\ pc[q] \in {"storing", "stopping", "done", "dead"}
                       /\ pc[q] # "dead" => row.owner = q
                       /\ pc[q] \in {"stopping", "done"} => row.state = "stored"

\* Where a billed request goes.
LEMMA BilledMoves ==
  ASSUME TypeOK, NEW r \in Requests, Request(r), Unstorable = {}, r \notin cancelled',
         pc[r] \in {"storing", "stopping", "done", "dead"}
  PROVE  \/ pc'[r] = pc[r]
         \/ pc'[r] = "dead"
         \/ pc[r] = "storing" /\ pc'[r] = "stopping" /\ (~down /\ Holds(r) => \E t \in Nat : row' = Stored(t))
         \/ pc[r] = "stopping" /\ pc'[r] = "done" /\ row' = row
  <1> USE DEF claimVars, beatVars, history, world
  <1>1. pc \in [Requests -> Places] /\ "dead" \in Places /\ clock \in Nat
    BY DEF TypeOK, Places
  <1>2. ASSUME NEW where, Goto(r, where) PROVE pc'[r] = where
    BY <1>1, <1>2 DEF Goto
  <1>3. CASE CheckCaller(r) \/ Insert(r) \/ Find(r) \/ TakeOver(r) \/ AdmitFails(r) \/ Succeed(r) \/ Fail(r) \/ Release(r)
    BY <1>3 DEF CheckCaller, Insert, Find, TakeOver, AdmitFails, Succeed, Fail, Release
  <1>4. CASE Renew(r) \/ RenewFails(r)
    BY <1>4 DEF Renew, RenewFails
  <1>5. CASE Store(r)
    <2>1. \A t \in Recent : t \in Nat
      BY <1>1, RecentType
    <2> QED BY <1>2, <1>5, <2>1 DEF Store, Storable
  <1>6. CASE StoreFails(r)
    BY <1>2, <1>6 DEF StoreFails
  <1>7. CASE Stop(r)
    BY <1>2, <1>7 DEF Stop
  <1>8. CASE Crash(r)
    BY <1>1, <1>8 DEF Crash, EndAdmit, Goto
  <1>9. ~ Cancel(r)
    BY DEF Cancel
  <1> QED BY <1>3, <1>4, <1>5, <1>6, <1>7, <1>8, <1>9 DEF Request

\* A cancelled request stays so.
LEMMA CancelledStay ==
  ASSUME NEW r \in Requests, Request(r)
  PROVE  cancelled \subseteq cancelled'
  BY DEF Request, CheckCaller, Insert, Find, TakeOver, AdmitFails, Renew, RenewFails, Succeed,
     Fail, Store, StoreFails, Release, Stop, Cancel, Crash, history

\* A request's step leaves the key with the one that was billed and lives.
LEMMA OnceStep ==
  ASSUME TypeOK, StoreInv, KeepInv, Once, OnceInv, ~down, NEW r \in Requests, Request(r)
  PROVE  OnceInv'
  <1>0. clock \in Nat /\ clock' = clock /\ MaxClock \in Nat
    BY RequestWorld, TimesAssumption DEF TypeOK
  <1>1. row'.state = "stored" => row'.readable /\ row'.keep >= Retention
    <2>1. CASE row' = row
      BY <2>1 DEF OnceInv
    <2>2. CASE \E t \in Nat : row' = ClaimOf(r, t)
      BY <2>2, ClaimType
    <2>3. CASE row' = NoRow
      BY <2>3, NoRowState
    <2>4. CASE Holds(r) /\ \E t \in Nat : row' = Renewed(t)
      BY <2>4, HoldsRow, RowTypes DEF Holds
    <2>5. CASE Holds(r) /\ \E t \in Nat : row' = Stored(t)
      <3>1. row \in Rows
        BY <2>5, HoldsRow DEF TypeOK
      <3>2. PICK t \in Nat : row' = Stored(t)
        BY <2>5
      <3>3. row'.readable = TRUE /\ row'.keep = t + Retention
        BY <3>1, <3>2 DEF Stored, Rows
      <3> QED BY <3>2, <3>3, Times
    <2> QED BY <2>1, <2>2, <2>3, <2>4, <2>5, RowMoves
  <1>2. /\ \A q \in Requests \ {r} : pc'[q] = pc[q]
        /\ billed' = billed \/ (pc[r] = "running" /\ pc'[r] = "storing" /\ row' = row /\ billed' = billed \cup {r})
    BY BillMoves
  \* the key stays with a living request that was billed
  <1>3. ASSUME NEW q \in billed \ cancelled, pc[q] \in {"stopping", "done"}
        PROVE  row'.state = "stored" /\ row'.owner = q
    <2>1. row.state = "stored" /\ row.owner = q /\ row.readable /\ row.keep >= Retention
      BY <1>3 DEF OnceInv
    <2>2. row \in Rows /\ row.keep \in Nat
      BY <2>1, NoRowState DEF TypeOK, Rows
    <2>3. clock < row.keep
      BY <1>0, <2>1, <2>2, Times DEF Once, OnceInv
    <2>4. [Next]_vars
      BY DEF Next
    <2>5. row' \in {row, [row EXCEPT !.readable = FALSE]}
      BY <2>1, <2>3, <2>4, StoredStep
    <2> QED BY <2>1, <2>2, <2>5 DEF Rows
  <1>4. ASSUME NEW q \in billed, pc[q] = "storing"
        PROVE  row'.owner = q /\ Holds(q)
    <2>1. q \in Requests /\ pc[q] \in Working
      BY <1>4 DEF TypeOK, Working
    <2>2. Holds(q) /\ row.owner = q /\ row # NoRow
      BY <2>1, KeepGood, HoldsRow DEF Holds
    <2>3. ~(row = NoRow \/ (pc[r] = "take" /\ Unchanged(r)))
      BY <2>1, NobodyRuns
    <2>4. Holds(r) => r = q
      BY <2>2 DEF Holds
    <2>5. CASE row' = row
      BY <2>2, <2>5
    <2>6. CASE Holds(r) /\ row' = NoRow /\ pc[r] = "releasing"
      BY <1>4, <2>4, <2>6
    <2>7. CASE \E t \in Nat : row' = Renewed(t)
      BY <2>2, <2>7, RowTypes
    <2>8. CASE \E t \in Nat : row' = Stored(t)
      BY <2>2, <2>8, RowTypes
    <2> QED BY <2>2, <2>3, <2>5, <2>6, <2>7, <2>8, RowMoves
  <1>5. ASSUME NEW q \in billed \ cancelled, q \notin cancelled'
        PROVE  /\ pc'[q] \in {"storing", "stopping", "done", "dead"}
               /\ pc'[q] # "dead" => row'.owner = q
               /\ pc'[q] \in {"stopping", "done"} => row'.state = "stored"
    <2>1. pc[q] \in {"storing", "stopping", "done", "dead"}
      BY DEF OnceInv
    <2>2. CASE pc'[q] = pc[q]
      BY <1>3, <1>4, <2>1, <2>2
    <2>3. CASE pc'[q] = "dead"
      BY <2>3
    <2>4. CASE q = r /\ pc[r] = "storing" /\ pc'[r] = "stopping"
               /\ (~down /\ Holds(r) => \E t \in Nat : row' = Stored(t))
      <3>1. row'.owner = q /\ Holds(q) /\ row # NoRow
        BY <1>4, <2>4, HoldsRow
      <3>2. row'.state = "stored"
        BY <2>4, <3>1, RowTypes
      <3> QED BY <2>4, <3>1, <3>2
    <2>5. CASE q = r /\ pc[r] = "stopping" /\ pc'[r] = "done" /\ row' = row
      BY <1>3, <2>5
    <2>6. q = r \/ pc'[q] = pc[q]
      BY <1>2 DEF TypeOK
    <2>7. CASE q = r
      <3>1. Unstorable = {} /\ r \notin cancelled' /\ pc[r] \in {"storing", "stopping", "done", "dead"}
        BY <1>5, <2>1, <2>7 DEF Once
      <3>2. \/ pc'[r] = pc[r]
            \/ pc'[r] = "dead"
            \/ pc[r] = "storing" /\ pc'[r] = "stopping" /\ (~down /\ Holds(r) => \E t \in Nat : row' = Stored(t))
            \/ pc[r] = "stopping" /\ pc'[r] = "done" /\ row' = row
        BY <3>1, BilledMoves
      <3> QED BY <2>2, <2>3, <2>4, <2>5, <2>7, <3>2
    <2> QED BY <2>2, <2>6, <2>7
  <1>6. ASSUME pc[r] = "running", pc'[r] = "storing", row' = row
        PROVE  row'.owner = r
    BY <1>6, KeepGood DEF Holds, Working
  <1>7. cancelled \subseteq cancelled'
    BY CancelledStay
  <1>8. ASSUME NEW q \in billed' \ cancelled'
        PROVE  /\ pc'[q] \in {"storing", "stopping", "done", "dead"}
               /\ pc'[q] # "dead" => row'.owner = q
               /\ pc'[q] \in {"stopping", "done"} => row'.state = "stored"
    <2>1. CASE q \in billed
      BY <1>5, <1>7, <2>1
    <2>2. CASE q \notin billed
      BY <1>2, <1>6, <2>2
    <2> QED BY <2>1, <2>2
  <1>9. clock' <= MaxClock
    BY <1>0 DEF OnceInv
  <1> QED BY <1>1, <1>8, <1>9 DEF OnceInv

\* While a billed response is stored or about to be, nobody runs with its key.
LEMMA OnceAlone ==
  ASSUME TypeOK, KeepInv, OnceInv, ~down, NEW q \in billed \ cancelled, pc[q] # "dead",
         NEW r \in Requests \ {q}
  PROVE  pc[r] \notin Working /\ (r \in billed => pc[r] = "dead" \/ r \in cancelled)
  <1>1. q \in Requests /\ row.owner = q /\ pc[q] \in {"storing", "stopping", "done"}
        /\ (pc[q] \in {"stopping", "done"} => row.state = "stored")
    BY DEF TypeOK, OnceInv
  <1>2. pc[r] \notin Working
    BY <1>1, KeepGood DEF Holds
  <1>3. r \in billed \ cancelled /\ pc[r] # "dead" => row.owner = r
    BY DEF OnceInv
  <1> QED BY <1>1, <1>2, <1>3

\* Until the database fails, and while responses can be stored and read and
\* their retention lasts, a billed response ends the running with its key, unless
\* the worker died or the task was cancelled (Store, TakeOver, the heartbeat).
THEOREM BilledCorrect == Spec => []BilledOnce
  <1> USE DEF claimVars, beatVars, history, world
  <1> DEFINE O == Once /\ outages = 0 => OnceInv
  <1>1. Init => O
    BY NoRowState, TimesAssumption DEF Init, OnceInv
  <1>2. ASSUME TypeOK, StoreInv, CalmInv, O, [Next]_vars
        PROVE  O'
    <2> SUFFICES ASSUME Once, outages' = 0 PROVE OnceInv'
      BY DEF Once
    <2>1. outages \in Nat /\ clock \in Nat
      BY <1>2 DEF TypeOK
    <2>2. outages = 0 /\ ~GoDown
      BY <1>2, <2>1, RequestWorld DEF Next, Sweep, RotateSecret, GoDown, ComeUp, Tick, vars
    <2>3. OnceInv /\ KeepInv /\ ~down
      BY <1>2, <2>2 DEF CalmInv, Calm
    <2>4. CASE \E r \in Requests : Request(r)
      BY <1>2, <2>3, <2>4, OnceStep
    <2>5. CASE Sweep
      <3>1. PICK t \in Recent : Expired(t)
        BY <2>5 DEF Sweep
      <3>2. t \in Nat /\ t <= clock /\ row \in Rows /\ row.keep <= t /\ (row.state = "running" => row.lock <= t)
            /\ row.keep \in Nat /\ row.lock \in Nat
        BY <1>2, <2>1, <3>1, RecentType DEF Expired, TypeOK, Rows
      <3>3. ASSUME NEW q \in billed \ cancelled, pc[q] # "dead" PROVE FALSE
        <4>1. CASE pc[q] = "storing"
          <5>1. row.state = "running" /\ row.lock > clock
            BY <1>2, <2>3, <4>1, KeepGood DEF TypeOK, Working, Holds
          <5> QED BY <2>1, <3>2, <5>1
        <4>2. CASE pc[q] \in {"stopping", "done"}
          <5>1. row.keep >= Retention /\ clock <= MaxClock /\ MaxClock < Retention /\ MaxClock \in Nat
            BY <2>3, <4>2, TimesAssumption DEF OnceInv, Once
          <5> QED BY <2>1, <3>2, <5>1, Times
        <4> QED BY <2>3, <3>3, <4>1, <4>2 DEF OnceInv
      <3>4. row' = NoRow /\ UNCHANGED <<clock, pc, billed, cancelled>>
        BY <2>5 DEF Sweep
      <3> QED BY <2>3, <3>3, <3>4, NoRowState DEF OnceInv
    <2>6. CASE RotateSecret
      BY <2>6 DEF RotateSecret, Once
    <2>7. CASE Tick
      <3>1. clock < MaxClock /\ clock' = clock + 1 /\ UNCHANGED <<row, pc, billed, cancelled>>
        BY <2>7 DEF Tick
      <3>2. clock' <= MaxClock
        BY <2>1, <3>1, TimesAssumption
      <3> QED BY <2>3, <3>1, <3>2 DEF OnceInv
    <2>8. CASE ComeUp \/ UNCHANGED vars
      <3>1. UNCHANGED <<row, clock, pc, billed, cancelled>>
        BY <2>8 DEF ComeUp, vars
      <3> QED BY <2>3, <3>1 DEF OnceInv
    <2> QED BY <1>2, <2>2, <2>4, <2>5, <2>6, <2>7, <2>8 DEF Next
  <1>3. TypeOK /\ CalmInv /\ O => BilledOnce
    <2> SUFFICES ASSUME TypeOK, CalmInv, O, Once, outages = 0, NEW q \in billed,
                        pc[q] # "dead", q \notin cancelled, NEW r \in Requests \ {q}
                 PROVE  pc[r] \notin Working /\ (r \in billed => pc[r] = "dead" \/ r \in cancelled)
      BY DEF Once, BilledOnce
    <2>1. OnceInv /\ KeepInv /\ ~down
      BY DEF CalmInv, Calm
    <2> QED BY <2>1, OnceAlone
  <1> HIDE DEF O
  <1> QED BY <1>1, <1>2, <1>3, StoreAlways, CalmAlways, TypeCorrect, PTL DEF Spec
=============================================================================
