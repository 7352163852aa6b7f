----------------------------- MODULE JobsProofs -----------------------------
(***************************************************************************)
(* A job is billed once, for any number of jobs, of readers, of failures and *)
(* of changes of the price list.                                            *)
(*                                                                         *)
(* The argument: between its claim and its commit a handler holds the row    *)
(* lock (LockInv), so the job is still unaccounted when it folds, and what it *)
(* owes is what the job costs (HandlerInv), whatever it read before. Every    *)
(* other step of a handler leaves the bill alone (Aside).                    *)
(***************************************************************************)
EXTENDS Jobs, TLAPS

\* The steps of c under the claim of its job's record.
Holds(c) == At(c, "fold") \/ (At(c, "log") /\ ~ Unrecorded(c))

\* The row lock is held by exactly the handler that is past the claim.
LockInv ==
  /\ \A c \in Handlers : Holds(c) => lock[On(c)] = c
  /\ \A j \in Jobs : lock[j] # Nobody => Holds(lock[j]) /\ On(lock[j]) = j

\* What c knows of its job is still true when c uses it.
HandlerAt(c) ==
  On(c) \in Jobs =>
    /\ h[c].owes => kind[On(c)].metered
    /\ At(c, "claim") => ~ Unrecorded(c)
    /\ At(c, "log") => Batch(On(c))
    /\ At(c, "claim") \/ Holds(c) =>
         (kind[On(c)].metered /\ ~ kind[On(c)].exempt => h[c].owes)
    /\ Holds(c) => ~ rec[On(c)].accounted
    /\ At(c, "fold") /\ Batch(On(c)) => rows[On(c)] > 0 \/ On(c) \in dropped
    /\ h[c].seen.accounted => rec[On(c)].accounted
HandlerInv == \A c \in Handlers : HandlerAt(c)

\* The rows of j. A batch has one more per failure, and one while it is folded.
Folding(j) == lock[j] # Nobody /\ At(lock[j], "fold")
RowsAt(j) ==
  IF Batch(j)
  THEN /\ rec[j].accounted => rows[j] > 0 \/ j \in dropped
       /\ rows[j] <= faults + One(rec[j].accounted) + One(Folding(j))
  ELSE rows[j] = One(rec[j].accounted)

\* The bill of j.
BillAt(j) ==
  /\ spend[j] = One(rec[j].accounted /\ kind[j].metered /\ ~ kind[j].exempt)
  /\ funds[j] <= One(rec[j].accounted /\ kind[j].paid)
  /\ spend[j] = 1 /\ kind[j].paid /\ j \notin waived => funds[j] = 1
BillInv == \A j \in Jobs : RowsAt(j) /\ BillAt(j)

Inv == TypeOK /\ LockInv /\ HandlerInv /\ BillInv /\ ServedBilled

-----------------------------------------------------------------------------
(* Moves of a handler.                                                     *)

\* Only c's entry of h changes.
Alone(c) == h' \in [Handlers -> Handling] /\ \A d \in Handlers \ {c} : h'[d] = h[d]

\* Going on changes only the place of the handler.
LEMMA GotoMove ==
  ASSUME TypeOK, NEW c \in Handlers, NEW where \in Places, Goto(c, where)
  PROVE  /\ Alone(c)
         /\ h'[c].at = where /\ h'[c].job = h[c].job
         /\ h'[c].seen = h[c].seen /\ h'[c].owes = h[c].owes
  <1>1. h \in [Handlers -> Handling] /\ h[c] \in Handling
    BY DEF TypeOK
  <1>2. [h[c] EXCEPT !.at = where] \in Handling
    BY <1>1 DEF Handling
  <1>3. h' = [h EXCEPT ![c] = [h[c] EXCEPT !.at = where]]
    BY DEF Goto
  <1>4. h'[c] = [h[c] EXCEPT !.at = where]
    BY <1>1, <1>3
  <1>5. Alone(c)
    BY <1>1, <1>2, <1>3 DEF Alone
  <1> QED BY <1>1, <1>4, <1>5 DEF Handling

\* A handler that answers has forgotten its job.
LEMMA AnswerMove ==
  ASSUME TypeOK, NEW c \in Handlers, Answer(c)
  PROVE  Alone(c) /\ h'[c] = Idle /\ h'[c].at = "idle" /\ h'[c].job \notin Jobs
  <1>1. h \in [Handlers -> Handling]
    BY DEF TypeOK
  <1>2. Idle \in Handling
    BY DEF Idle, Handling, Places, Blank, Record
  <1> QED BY <1>1, <1>2, JobAssumption DEF Alone, Answer, Idle

\* A handler that starts knows the job and the record it read.
LEMMA StartMove ==
  ASSUME TypeOK, NEW c \in Handlers, NEW j \in Jobs, NEW where \in Places,
         NEW record \in Record, Start(c, j, where, record)
  PROVE  /\ Alone(c)
         /\ h'[c].at = where /\ h'[c].job = j
         /\ h'[c].seen = record /\ h'[c].owes = FALSE
  <1> DEFINE new == [at |-> where, job |-> j, seen |-> record, owes |-> FALSE]
  <1>1. h \in [Handlers -> Handling]
    BY DEF TypeOK
  <1>2. new \in Handling
    BY DEF Handling
  <1> QED BY <1>1, <1>2 DEF Alone, Start

\* Marking the record of one job.
LEMMA RecordMark ==
  ASSUME TypeOK, NEW j \in Jobs,
         \/ rec' = rec
         \/ rec' = [rec EXCEPT ![j].kept = TRUE]
         \/ rec' = [rec EXCEPT ![j].done = TRUE]
  PROVE  rec' \in [Jobs -> Record] /\ \A i \in Jobs : rec'[i].accounted = rec[i].accounted
  <1>1. rec \in [Jobs -> Record]
    BY DEF TypeOK
  <1>2. CASE rec' = rec
    BY <1>1, <1>2
  <1>3. CASE rec' = [rec EXCEPT ![j].kept = TRUE]
    BY <1>1, <1>3 DEF Record
  <1>4. CASE rec' = [rec EXCEPT ![j].done = TRUE]
    BY <1>1, <1>4 DEF Record
  <1> QED BY <1>2, <1>3, <1>4

\* Marking a job as accounted leaves the other records alone.
LEMMA AccountMark ==
  ASSUME TypeOK, NEW j \in Jobs, rec' = [rec EXCEPT ![j].accounted = TRUE]
  PROVE  /\ rec' \in [Jobs -> Record] /\ rec'[j].accounted
         /\ \A i \in Jobs \ {j} : rec'[i] = rec[i]
  <1>1. rec \in [Jobs -> Record]
    BY DEF TypeOK
  <1> QED BY <1>1 DEF Record

\* A failure is counted, or none.
LEMMA FaultMark ==
  ASSUME TypeOK, Fault \/ faults' = faults
  PROVE  faults \in Nat /\ faults' \in Nat /\ faults' >= faults /\ faults' \in 0..MaxFaults
  BY JobAssumption DEF TypeOK, Fault

\* Where a handler is, it works on a job.
LEMMA OnJob ==
  ASSUME TypeOK, NEW c \in Handlers, ~ At(c, "idle")
  PROVE  On(c) \in Jobs /\ h[c] \in Handling /\ rec[On(c)] \in Record
  BY DEF TypeOK, At, On

-----------------------------------------------------------------------------

(* Steps that touch no bill.                                               *)

\* c goes on, not under a claim before or after; the bill of no job changes.
Aside(c) ==
  /\ ~ Holds(c) /\ ~ Holds(c)' /\ HandlerAt(c)'
  /\ Alone(c)
  /\ \A j \in Jobs : rec'[j].accounted = rec[j].accounted
  /\ UNCHANGED <<kind, lock, rows, dropped, spend, funds, waived>>
  /\ faults' \in Nat /\ faults' >= faults
  /\ served' \subseteq served \cup {j \in Jobs : rec[j].accounted}

\* The variables Aside leaves to the type invariant.
Typed ==
  /\ upstream' \in [Jobs -> {"none", "running", "done", "failed"}]
  /\ rec' \in [Jobs -> Record] /\ priced' \in [Jobs -> BOOLEAN]
  /\ faults' \in 0..MaxFaults /\ reprices' \in 0..MaxReprices

\* A step aside keeps the invariant.
LEMMA AsideKeeps ==
  ASSUME Inv, NEW c \in Handlers, Aside(c), Typed,
         h'[c].at = "idle" \/ h'[c].job \in Jobs
  PROVE  Inv'
  <1> USE DEF Inv
  <1>1. TypeOK'
    <2>1. served' \subseteq Jobs
      BY DEF Aside, TypeOK
    <2>2. \A d \in Handlers : At(d, "idle")' \/ On(d)' \in Jobs
      BY DEF Aside, TypeOK, Alone, At, On
    <2> QED BY <2>1, <2>2 DEF Aside, TypeOK, Typed, Alone
  <1>2. \A d \in Handlers \ {c} :
          /\ (Holds(d)' <=> Holds(d)) /\ h'[d] = h[d]
          /\ (HandlerAt(d)' <=> HandlerAt(d))
    BY DEF Aside, Alone, Holds, HandlerAt, At, On, Unrecorded, Batch
  <1>3. LockInv'
    <2>1. \A j \in Jobs : lock[j] # Nobody => lock[j] \in Handlers \ {c}
      BY DEF LockInv, TypeOK, Aside
    <2> QED BY <1>2, <2>1 DEF LockInv, Aside, Alone, On
  <1>4. HandlerInv'
    BY <1>2 DEF HandlerInv, Aside
  <1>5. BillInv'
    <2> SUFFICES ASSUME NEW j \in Jobs PROVE RowsAt(j)' /\ BillAt(j)'
      BY DEF BillInv
    <2>1. RowsAt(j) /\ BillAt(j)
      BY DEF BillInv
    <2>2. Folding(j)' <=> Folding(j)
      BY <1>2 DEF Folding, LockInv, TypeOK, Aside, At
    <2>3. rows[j] \in Nat /\ faults \in Nat
      BY DEF TypeOK
    <2>4. BillAt(j)'
      BY <2>1 DEF BillAt, Aside
    <2>5. RowsAt(j)'
      BY <2>1, <2>2, <2>3 DEF RowsAt, Aside, Batch, One
    <2> QED BY <2>4, <2>5
  <1>6. ServedBilled'
    BY DEF ServedBilled, Aside, TypeOK
  <1> QED BY <1>1, <1>3, <1>4, <1>5, <1>6

\* A handler that answers, or starts on a job, knows nothing that could be wrong.
LEMMA AnswerAside ==
  ASSUME Inv, NEW c \in Handlers, Answer(c)
  PROVE  Alone(c) /\ ~ Holds(c)' /\ HandlerAt(c)' /\ h'[c].at = "idle"
  BY AnswerMove DEF Inv, Holds, HandlerAt, At, On

\* A handler that starts holds no lock and owes nothing.
LEMMA StartAside ==
  ASSUME Inv, NEW c \in Handlers, NEW j \in Jobs,
         NEW where \in {"keep", "keep done", "ask", "remember"}, NEW record \in Record,
         Start(c, j, where, record), record.accounted => rec'[j].accounted
  PROVE  Alone(c) /\ ~ Holds(c)' /\ HandlerAt(c)' /\ h'[c].job = j
  <1>1. /\ Alone(c) /\ h'[c].at = where /\ h'[c].job = j
        /\ h'[c].seen = record /\ h'[c].owes = FALSE
    <2>1. TypeOK /\ where \in Places
      BY DEF Inv, Places
    <2> QED BY <2>1, StartMove
  <1>2. ~ Holds(c)' /\ ~ At(c, "claim")' /\ ~ At(c, "log")' /\ ~ At(c, "fold")'
    BY <1>1 DEF Holds, At
  <1> QED BY <1>1, <1>2 DEF HandlerAt, On

\* Nor one that goes on before the claim.
LEMMA GotoAside ==
  ASSUME Inv, NEW c \in Handlers, ~ At(c, "idle"),
         NEW where \in {"keep again", "keep done again", "find", "remember", "price"},
         Goto(c, where), kind' = kind,
         \A j \in Jobs : rec'[j].accounted = rec[j].accounted
  PROVE  Alone(c) /\ ~ Holds(c)' /\ HandlerAt(c)' /\ h'[c].job \in Jobs
  <1>1. /\ Alone(c) /\ h'[c].at = where /\ h'[c].job = h[c].job
        /\ h'[c].seen = h[c].seen /\ h'[c].owes = h[c].owes
    BY GotoMove DEF Inv, Places
  <1>2. On(c) \in Jobs /\ HandlerAt(c)
    BY OnJob DEF Inv, HandlerInv
  <1> QED BY <1>1, <1>2 DEF Holds, HandlerAt, At, On

\* The steps of a handler without the lock.
LEMMA CreateKeeps ==
  ASSUME Inv, NEW c \in Handlers, NEW j \in Jobs, Create(c, j)
  PROVE  Inv'
  <1>1. TypeOK /\ Blank \in Record /\ ~ Blank.accounted
    BY DEF Inv, Blank, Record
  <1>2. \E where \in {"keep", "keep done"} : Start(c, j, where, Blank)
    BY DEF Create
  <1>3. Alone(c) /\ ~ Holds(c)' /\ HandlerAt(c)' /\ h'[c].job = j
    BY <1>1, <1>2, StartAside
  <1>4. Aside(c)
    <2>1. ~ Holds(c) /\ UNCHANGED <<kind, store, served, faults>>
      BY DEF Create, At, Holds
    <2>2. UNCHANGED <<kind, rec, lock, rows, dropped, spend, funds, waived>>
      BY <2>1 DEF store
    <2>3. faults \in Nat /\ faults' = faults
      BY <1>1, <2>1 DEF TypeOK
    <2> QED BY <1>3, <2>1, <2>2, <2>3 DEF Aside
  <1>5. Typed
    BY <1>1 DEF Create, Typed, store, TypeOK
  <1> QED BY <1>3, <1>4, <1>5, AsideKeeps

\* Beginning to read a job keeps the invariant.
LEMMA RetrieveKeeps ==
  ASSUME Inv, NEW c \in Handlers, NEW j \in Jobs, Retrieve(c, j)
  PROVE  Inv'
  <1>1. TypeOK /\ rec[j] \in Record /\ rec' = rec
    BY DEF Inv, TypeOK, Retrieve, store
  <1>2. Start(c, j, "ask", rec[j])
    BY DEF Retrieve
  <1>3. Alone(c) /\ ~ Holds(c)' /\ HandlerAt(c)' /\ h'[c].job = j
    BY <1>1, <1>2, StartAside
  <1>4. Aside(c)
    BY <1>1, <1>3 DEF Retrieve, Aside, Holds, At, store, TypeOK
  <1>5. Typed
    BY <1>1 DEF Retrieve, Typed, store, TypeOK
  <1> QED BY <1>3, <1>4, <1>5, AsideKeeps

\* So does reading the new record back, to bill it at once.
LEMMA FindKeeps ==
  ASSUME Inv, NEW c \in Handlers, Find(c)
  PROVE  Inv'
  <1>1. TypeOK /\ On(c) \in Jobs /\ rec[On(c)] \in Record /\ rec' = rec
    BY OnJob DEF Inv, Find, store, At
  <1>2. Start(c, On(c), "remember", rec[On(c)])
    BY DEF Find
  <1>3. Alone(c) /\ ~ Holds(c)' /\ HandlerAt(c)' /\ h'[c].job \in Jobs
    BY <1>1, <1>2, StartAside
  <1>4. Aside(c)
    BY <1>1, <1>3 DEF Find, Aside, Holds, At, store, TypeOK
  <1>5. Typed
    BY <1>1 DEF Find, Typed, store, TypeOK
  <1> QED BY <1>3, <1>4, <1>5, AsideKeeps

\* So does recording a new job, once, twice or not at all.
LEMMA KeepKeeps ==
  ASSUME Inv, NEW c \in Handlers, Keep(c) \/ KeepFails(c) \/ KeepTwice(c)
  PROVE  Inv'
  <1>1. TypeOK /\ ~ At(c, "idle") /\ ~ Holds(c)
    BY DEF Inv, Keep, KeepFails, KeepTwice, At, Holds
  <1>2. On(c) \in Jobs
    BY <1>1, OnJob
  <1>3. rec' = rec \/ rec' = [rec EXCEPT ![On(c)].kept = TRUE]
    BY DEF Keep, KeepFails, KeepTwice, store
  <1>4. rec' \in [Jobs -> Record] /\ \A j \in Jobs : rec'[j].accounted = rec[j].accounted
    BY <1>1, <1>2, <1>3, RecordMark
  <1>5. /\ UNCHANGED <<kind, upstream, lock, priced, rows, dropped, spend, funds, served,
                       waived, reprices>>
        /\ faults' \in Nat /\ faults' >= faults /\ faults' \in 0..MaxFaults
    BY <1>1, FaultMark DEF Keep, KeepFails, KeepTwice, store
  <1>6. Answer(c) \/ \E where \in {"keep again", "keep done again", "find"} : Goto(c, where)
    BY DEF Keep, KeepFails, KeepTwice
  <1>7. Alone(c) /\ ~ Holds(c)' /\ HandlerAt(c)' /\ (h'[c].at = "idle" \/ h'[c].job \in Jobs)
    BY <1>1, <1>4, <1>5, <1>6, AnswerAside, GotoAside
  <1>8. Aside(c) /\ Typed
    BY <1>1, <1>4, <1>5, <1>7 DEF Aside, Typed, TypeOK
  <1> QED BY <1>7, <1>8, AsideKeeps

\* What the read before the claim hands out is accounted.
LEMMA CompletedMove ==
  ASSUME Inv, NEW c \in Handlers, ~ At(c, "idle"), Completed(c)
  PROVE  /\ Answer(c) \/ Goto(c, "price")
         /\ served' \subseteq served \cup {j \in Jobs : rec[j].accounted}
  <1>1. On(c) \in Jobs /\ HandlerAt(c)
    BY OnJob DEF Inv, HandlerInv
  <1> QED BY <1>1 DEF Completed, HandlerAt

\* So does the provider's answer.
LEMMA AskKeeps ==
  ASSUME Inv, NEW c \in Handlers, Ask(c)
  PROVE  Inv'
  <1>1. TypeOK /\ ~ At(c, "idle") /\ ~ Holds(c)
    BY DEF Inv, Ask, At, Holds
  <1>2. UNCHANGED <<kind, upstream, store, priced, faults, reprices>>
    BY DEF Ask
  <1>3. /\ Answer(c) \/ \E where \in {"price", "remember"} : Goto(c, where)
        /\ served' \subseteq served \cup {j \in Jobs : rec[j].accounted}
    BY <1>1, CompletedMove DEF Ask
  <1>4. Alone(c) /\ ~ Holds(c)' /\ HandlerAt(c)' /\ (h'[c].at = "idle" \/ h'[c].job \in Jobs)
    BY <1>1, <1>2, <1>3, AnswerAside, GotoAside DEF store
  <1>5. Aside(c) /\ Typed
    BY <1>1, <1>2, <1>3, <1>4 DEF Aside, Typed, TypeOK, store
  <1> QED BY <1>4, <1>5, AsideKeeps

\* So does writing down what the provider said.
LEMMA RememberKeeps ==
  ASSUME Inv, NEW c \in Handlers, Remember(c) \/ RememberFails(c)
  PROVE  Inv'
  <1>1. TypeOK /\ ~ At(c, "idle") /\ ~ Holds(c)
    BY DEF Inv, Remember, RememberFails, At, Holds
  <1>2. On(c) \in Jobs
    BY <1>1, OnJob
  <1>3. rec' = rec \/ rec' = [rec EXCEPT ![On(c)].done = TRUE]
    BY DEF Remember, RememberFails
  <1>4. rec' \in [Jobs -> Record] /\ \A j \in Jobs : rec'[j].accounted = rec[j].accounted
    BY <1>1, <1>2, <1>3, RecordMark
  <1>5. /\ UNCHANGED <<kind, upstream, lock, priced, rows, dropped, spend, funds, waived, reprices>>
        /\ faults' \in Nat /\ faults' >= faults /\ faults' \in 0..MaxFaults
    BY <1>1, FaultMark DEF Remember, RememberFails
  <1>6. /\ Answer(c) \/ Goto(c, "price")
        /\ served' \subseteq served \cup {j \in Jobs : rec[j].accounted}
    BY <1>1, CompletedMove DEF Remember, RememberFails
  <1>7. Alone(c) /\ ~ Holds(c)' /\ HandlerAt(c)' /\ (h'[c].at = "idle" \/ h'[c].job \in Jobs)
    BY <1>1, <1>4, <1>5, <1>6, AnswerAside, GotoAside
  <1>8. Aside(c) /\ Typed
    BY <1>1, <1>4, <1>5, <1>6, <1>7 DEF Aside, Typed, TypeOK
  <1> QED BY <1>7, <1>8, AsideKeeps

\* What is priced is what the job costs, unless there is a reason to wait.
LEMMA PriceKeeps ==
  ASSUME Inv, NEW c \in Handlers, Price(c)
  PROVE  Inv'
  <1>1. TypeOK /\ ~ At(c, "idle") /\ ~ Holds(c)
    BY DEF Inv, Price, At, Holds
  <1>2. /\ On(c) \in Jobs /\ h[c] \in Handling /\ HandlerAt(c)
        /\ kind[On(c)] \in Kinds /\ priced[On(c)] \in BOOLEAN
    BY <1>1, OnJob DEF Inv, HandlerInv, TypeOK
  <1>3. UNCHANGED <<kind, upstream, store, priced, served, faults, reprices>>
    BY DEF Price
  <1>4. Alone(c) /\ ~ Holds(c)' /\ HandlerAt(c)' /\ (h'[c].at = "idle" \/ h'[c].job \in Jobs)
    <2>1. CASE Unrecorded(c) /\ Goto(c, "log")
      <3>1. /\ Alone(c) /\ h'[c].at = "log" /\ h'[c].job = h[c].job
            /\ h'[c].seen = h[c].seen /\ h'[c].owes = h[c].owes
        BY <1>1, <2>1, GotoMove DEF Places
      <3>2. Unrecorded(c)'
        BY <2>1, <3>1, <1>3 DEF Unrecorded, On, Batch
      <3> QED BY <3>1, <3>2, <1>2, <1>3 DEF Holds, HandlerAt, Unrecorded, At, On, store
    <2>2. CASE Answer(c)
      BY <2>2, AnswerAside
    <2>3. CASE ~ Unrecorded(c) /\ ~ Deferred(On(c)) /\
               h' = [h EXCEPT ![c].at = "claim",
                              ![c].owes = kind[On(c)].metered /\ priced[On(c)]]
      <3> DEFINE new == [h[c] EXCEPT !.at = "claim",
                                     !.owes = kind[On(c)].metered /\ priced[On(c)]]
      <3>0. (kind[On(c)].metered /\ priced[On(c)]) \in BOOLEAN
        OBVIOUS
      <3>1. /\ new \in Handling /\ new.at = "claim" /\ new.job = h[c].job
            /\ new.seen = h[c].seen /\ new.owes = (kind[On(c)].metered /\ priced[On(c)])
        BY <1>2, <3>0 DEF Handling, Places
      <3>2. h' = [h EXCEPT ![c] = new]
        BY <2>3, <1>1 DEF TypeOK
      <3> HIDE DEF new
      <3>3. h'[c] = new /\ Alone(c)
        BY <3>1, <3>2, <1>1 DEF TypeOK, Alone
      <3>4. ~ Unrecorded(c)'
        BY <2>3, <3>1, <3>3, <1>3 DEF Unrecorded, On, Batch
      <3>5. On(c)' = On(c) /\ ~ Holds(c)'
        BY <3>1, <3>3 DEF On, At, Holds
      <3>6. kind[On(c)].metered /\ ~ kind[On(c)].exempt => priced[On(c)]
        BY <2>3 DEF Deferred
      <3> QED BY <1>2, <1>3, <3>1, <3>3, <3>4, <3>5, <3>6 DEF HandlerAt, At, On, store
    <2> QED BY <2>1, <2>2, <2>3 DEF Price
  <1>5. Aside(c) /\ Typed
    BY <1>1, <1>3, <1>4 DEF Aside, Typed, TypeOK, store
  <1> QED BY <1>4, <1>5, AsideKeeps

\* The provider and the operator change nothing a bill depends on.
LEMMA WorldKeeps ==
  ASSUME Inv, NEW j \in Jobs, Finish(j) \/ Reprice(j)
  PROVE  Inv'
  <1>1. TypeOK
    BY DEF Inv
  <1>2. UNCHANGED <<kind, store, h, served, faults>>
    BY DEF Finish, Reprice
  <1>3. /\ upstream' \in [Jobs -> {"none", "running", "done", "failed"}]
        /\ priced' \in [Jobs -> BOOLEAN] /\ reprices' \in 0..MaxReprices
    <2>1. CASE Finish(j)
      BY <2>1, <1>1 DEF Finish, TypeOK
    <2>2. CASE Reprice(j)
      <3>1. (~ priced[j]) \in BOOLEAN
        OBVIOUS
      <3> QED BY <2>2, <3>1, <1>1, JobAssumption DEF Reprice, TypeOK
    <2> QED BY <2>1, <2>2
  <1>4. TypeOK'
    BY <1>1, <1>2, <1>3 DEF TypeOK, store, At, On
  <1>5. LockInv' /\ HandlerInv' /\ BillInv' /\ ServedBilled'
    BY <1>2 DEF Inv, LockInv, HandlerInv, HandlerAt, Holds, Unrecorded, BillInv, RowsAt,
                BillAt, Folding, ServedBilled, Batch, At, On, store
  <1> QED BY <1>4, <1>5 DEF Inv

-----------------------------------------------------------------------------
(* Steps under the claim.                                                  *)

\* The holder of the lock of its job is the only one under its claim.
LEMMA OneHolder ==
  ASSUME Inv, NEW c \in Handlers, Holds(c)
  PROVE  /\ On(c) \in Jobs /\ lock[On(c)] = c /\ c # Nobody
         /\ \A d \in Handlers \ {c} : Holds(d) => On(d) # On(c)
         /\ \A j \in Jobs : lock[j] = c => j = On(c)
         /\ h[c] \in Handling /\ HandlerAt(c)
  <1>1. ~ At(c, "idle")
    BY DEF Holds, At
  <1>2. On(c) \in Jobs /\ h[c] \in Handling
    BY <1>1, OnJob DEF Inv
  <1> QED BY <1>2, JobAssumption DEF Inv, LockInv, HandlerInv

\* The claim: the reader that finds the job accounted hands it out, the other
\* takes the lock.
LEMMA ClaimKeeps ==
  ASSUME Inv, NEW c \in Handlers, Claim(c)
  PROVE  Inv'
  <1>1. TypeOK /\ ~ At(c, "idle") /\ ~ Holds(c) /\ At(c, "claim") /\ lock[On(c)] = Nobody
    BY DEF Inv, Claim, At, Holds
  <1>2. On(c) \in Jobs /\ HandlerAt(c) /\ ~ Unrecorded(c)
    BY <1>1, OnJob DEF Inv, HandlerInv, HandlerAt
  <1>3. UNCHANGED <<kind, upstream, rec, priced, rows, dropped, spend, funds, waived, faults, reprices>>
    BY DEF Claim
  <1>4. CASE rec[On(c)].accounted
    <2>1. Answer(c) /\ served' = served \cup {On(c)} /\ lock' = lock
      BY <1>4 DEF Claim
    <2>2. Alone(c) /\ ~ Holds(c)' /\ HandlerAt(c)' /\ h'[c].at = "idle"
      BY <2>1, AnswerAside
    <2>3. Aside(c) /\ Typed
      BY <1>1, <1>2, <1>3, <1>4, <2>1, <2>2 DEF Aside, Typed, TypeOK
    <2> QED BY <2>2, <2>3, AsideKeeps
  <1>5. CASE ~ rec[On(c)].accounted
    <2>1. /\ lock' = [lock EXCEPT ![On(c)] = c]
          /\ Goto(c, IF Batch(On(c)) THEN "log" ELSE "fold")
          /\ served' = served
      BY <1>5 DEF Claim
    <2>2. /\ Alone(c) /\ h'[c].at = (IF Batch(On(c)) THEN "log" ELSE "fold")
          /\ h'[c].job = h[c].job /\ h'[c].seen = h[c].seen /\ h'[c].owes = h[c].owes
      <3> DEFINE where == IF Batch(On(c)) THEN "log" ELSE "fold"
      <3>1. where \in Places
        BY DEF Places
      <3> QED BY <1>1, <2>1, <3>1, GotoMove
    <2>3. TypeOK'
      BY <1>1, <1>2, <1>3, <2>1, <2>2 DEF TypeOK, Alone, At, On
    <2>4. On(c)' = On(c) /\ ~ Unrecorded(c)' /\ Holds(c)' /\ ~ (At(c, "fold") /\ Batch(On(c)))'
      BY <1>2, <1>3, <2>2 DEF On, Unrecorded, Holds, At, Batch
    <2>5. \A d \in Handlers \ {c} :
            /\ (Holds(d)' <=> Holds(d)) /\ On(d)' = On(d)
            /\ (HandlerAt(d)' <=> HandlerAt(d))
            /\ Holds(d) => On(d) # On(c)
      <3>1. \A d \in Handlers \ {c} : Holds(d) => On(d) # On(c)
        BY <1>1, JobAssumption DEF Inv, LockInv
      <3>2. \A d \in Handlers \ {c} : h'[d] = h[d]
        BY <2>2 DEF Alone
      <3> QED BY <1>3, <3>1, <3>2 DEF Holds, HandlerAt, At, On, Unrecorded, Batch
    <2>6. LockInv'
      <3>1. ASSUME NEW d \in Handlers, Holds(d)' PROVE lock'[On(d)'] = d
        BY <3>1, <1>1, <1>2, <2>1, <2>4, <2>5 DEF Inv, LockInv, TypeOK
      <3>2. ASSUME NEW j \in Jobs, lock'[j] # Nobody
            PROVE  Holds(lock[j])' /\ On(lock[j])' = j
        <4>1. CASE j = On(c)
          BY <4>1, <1>1, <1>2, <2>1, <2>4 DEF TypeOK
        <4>2. CASE j # On(c)
          <5>1. lock'[j] = lock[j] /\ lock[j] \in Handlers /\ Holds(lock[j]) /\ On(lock[j]) = j
            BY <4>2, <3>2, <1>1, <1>2, <2>1 DEF TypeOK, Inv, LockInv
          <5>2. lock[j] # c
            BY <5>1, <1>1
          <5> QED BY <5>1, <5>2, <2>5
        <4> QED BY <4>1, <4>2
      <3> QED BY <3>1, <3>2 DEF LockInv
    <2>7. HandlerInv'
      <3>1. HandlerAt(c)'
        BY <1>1, <1>2, <1>3, <1>5, <2>2, <2>4 DEF HandlerAt, At, On, Batch
      <3> QED BY <3>1, <2>5 DEF Inv, HandlerInv
    <2>8. BillInv' /\ ServedBilled'
      <3>1. ServedBilled'
        BY <1>3, <2>1 DEF Inv, ServedBilled
      <3>2. ASSUME NEW j \in Jobs PROVE RowsAt(j)' /\ BillAt(j)'
        <4>1. RowsAt(j) /\ BillAt(j) /\ rows[j] \in Nat /\ faults \in Nat
          BY <1>1 DEF Inv, BillInv, TypeOK
        <4>2. BillAt(j)'
          BY <4>1, <1>3 DEF BillAt
        <4>3. Folding(j) => Folding(j)'
          <5>1. CASE j = On(c)
            BY <5>1, <1>1 DEF Folding
          <5>2. CASE j # On(c)
            BY <5>2, <1>1, <1>2, <2>1, <2>2 DEF Folding, Alone, At, TypeOK, Inv, LockInv
          <5> QED BY <5>1, <5>2
        <4>4. RowsAt(j)'
          BY <4>1, <4>3, <1>3 DEF RowsAt, One, Batch
        <4> QED BY <4>2, <4>4
      <3> QED BY <3>1, <3>2 DEF BillInv
    <2> QED BY <2>3, <2>6, <2>7, <2>8 DEF Inv
  <1> QED BY <1>4, <1>5

\* A recorded batch is logged; its handler goes on to the fold.
LEMMA LogKeeps ==
  ASSUME Inv, NEW c \in Handlers, Log(c)
  PROVE  Inv'
  <1>1. TypeOK /\ ~ At(c, "idle") /\ At(c, "log")
    BY DEF Inv, Log, At
  <1>2. On(c) \in Jobs /\ HandlerAt(c)
    BY <1>1, OnJob DEF Inv, HandlerInv
  <1>3. UNCHANGED <<kind, upstream, rec, lock, priced, spend, funds, served, waived,
                    faults, reprices>>
    BY DEF Log
  <1>4. CASE Unrecorded(c)
    <2>1. Answer(c) /\ rows' = rows /\ dropped' = dropped /\ ~ Holds(c)
      BY <1>1, <1>4 DEF Log, Holds, At
    <2>2. Alone(c) /\ ~ Holds(c)' /\ HandlerAt(c)' /\ h'[c].at = "idle"
      BY <2>1, AnswerAside
    <2>3. Aside(c) /\ Typed
      BY <1>1, <1>3, <2>1, <2>2 DEF Aside, Typed, TypeOK
    <2> QED BY <2>2, <2>3, AsideKeeps
  <1>5. CASE ~ Unrecorded(c)
    <2>1. /\ Goto(c, "fold") /\ Holds(c)
          /\ \/ /\ rows' = [rows EXCEPT ![On(c)] = @ + 1]
                /\ dropped' = dropped \ {On(c)}
             \/ rows' = rows /\ dropped' = dropped \cup {On(c)}
      BY <1>1, <1>5 DEF Log, Holds
    <2>0. /\ rows' \in [Jobs -> Nat] /\ dropped' \subseteq Jobs
          /\ rows'[On(c)] > 0 \/ On(c) \in dropped'
          /\ rows'[On(c)] \in Nat /\ rows'[On(c)] <= rows[On(c)] + 1
          /\ \A j \in Jobs \ {On(c)} :
               rows'[j] = rows[j] /\ (j \in dropped' <=> j \in dropped)
      BY <1>1, <1>2, <2>1 DEF TypeOK
    <2>2. /\ Alone(c) /\ h'[c].at = "fold"
          /\ h'[c].job = h[c].job /\ h'[c].seen = h[c].seen /\ h'[c].owes = h[c].owes
      BY <1>1, <2>1, GotoMove DEF Places
    <2>3. TypeOK'
      BY <1>1, <1>2, <1>3, <2>0, <2>2 DEF TypeOK, Alone, At, On
    <2>4. On(c)' = On(c) /\ Holds(c)' /\ ~ At(c, "claim")' /\ ~ At(c, "log")'
      BY <2>2 DEF On, Holds, At
    <2>5. \A d \in Handlers \ {c} :
            /\ (Holds(d)' <=> Holds(d)) /\ h'[d] = h[d]
            /\ HandlerAt(d) => HandlerAt(d)'
      <3>1. \A d \in Handlers \ {c} : h'[d] = h[d]
        BY <2>2 DEF Alone
      <3>2. \A d \in Handlers \ {c} : Holds(d) => On(d) # On(c)
        BY <1>1, <2>1, OneHolder
      <3>3. \A j \in Jobs \ {On(c)} : rows'[j] = rows[j] /\ (j \in dropped' <=> j \in dropped)
        BY <2>0
      <3> QED BY <1>3, <3>1, <3>2, <3>3 DEF Holds, HandlerAt, At, On, Unrecorded, Batch
    <2>6. LockInv'
      <3>1. lock' = lock /\ lock \in [Jobs -> Handlers \cup {Nobody}] /\ LockInv
        BY <1>1, <1>3 DEF TypeOK, Inv
      <3>2. \A d \in Handlers : (Holds(d)' <=> Holds(d)) /\ On(d)' = On(d)
        BY <2>1, <2>4, <2>5 DEF On
      <3> QED BY <3>1, <3>2 DEF LockInv
    <2>7. HandlerInv'
      <3>1. HandlerAt(c)'
        BY <1>2, <1>3, <2>0, <2>1, <2>2, <2>4 DEF HandlerAt, On
      <3> QED BY <3>1, <2>5 DEF Inv, HandlerInv
    <2>8. BillInv' /\ ServedBilled'
      <3>1. ServedBilled'
        BY <1>3 DEF Inv, ServedBilled
      <3>2. ASSUME NEW j \in Jobs PROVE RowsAt(j)' /\ BillAt(j)'
        <4>1. RowsAt(j) /\ BillAt(j) /\ rows[j] \in Nat /\ faults \in Nat
          BY <1>1 DEF Inv, BillInv, TypeOK
        <4>2. BillAt(j)'
          BY <4>1, <1>3 DEF BillAt
        <4>3. CASE j = On(c)
          <5>1. Batch(j) /\ Batch(j)'
            BY <4>3, <1>1, <1>2, <1>3 DEF HandlerAt, Batch
          <5>2. ~ Folding(j) /\ Folding(j)'
            BY <4>3, <1>1, <1>3, <2>1, <2>2, OneHolder DEF Folding, At
          <5>3. /\ rows'[j] \in Nat /\ rows'[j] <= rows[j] + 1 /\ ~ rec[j].accounted
            BY <4>3, <1>1, <1>2, <2>0, <2>1 DEF TypeOK, HandlerAt
          <5> QED BY <4>1, <4>2, <5>1, <5>2, <5>3, <1>3 DEF RowsAt, One
        <4>4. CASE j # On(c)
          <5>1. Folding(j) <=> Folding(j)'
            <6>1. lock[j] # Nobody => lock[j] \in Handlers \ {c}
              BY <4>4, <1>1, <2>1, OneHolder DEF TypeOK
            <6> QED BY <6>1, <1>3, <2>5 DEF Folding, At
          <5>2. rows'[j] = rows[j] /\ (j \in dropped' <=> j \in dropped)
            BY <4>4, <2>0
          <5> QED BY <4>1, <4>2, <5>1, <5>2, <1>3 DEF RowsAt, Batch, One
        <4> QED BY <4>3, <4>4
      <3> QED BY <3>1, <3>2 DEF BillInv
    <2> QED BY <2>3, <2>6, <2>7, <2>8 DEF Inv
  <1> QED BY <1>4, <1>5

\* c lets the lock go, if it has it.
Unlocked(c) == lock' = [j \in Jobs |-> IF lock[j] = c THEN Nobody ELSE lock[j]]

\* A handler that answers and lets go of the lock leaves the other handlers
\* theirs.
LEMMA UnlockAnswer ==
  ASSUME Inv, NEW c \in Handlers, Unlocked(c), Answer(c), kind' = kind
  PROVE  /\ LockInv' /\ HandlerAt(c)' /\ h'[c].at = "idle" /\ Alone(c)
         /\ lock' \in [Jobs -> Handlers \cup {Nobody}]
         /\ \A d \in Handlers \ {c} : h'[d] = h[d] /\ (Holds(d)' <=> Holds(d))
         /\ \A j \in Jobs : Folding(j)' <=> Folding(j) /\ lock[j] # c
  <1>1. Alone(c) /\ ~ Holds(c)' /\ HandlerAt(c)' /\ h'[c].at = "idle"
    BY AnswerAside
  <1>2. lock \in [Jobs -> Handlers \cup {Nobody}] /\ LockInv
    BY DEF Inv, TypeOK
  <1>3. lock' \in [Jobs -> Handlers \cup {Nobody}]
    BY <1>2 DEF Unlocked
  <1>4. \A d \in Handlers \ {c} : h'[d] = h[d]
    BY <1>1 DEF Alone
  <1>5. \A d \in Handlers \ {c} : (Holds(d)' <=> Holds(d)) /\ On(d)' = On(d)
    BY <1>4 DEF Holds, At, On, Unrecorded, Batch
  <1>6. LockInv'
    <2>1. \A d \in Handlers \ {c} : Holds(d) => On(d) \in Jobs
      BY OneHolder
    <2>2. \A d \in Handlers : Holds(d)' => lock'[On(d)'] = d
      BY <1>1, <1>2, <1>5, <2>1 DEF Unlocked, LockInv
    <2>3. ASSUME NEW j \in Jobs, lock'[j] # Nobody
          PROVE  Holds(lock[j])' /\ On(lock[j])' = j
      <3>1. PICK d \in Handlers \ {c} : lock'[j] = d /\ lock[j] = d
        BY <2>3, <1>2 DEF Unlocked
      <3>2. Holds(d) /\ On(d) = j
        BY <2>3, <3>1, <1>2 DEF LockInv
      <3>3. Holds(d)' /\ On(d)' = j
        BY <3>2, <1>5
      <3> QED BY <3>1, <3>3 DEF Holds, At, On, Unrecorded
    <2> QED BY <2>2, <2>3 DEF LockInv
  <1>7. ASSUME NEW j \in Jobs PROVE Folding(j)' <=> Folding(j) /\ lock[j] # c
    BY <1>2, <1>4, JobAssumption DEF Unlocked, Folding, At
  <1> QED BY <1>1, <1>3, <1>4, <1>5, <1>6, <1>7

\* A crash, or a commit that is rolled back, leaves the bill of every job.
LEMMA LetGoKeeps ==
  ASSUME Inv, NEW c \in Handlers, Unlocked(c), Answer(c), Fault,
         UNCHANGED <<kind, upstream, rec, priced, rows, dropped, spend, funds, served, waived, reprices>>
  PROVE  Inv'
  <1>1. TypeOK
    BY DEF Inv
  <1>2. /\ LockInv' /\ HandlerAt(c)' /\ h'[c].at = "idle" /\ Alone(c)
        /\ lock' \in [Jobs -> Handlers \cup {Nobody}]
        /\ \A d \in Handlers \ {c} : h'[d] = h[d] /\ (Holds(d)' <=> Holds(d))
        /\ \A j \in Jobs : Folding(j)' <=> Folding(j) /\ lock[j] # c
    BY UnlockAnswer
  <1>3. faults \in Nat /\ faults' = faults + 1 /\ faults' \in 0..MaxFaults
    BY <1>1, FaultMark DEF Fault
  <1>4. TypeOK'
    BY <1>1, <1>2, <1>3 DEF TypeOK, Alone, At, On
  <1>5. HandlerInv'
    <2>1. \A d \in Handlers \ {c} : HandlerAt(d) => HandlerAt(d)'
      BY <1>2 DEF HandlerAt, At, On, Unrecorded, Batch
    <2> QED BY <1>2, <2>1 DEF Inv, HandlerInv
  <1>6. BillInv'
    <2> SUFFICES ASSUME NEW j \in Jobs PROVE RowsAt(j)' /\ BillAt(j)'
      BY DEF BillInv
    <2>1. RowsAt(j) /\ BillAt(j) /\ rows[j] \in Nat
      BY <1>1 DEF Inv, BillInv, TypeOK
    <2>2. BillAt(j)'
      BY <2>1 DEF BillAt
    <2>3. RowsAt(j)'
      BY <2>1, <1>3 DEF RowsAt, Batch, One
    <2> QED BY <2>2, <2>3
  <1>7. ServedBilled'
    BY DEF Inv, ServedBilled
  <1> QED BY <1>2, <1>4, <1>5, <1>6, <1>7 DEF Inv

\* The commit bills the job, which nobody had billed.
LEMMA FoldedKeeps ==
  ASSUME Inv, NEW c \in Handlers, At(c, "fold"), Unlocked(c), Answer(c),
         NEW charge \in BOOLEAN, Folded(c, charge), charge => Charged(c),
         waived \subseteq waived', waived' \subseteq waived \cup {On(c)},
         On(c) \notin waived' => (charge <=> Charged(c)),
         served \subseteq served', served' \subseteq served \cup {On(c)},
         Fault \/ faults' = faults,
         UNCHANGED <<kind, upstream, priced, reprices>>
  PROVE  Inv'
  <1>1. TypeOK /\ Holds(c)
    BY DEF Inv, Holds
  <1>2. /\ On(c) \in Jobs /\ lock[On(c)] = c /\ HandlerAt(c)
        /\ \A d \in Handlers \ {c} : Holds(d) => On(d) # On(c)
    BY <1>1, OneHolder
  <1>3. /\ LockInv' /\ HandlerAt(c)' /\ h'[c].at = "idle" /\ Alone(c)
        /\ lock' \in [Jobs -> Handlers \cup {Nobody}]
        /\ \A d \in Handlers \ {c} : h'[d] = h[d] /\ (Holds(d)' <=> Holds(d))
        /\ \A j \in Jobs : Folding(j)' <=> Folding(j) /\ lock[j] # c
    BY UnlockAnswer
  <1>4. faults \in Nat /\ faults' \in Nat /\ faults' >= faults /\ faults' \in 0..MaxFaults
    BY <1>1, FaultMark
  <1>5. /\ rec' \in [Jobs -> Record] /\ rec'[On(c)].accounted
        /\ \A i \in Jobs \ {On(c)} : rec'[i] = rec[i]
    BY <1>1, <1>2, AccountMark DEF Folded
  <1>6. /\ rows' \in [Jobs -> Nat] /\ spend' \in [Jobs -> Nat] /\ funds' \in [Jobs -> Nat]
        /\ rows'[On(c)] = rows[On(c)] + One(~ Batch(On(c)))
        /\ funds'[On(c)] = funds[On(c)] + One(charge)
        /\ spend'[On(c)] = spend[On(c)] + One(h[c].owes /\ ~ kind[On(c)].exempt)
        /\ dropped' = dropped
        /\ \A i \in Jobs \ {On(c)} :
             rows'[i] = rows[i] /\ funds'[i] = funds[i] /\ spend'[i] = spend[i]
    BY <1>1, <1>2 DEF Folded, TypeOK, One
  <1>7. TypeOK'
    <2>1. waived' \subseteq Jobs /\ served' \subseteq Jobs
      BY <1>1, <1>2 DEF TypeOK
    <2>2. \A d \in Handlers : At(d, "idle")' \/ On(d)' \in Jobs
      BY <1>1, <1>3 DEF TypeOK, At, On
    <2> QED BY <1>1, <1>3, <1>4, <1>5, <1>6, <2>1, <2>2 DEF TypeOK, Alone
  <1>8. HandlerInv'
    <2>1. ASSUME NEW d \in Handlers \ {c} PROVE HandlerAt(d)'
      <3>1. HandlerAt(d) /\ On(d)' = On(d) /\ h'[d] = h[d]
        BY <1>3 DEF Inv, HandlerInv, On
      <3>2. CASE On(d) = On(c)
        BY <3>1, <3>2, <1>2, <1>3, <1>5 DEF HandlerAt, At, On, Unrecorded, Batch, Holds
      <3>3. CASE On(d) # On(c)
        BY <3>1, <3>3, <1>3, <1>5, <1>6 DEF HandlerAt, At, On, Unrecorded, Batch
      <3> QED BY <3>2, <3>3
    <2> QED BY <1>3, <2>1 DEF HandlerInv
  <1>9. BillInv'
    <2> SUFFICES ASSUME NEW j \in Jobs PROVE RowsAt(j)' /\ BillAt(j)'
      BY DEF BillInv
    <2>1. RowsAt(j) /\ BillAt(j) /\ rows[j] \in Nat /\ spend[j] \in Nat /\ funds[j] \in Nat
      BY <1>1 DEF Inv, BillInv, TypeOK
    <2>2. CASE j # On(c)
      <3>1. lock[j] # c
        BY <1>1, <2>2, OneHolder
      <3>2. BillAt(j)'
        BY <2>1, <2>2, <1>5, <1>6 DEF BillAt
      <3>3. RowsAt(j)'
        BY <2>1, <2>2, <3>1, <1>3, <1>4, <1>5, <1>6 DEF RowsAt, Batch, One
      <3> QED BY <3>2, <3>3
    <2>3. CASE j = On(c)
      <3>1. ~ rec[j].accounted /\ rec'[j].accounted
        BY <2>3, <1>1, <1>2, <1>5 DEF HandlerAt
      <3>2. spend[j] = 0 /\ funds[j] = 0
        BY <2>1, <3>1 DEF BillAt, One
      <3>3. h[c].owes /\ ~ kind[j].exempt <=> kind[j].metered /\ ~ kind[j].exempt
        BY <2>3, <1>1, <1>2 DEF HandlerAt
      <3>4. /\ spend'[j] = One(kind[j].metered /\ ~ kind[j].exempt)
            /\ funds'[j] = One(charge)
        BY <2>3, <1>6, <3>2, <3>3 DEF One
      <3>5. BillAt(j)'
        BY <2>3, <3>1, <3>3, <3>4 DEF BillAt, One, Charged
      <3>6. Batch(j) => rows[j] > 0 \/ j \in dropped
        BY <2>3, <1>2 DEF HandlerAt
      <3>7. RowsAt(j)'
        BY <2>1, <2>3, <3>1, <3>6, <1>2, <1>3, <1>4, <1>6 DEF RowsAt, Batch, One
      <3> QED BY <3>5, <3>7
    <2> QED BY <2>2, <2>3
  <1>10. ServedBilled'
    BY <1>1, <1>5 DEF Inv, ServedBilled, TypeOK
  <1> QED BY <1>3, <1>7, <1>8, <1>9, <1>10 DEF Inv

\* The commit that accounts a job keeps the invariant, and so does its failure.
LEMMA FoldKeeps ==
  ASSUME Inv, NEW c \in Handlers, Fold(c) \/ FoldFails(c)
  PROVE  Inv'
  <1>1. At(c, "fold") /\ Answer(c) /\ Holds(c) /\ TypeOK
    BY DEF Fold, FoldFails, Holds, Inv
  <1>2. lock' = [lock EXCEPT ![On(c)] = Nobody]
    BY DEF Fold, FoldFails
  <1>3. Unlocked(c)
    BY <1>1, <1>2, OneHolder DEF Unlocked, TypeOK
  <1>4. Charged(c) \in BOOLEAN
    BY <1>1, OneHolder DEF Charged, Handling, TypeOK, Kinds
  <1>5. CASE Fold(c) /\ Folded(c, Charged(c)) /\ UNCHANGED <<waived, faults>>
    BY <1>1, <1>3, <1>4, <1>5, FoldedKeeps DEF Fold
  <1>6. CASE /\ Fold(c) /\ Charged(c) /\ Fault /\ Folded(c, FALSE)
             /\ waived' = waived \cup {On(c)}
    BY <1>1, <1>3, <1>6, FoldedKeeps DEF Fold
  <1>7. CASE FoldFails(c) /\ UNCHANGED <<rec, rows, dropped, funds, spend>>
    BY <1>1, <1>3, <1>7, LetGoKeeps DEF FoldFails
  <1>8. CASE FoldFails(c) /\ Folded(c, Charged(c))
    BY <1>1, <1>3, <1>4, <1>8, FoldedKeeps DEF FoldFails
  <1> QED BY <1>5, <1>6, <1>7, <1>8 DEF Fold, FoldFails

\* A handler that dies loses its lock and its transaction.
LEMMA CrashKeeps ==
  ASSUME Inv, NEW c \in Handlers, Crash(c)
  PROVE  Inv'
  BY LetGoKeeps DEF Crash, Unlocked

-----------------------------------------------------------------------------
(* The theorems.                                                           *)

\* The invariant holds before the first job.
LEMMA InvInit == Init => Inv
  <1> SUFFICES ASSUME Init PROVE Inv
    OBVIOUS
  <1>1. TypeOK
    BY JobAssumption DEF Init, TypeOK, Blank, Record, Idle, Handling, Places, At
  <1>2. \A c \in Handlers : h[c].at = "idle" /\ h[c].job \notin Jobs
    BY JobAssumption DEF Init, Idle
  <1>3. LockInv /\ HandlerInv
    BY <1>2 DEF Init, LockInv, HandlerInv, HandlerAt, Holds, At, On
  <1>4. BillInv
    <2> SUFFICES ASSUME NEW j \in Jobs PROVE RowsAt(j) /\ BillAt(j)
      BY DEF BillInv
    <2>1. /\ ~ rec[j].accounted /\ rows[j] = 0 /\ spend[j] = 0 /\ funds[j] = 0
          /\ ~ Folding(j) /\ faults = 0
      BY DEF Init, Blank, Folding
    <2> QED BY <2>1 DEF RowsAt, BillAt, One
  <1>5. ServedBilled
    BY DEF Init, ServedBilled
  <1> QED BY <1>1, <1>3, <1>4, <1>5 DEF Inv

\* Every step keeps it.
LEMMA InvStep == Inv /\ [Next]_vars => Inv'
  <1> SUFFICES ASSUME Inv, [Next]_vars PROVE Inv'
    OBVIOUS
  <1>1. CASE UNCHANGED vars
    BY <1>1 DEF vars, Inv, TypeOK, LockInv, HandlerInv, HandlerAt, Holds, Unrecorded, BillInv,
               RowsAt, BillAt, Folding, ServedBilled, Batch, At, On
  <1>2. ASSUME NEW c \in Handlers, Step(c) PROVE Inv'
    BY <1>2, KeepKeeps, FindKeeps, AskKeeps, RememberKeeps, PriceKeeps, ClaimKeeps,
       LogKeeps, FoldKeeps DEF Step
  <1>3. ASSUME NEW c \in Handlers,
               KeepFails(c) \/ RememberFails(c) \/ FoldFails(c) \/ Crash(c)
        PROVE  Inv'
    BY <1>3, KeepKeeps, RememberKeeps, FoldKeeps, CrashKeeps
  <1>4. ASSUME NEW c \in Handlers, NEW j \in Jobs, Create(c, j) \/ Retrieve(c, j) PROVE Inv'
    BY <1>4, CreateKeeps, RetrieveKeeps
  <1>5. ASSUME NEW j \in Jobs, Finish(j) \/ Reprice(j) PROVE Inv'
    BY <1>5, WorldKeeps
  <1> QED BY <1>1, <1>2, <1>3, <1>4, <1>5 DEF Next

\* Every variable keeps its type.
THEOREM TypeCorrect == Spec => []TypeOK
  <1>1. Inv => TypeOK
    BY DEF Inv
  <1> QED BY <1>1, InvInit, InvStep, PTL DEF Spec

\* Owner and organization pay for a job once, in the commit that accounts it,
\* however many requests read it at once, fail or die (claim_accounting,
\* claim_batch_accounting, record_external_spend).
THEOREM BilledOnceCorrect == Spec => []BilledOnce
  <1>1. Inv => BilledOnce
    BY DEF Inv, BillInv, BillAt, BilledOnce, AccountedBilled, ChargedWithSpend
  <1> QED BY <1>1, InvInit, InvStep, PTL DEF Spec

\* An accounted job has its usage row, a batch's unless the log writer lost it
\* (log_batch_usage does not look at what put says); only failures give a batch
\* more than one.
THEOREM RowsCorrect == Spec => []RowsTrue
  <1>1. ASSUME Inv, NEW j \in Jobs
        PROVE  IF Batch(j) THEN (rec[j].accounted => rows[j] > 0 \/ j \in dropped) /\ rows[j] <= 1 + faults
               ELSE rows[j] = One(rec[j].accounted)
    <2>1. RowsAt(j) /\ rows[j] \in Nat /\ faults \in Nat
      BY <1>1 DEF Inv, BillInv, TypeOK
    <2>2. ~ (Folding(j) /\ rec[j].accounted)
      <3>1. ASSUME Folding(j) PROVE ~ rec[j].accounted
        <4>1. lock[j] \in Handlers /\ Holds(lock[j]) /\ On(lock[j]) = j
          BY <1>1, <3>1 DEF Inv, LockInv, Folding, TypeOK
        <4> QED BY <1>1, <4>1 DEF Inv, HandlerInv, HandlerAt
      <3> QED BY <3>1
    <2> QED BY <2>1, <2>2 DEF RowsAt, One
  <1>2. Inv => RowsTrue
    BY <1>1 DEF RowsTrue
  <1> QED BY <1>2, InvInit, InvStep, PTL DEF Spec

\* No result is handed out, by a read that found a rate, before its job is billed.
THEOREM ServedCorrect == Spec => []ServedBilled
  <1>1. Inv => ServedBilled
    BY DEF Inv
  <1> QED BY <1>1, InvInit, InvStep, PTL DEF Spec
=============================================================================
