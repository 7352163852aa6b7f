------------------------- MODULE AttemptWalkProofs -------------------------
(***************************************************************************)
(* The walk of a request over its plan, for any requests, plans, sessions   *)
(* and estimates, and the load the walks of one process share.              *)
(*                                                                         *)
(* The argument: the candidates behind the one at hand were skipped, not    *)
(* sent or failed, and the ones ahead are untouched (FateInv); what the walk *)
(* has still to record lies behind the candidate at hand, and what it has    *)
(* recorded lies behind a candidate that was sent the request (RecordInv);   *)
(* only the candidate at hand has an observation open (OpenInv), so the load *)
(* of a candidate is the number of requests that observe it (LoadInv).       *)
(***************************************************************************)
EXTENDS AttemptWalk, FiniteSetTheorems, SequenceTheorems, WellFoundedInduction, TLAPS

Early == {"admit", "prepare", "topup"}
Past == {"skipped", "unsent", "failed"}

\* c is a candidate of r's plan before the one at hand.
Behind(r, c) == \E i \in 1..at[r] : i < at[r] /\ plan[r][i] = c

\* The plan is a sequence of different candidates, and the walk is within it.
PlanInv(r) ==
    /\ pc[r] = "new" => at[r] = 0
    /\ pc[r] # "new" => at[r] >= 1
    /\ \A i, j \in 1..Len(plan[r]) : plan[r][i] = plan[r][j] => i = j

\* What became of the candidates.
FateInv(r) ==
    /\ \A c \in Candidates : c \notin Reached(r) => fate[r][c] = "untried"
    /\ \A i \in 1..at[r] : i < at[r] => fate[r][plan[r][i]] \in Past
    /\ pc[r] \in Awaiting => fate[r][Cand(r)] = "untried"

\* Who the failure is put on.
StopInv(r) ==
    /\ stopped[r] # NoOne => pc[r] \in {"stopped", "finished"}
    /\ stopped[r] # NoOne =>
        /\ stopped[r] \in Reached(r)
        /\ \/ fate[r][stopped[r]] \in {"refused", "capped"} /\ stopped[r] = Cand(r)
           \/ /\ fate[r][stopped[r]] \in {"failed", "unsent"}
              /\ \A c \in Failures(fate[r]) : IndexOf(r, c) <= IndexOf(r, stopped[r])
           \/ fate[r][stopped[r]] = "skipped" /\ Failures(fate[r]) = {}

\* What the reservation covers, and when a walk is locked in.
CoverInv(r) ==
    /\ at[r] = 1 => hold[r] >= Need[plan[r][1]]
    /\ pc[r] = "run" => hold[r] >= Need[Cand(r)]
    /\ locked[r] => pc[r] \notin Early \union {"new"}

\* What is held of the models' limits.
ModelInv(r) ==
    /\ counted[r] \subseteq Reached(r)
    /\ onModel[r] \subseteq Reached(r)
    /\ pc[r] = "admit" => Cand(r) \notin onModel[r] \union counted[r]
    /\ pc[r] # "new" =>
        /\ onModel[r] \subseteq {Cand(r)}
        /\ \A c \in counted[r] \ {Cand(r)} : fate[r][c] = "failed"
        /\ fate[r][Cand(r)] \in {"skipped", "unsent"} => Cand(r) \notin counted[r]

\* The request went on from the j-th candidate of the plan to a later one that
\* was sent it.
WentOn(r, c) ==
    \E i, j \in 1..at[r] :
        /\ j < i /\ plan[r][j] = c
        /\ fate[r][plan[r][i]] # "skipped"
        /\ fate[r][plan[r][i]] = "untried" => pc[r] \notin {"admit", "prepare"}

RowInv(r, row) ==
    /\ row.kind = "absorbed" => fate[r][row.of] \in {"failed", "unsent"}
    /\ row.kind = "skipped" => fate[r][row.of] = "skipped"
    /\ row.of # stopped[r]
    /\ WentOn(r, row.of) \/ (row.kind = "skipped" /\ stopped[r] # NoOne)

RecordInv(r) ==
    /\ pc[r] \in Awaiting \union {"new"} =>
         /\ unabsorbed[r] # NoOne => /\ Behind(r, unabsorbed[r])
                                     /\ fate[r][unabsorbed[r]] \in {"failed", "unsent"}
         /\ \A c \in skips[r] : Behind(r, c) /\ fate[r][c] = "skipped"
    /\ \A row \in rows[r] : RowInv(r, row)

\* Only the candidate at hand is observed, while it runs or streams.
OpenInv(r) ==
    /\ pc[r] \notin {"run", "served"} => open[r] = {}
    /\ \A o \in open[r] : o.on = Cand(r)

WalkInv(r) == /\ PlanInv(r) /\ FateInv(r) /\ StopInv(r) /\ CoverInv(r)
              /\ ModelInv(r) /\ RecordInv(r) /\ OpenInv(r)

\* The requests observed on a candidate are its load.
Watching(c) == {r \in Requests : [on |-> c, tracked |-> TRUE] \in open[r]}
LoadInv ==
    \A c \in Candidates : /\ active[c] = Cardinality(Watching(c))
                          /\ active[c] > 0 => c \in tracked

Inv == TypeOK /\ LoadInv /\ \A r \in Requests : WalkInv(r)
-----------------------------------------------------------------------------
(* Numbers, and the plan.                                                  *)

\* A set of numbers has a least one.
LEMMA NatLeast ==
  ASSUME NEW T, T \subseteq Nat, T # {}
  PROVE  \E x \in T : \A y \in T : x <= y
  <1> DEFINE R == OpToRel(<, Nat)
  <1>1. IsWellFoundedOn(R, Nat)
    BY NatLessThanWellFounded
  <1>2. \A x, y \in Nat : y < x => <<y, x>> \in R
    BY DEF OpToRel
  <1> HIDE DEF R
  <1>3. PICK x \in T : \A y \in T : ~(<<y, x>> \in R)
    BY <1>1, WFMin
  <1>4. ASSUME NEW y \in T PROVE x <= y
    <2>1. x \in Nat /\ y \in Nat
      OBVIOUS
    <2>2. ~(y < x)
      BY <1>2, <1>3, <2>1
    <2> QED BY <2>1, <2>2
  <1> QED BY <1>4

\* A bounded set of numbers has a greatest one.
LEMMA NatGreatest ==
  ASSUME NEW n \in Nat, NEW T, T \subseteq 0..n, T # {}
  PROVE  \E x \in T : \A y \in T : y <= x
  <1> DEFINE D == {n - y : y \in T}
  <1>a. \A y \in T : n - y \in Nat
    OBVIOUS
  <1>b. PICK z \in T : TRUE
    OBVIOUS
  <1>c. n - z \in D
    OBVIOUS
  <1>1. D \subseteq Nat /\ D # {}
    BY <1>a, <1>c
  <1>2. PICK d \in D : \A e \in D : d <= e
    BY <1>1, NatLeast
  <1>3. PICK x \in T : d = n - x
    OBVIOUS
  <1>4. ASSUME NEW y \in T PROVE y <= x
    <2>1. d <= n - y
      BY <1>2
    <2> QED BY <1>3, <2>1
  <1> QED BY <1>4

\* The candidate at hand is one of the plan.
LEMMA CandIs ==
  ASSUME TypeOK, NEW r \in Requests, at[r] >= 1
  PROVE  /\ at[r] \in 1..Len(plan[r]) /\ Cand(r) \in Candidates
         /\ Cand(r) = plan[r][at[r]] /\ Cand(r) \in Reached(r)
  BY ElementOfSeq DEF TypeOK, Cand, Reached

\* A plan is made of candidates.
LEMMA PlanIs ==
  ASSUME TypeOK, NEW r \in Requests
  PROVE  /\ Len(plan[r]) \in Nat /\ at[r] \in 0..Len(plan[r])
         /\ \A i \in 1..Len(plan[r]) : plan[r][i] \in Candidates
         /\ Reached(r) \subseteq Candidates
  BY ElementOfSeq DEF TypeOK, Reached

\* A candidate has one place in the plan.
LEMMA IndexIs ==
  ASSUME NEW r \in Requests, PlanInv(r), NEW i \in 1..Len(plan[r])
  PROVE  IndexOf(r, plan[r][i]) = i
  BY DEF IndexOf, PlanInv

\* The candidate that failed last is one of those that failed.
LEMMA LastOfIs ==
  ASSUME TypeOK, NEW r \in Requests, PlanInv(r), NEW C, C \subseteq Reached(r), C # {}
  PROVE  /\ LastOf(r, C) \in C
         /\ \A d \in C : IndexOf(r, d) <= IndexOf(r, LastOf(r, C))
  <1> DEFINE n == Len(plan[r])
             T == {i \in 0..n : \E c \in C : IndexOf(r, c) = i}
  <1>1. n \in Nat /\ at[r] \in 0..n
    BY PlanIs
  <1>2. \A c \in C : IndexOf(r, c) \in 0..n
    <2> TAKE c \in C
    <2>1. PICK i \in 1..at[r] : plan[r][i] = c
      BY DEF Reached
    <2>2. i \in 1..n
      BY <1>1, <2>1
    <2> QED BY <1>1, <2>1, <2>2, IndexIs
  <1>3. T \subseteq 0..n /\ T # {}
    BY <1>2
  <1> HIDE DEF T
  <1>4. PICK m \in T : \A k \in T : k <= m
    BY <1>1, <1>3, NatGreatest
  <1>5. PICK c \in C : IndexOf(r, c) = m
    BY <1>4 DEF T
  <1>6. \A d \in C : IndexOf(r, d) <= IndexOf(r, c)
    BY <1>2, <1>4, <1>5 DEF T
  <1>7. \E x \in C : \A d \in C : IndexOf(r, d) <= IndexOf(r, x)
    BY <1>6
  <1> HIDE DEF IndexOf
  <1> QED BY <1>7 DEF LastOf
-----------------------------------------------------------------------------
(* What a step of one walk does to that walk, and that it leaves the others *)
(* alone.                                                                   *)

Others(r) ==
    \A q \in Requests \ {r} :
        /\ pc'[q] = pc[q] /\ plan'[q] = plan[q] /\ at'[q] = at[q] /\ fate'[q] = fate[q]
        /\ locked'[q] = locked[q] /\ hold'[q] = hold[q]
        /\ onModel'[q] = onModel[q] /\ counted'[q] = counted[q]
        /\ unabsorbed'[q] = unabsorbed[q] /\ skips'[q] = skips[q] /\ rows'[q] = rows[q]
        /\ stopped'[q] = stopped[q] /\ open'[q] = open[q]

SameFate(r) == fate'[r] = fate[r] /\ stopped'[r] = stopped[r]
SamePlace(r) == plan'[r] = plan[r] /\ at'[r] = at[r]
SameHold(r) == hold'[r] = hold[r]
SameLock(r) == locked'[r] = locked[r]
SameModel(r) == onModel'[r] = onModel[r] /\ counted'[r] = counted[r]
SameRecord(r) == unabsorbed'[r] = unabsorbed[r] /\ skips'[r] = skips[r] /\ rows'[r] = rows[r]
SameOpen(r) == open'[r] = open[r]
Unwatch(r) == open'[r] = {o \in open[r] : o.on # Cand(r)}
Watch(r) == \E b \in BOOLEAN : open'[r] = open[r] \union {[on |-> Cand(r), tracked |-> b]}
Marked(r, w) == fate'[r] = [fate[r] EXCEPT ![Cand(r)] = w]

Ranking(r) ==
    /\ pc[r] = "new" /\ pc'[r] = "admit" /\ at'[r] = 1
    /\ plan'[r] \in [1..Cardinality(PlanOf[r]) -> PlanOf[r]]
    /\ \A i, j \in 1..Cardinality(PlanOf[r]) : i < j => plan'[r][i] # plan'[r][j]
    /\ hold'[r] = Need[plan'[r][1]]
    /\ SameFate(r) /\ SameLock(r) /\ SameModel(r) /\ SameRecord(r) /\ SameOpen(r)

\* The walk goes on to the next candidate, or ends behind the last.
Onward(r, u) ==
    \/ /\ at[r] # Len(plan[r]) /\ at'[r] = at[r] + 1 /\ pc'[r] = "admit"
       /\ skips'[r] = u /\ stopped'[r] = stopped[r] /\ rows'[r] = rows[r]
    \/ /\ at[r] = Len(plan[r]) /\ at'[r] = at[r] /\ pc'[r] = "stopped"
       /\ Failures(fate'[r]) = {}
       /\ stopped'[r] \in Refusals(fate'[r])
       /\ skips'[r] = skips[r] /\ rows'[r] = rows[r]
    \/ /\ at[r] = Len(plan[r]) /\ at'[r] = at[r] /\ pc'[r] = "stopped"
       /\ Failures(fate'[r]) # {}
       /\ stopped'[r] = LastOf(r, Failures(fate'[r]))
       /\ skips'[r] = {} /\ rows'[r] = rows[r] \union Skipped(u)

Freed(r) ==
    \/ pc[r] = "admit" /\ SameModel(r) /\ SameOpen(r)
    \/ /\ pc[r] = "prepare" /\ SameOpen(r)
       /\ onModel'[r] = onModel[r] \ {Cand(r)} /\ counted'[r] = counted[r] \ {Cand(r)}
    \/ /\ pc[r] = "run" /\ ~locked[r] /\ Unwatch(r)
       /\ onModel'[r] = onModel[r] \ {Cand(r)} /\ counted'[r] = counted[r]

PassingBy(r) ==
    /\ pc[r] \in {"admit", "prepare"} /\ Freed(r)
    /\ Marked(r, "skipped") /\ Onward(r, skips[r] \union {Cand(r)})
    /\ unabsorbed'[r] = unabsorbed[r]
    /\ plan'[r] = plan[r] /\ SameHold(r) /\ SameLock(r)

Falling(r) ==
    \E w \in {"unsent", "failed"} :
        /\ pc[r] \in {"admit", "prepare", "run"} /\ (w = "failed" <=> pc[r] = "run") /\ Freed(r)
        /\ Marked(r, w) /\ Onward(r, skips[r])
        /\ unabsorbed'[r] = Cand(r)
        /\ plan'[r] = plan[r] /\ SameHold(r) /\ SameLock(r)

Halting(r) ==
    \E w \in {"refused", "capped", "failed"} :
        /\ pc[r] \in Awaiting /\ pc'[r] = "stopped" /\ stopped'[r] = Cand(r)
        /\ Marked(r, w) /\ SamePlace(r) /\ SameHold(r) /\ SameLock(r) /\ SameRecord(r)
        /\ onModel'[r] \subseteq onModel[r] /\ counted'[r] \subseteq counted[r]
        /\ (pc[r] # "run" /\ SameOpen(r)) \/ (pc[r] = "run" /\ Unwatch(r))

Admitting(r) ==
    /\ pc[r] = "admit" /\ pc'[r] = "prepare"
    /\ \/ SameModel(r)
       \/ onModel'[r] = onModel[r] \union {Cand(r)} /\ counted'[r] = counted[r] \union {Cand(r)}
    /\ SameFate(r) /\ SamePlace(r) /\ SameHold(r) /\ SameLock(r) /\ SameRecord(r) /\ SameOpen(r)

Sending(r) ==
    /\ pc[r] = "prepare"
    /\ \/ at[r] > 1 /\ pc'[r] = "topup" /\ SameOpen(r)
       \/ ~(at[r] > 1) /\ pc'[r] = "run" /\ Watch(r)
    /\ rows'[r] = (rows[r] \union Absorbed(unabsorbed[r])) \union Skipped(skips[r])
    /\ unabsorbed'[r] = NoOne /\ skips'[r] = {}
    /\ SameFate(r) /\ SamePlace(r) /\ SameHold(r) /\ SameLock(r) /\ SameModel(r)

ToppingUp(r) ==
    /\ pc[r] = "topup" /\ pc'[r] = "run" /\ Watch(r)
    /\ hold'[r] = IF hold[r] < Need[Cand(r)] THEN Need[Cand(r)] ELSE hold[r]
    /\ SameFate(r) /\ SamePlace(r) /\ SameLock(r) /\ SameModel(r) /\ SameRecord(r)

Locking(r) ==
    /\ pc[r] = "run" /\ pc'[r] = "run" /\ SameOpen(r)
    /\ SameFate(r) /\ SamePlace(r) /\ SameHold(r) /\ SameModel(r) /\ SameRecord(r)

Ending(r) ==
    /\ \/ /\ pc[r] = "run" /\ pc'[r] \in {"served", "unreachable"} /\ Marked(r, pc'[r])
          /\ Unwatch(r) \/ (pc'[r] = "served" /\ SameOpen(r))
       \/ pc[r] \in Awaiting /\ pc'[r] = "cancelled" /\ fate'[r] = fate[r] /\ Unwatch(r)
       \/ pc[r] = "served" /\ pc'[r] = "served" /\ fate'[r] = fate[r] /\ Unwatch(r)
       \/ pc[r] \in Ended /\ pc'[r] = "finished" /\ fate'[r] = fate[r] /\ open'[r] = {}
    /\ stopped'[r] = stopped[r]
    /\ SamePlace(r) /\ SameHold(r) /\ SameLock(r) /\ SameModel(r) /\ SameRecord(r)

Kinds(r) == \/ Ranking(r) \/ PassingBy(r) \/ Falling(r) \/ Halting(r) \/ Admitting(r)
            \/ Sending(r) \/ ToppingUp(r) \/ Locking(r) \/ Ending(r)

\* Passing over a candidate goes on to the next, or ends the walk at the last.
LEMMA AdvanceIs ==
  ASSUME TypeOK, NEW r \in Requests, NEW u, Advance(r, fate'[r], u)
  PROVE  /\ Onward(r, u)
         /\ \A q \in Requests \ {r} :
              /\ pc'[q] = pc[q] /\ at'[q] = at[q] /\ skips'[q] = skips[q]
              /\ rows'[q] = rows[q] /\ stopped'[q] = stopped[q]
  <1> USE DEF TypeOK
  <1>1. CASE at[r] # Len(plan[r])
    BY <1>1 DEF Advance, Onward, Last
  <1>2. CASE at[r] = Len(plan[r]) /\ Failures(fate'[r]) = {}
    <2>1. PICK c \in Refusals(fate'[r]) : stopped' = [stopped EXCEPT ![r] = c]
      BY <1>2 DEF Advance, Exhaust, Last
    <2>2. pc' = [pc EXCEPT ![r] = "stopped"] /\ UNCHANGED <<skips, rows, at>>
      BY <1>2 DEF Advance, Exhaust, Last
    <2>3. pc'[r] = "stopped" /\ stopped'[r] = c
      BY <2>1, <2>2
    <2>4. Onward(r, u)
      BY <1>2, <2>2, <2>3 DEF Onward
    <2> QED BY <2>1, <2>2, <2>4
  <1>3. CASE at[r] = Len(plan[r]) /\ Failures(fate'[r]) # {}
    <2>1. /\ pc' = [pc EXCEPT ![r] = "stopped"] /\ UNCHANGED at
          /\ stopped' = [stopped EXCEPT ![r] = LastOf(r, Failures(fate'[r]))]
          /\ rows' = [rows EXCEPT ![r] = @ \union Skipped(u)]
          /\ skips' = [skips EXCEPT ![r] = {}]
      BY <1>3 DEF Advance, Exhaust, Last
    <2>2. /\ pc'[r] = "stopped" /\ stopped'[r] = LastOf(r, Failures(fate'[r]))
          /\ rows'[r] = rows[r] \union Skipped(u) /\ skips'[r] = {}
      BY <2>1
    <2>3. Onward(r, u)
      BY <1>3, <2>1, <2>2 DEF Onward
    <2> QED BY <2>1, <2>3
  <1> QED BY <1>1, <1>2, <1>3

\* What skipping the candidate at hand does.
LEMMA SkipIs ==
  ASSUME TypeOK, NEW r \in Requests, Skip(r)
  PROVE  /\ Marked(r, "skipped") /\ Onward(r, skips[r] \union {Cand(r)})
         /\ unabsorbed' = unabsorbed /\ plan' = plan /\ hold' = hold /\ locked' = locked
         /\ \A q \in Requests \ {r} :
              /\ pc'[q] = pc[q] /\ at'[q] = at[q] /\ fate'[q] = fate[q] /\ skips'[q] = skips[q]
              /\ rows'[q] = rows[q] /\ stopped'[q] = stopped[q]
  <1>1. /\ fate' = [fate EXCEPT ![r][Cand(r)] = "skipped"]
        /\ Advance(r, fate'[r], skips[r] \union {Cand(r)})
        /\ unabsorbed' = unabsorbed /\ plan' = plan /\ hold' = hold /\ locked' = locked
    BY DEF Skip, Became
  <1>2. fate'[r] = [fate[r] EXCEPT ![Cand(r)] = "skipped"] /\ \A q \in Requests \ {r} : fate'[q] = fate[q]
    BY <1>1 DEF TypeOK
  <1>3. Onward(r, skips[r] \union {Cand(r)})
    BY <1>1, AdvanceIs
  <1>4. \A q \in Requests \ {r} :
              /\ pc'[q] = pc[q] /\ at'[q] = at[q] /\ skips'[q] = skips[q]
              /\ rows'[q] = rows[q] /\ stopped'[q] = stopped[q]
    BY <1>1, AdvanceIs
  <1> QED BY <1>1, <1>2, <1>3, <1>4 DEF Marked

\* What a failure of the candidate at hand does.
LEMMA FallIs ==
  ASSUME TypeOK, NEW r \in Requests, NEW w, Fall(r, w)
  PROVE  /\ Marked(r, w) /\ Onward(r, skips[r])
         /\ unabsorbed'[r] = Cand(r) /\ plan' = plan /\ hold' = hold /\ locked' = locked
         /\ \A q \in Requests \ {r} :
              /\ pc'[q] = pc[q] /\ at'[q] = at[q] /\ fate'[q] = fate[q] /\ skips'[q] = skips[q]
              /\ rows'[q] = rows[q] /\ stopped'[q] = stopped[q] /\ unabsorbed'[q] = unabsorbed[q]
  <1>1. /\ fate' = [fate EXCEPT ![r][Cand(r)] = w]
        /\ Advance(r, fate'[r], skips[r])
        /\ unabsorbed' = [unabsorbed EXCEPT ![r] = Cand(r)] /\ plan' = plan /\ hold' = hold /\ locked' = locked
    BY DEF Fall, Became
  <1>2. fate'[r] = [fate[r] EXCEPT ![Cand(r)] = w] /\ \A q \in Requests \ {r} : fate'[q] = fate[q]
    BY <1>1 DEF TypeOK
  <1>3. Onward(r, skips[r])
    BY <1>1, AdvanceIs
  <1>4. \A q \in Requests \ {r} :
              /\ pc'[q] = pc[q] /\ at'[q] = at[q] /\ skips'[q] = skips[q]
              /\ rows'[q] = rows[q] /\ stopped'[q] = stopped[q] /\ unabsorbed'[q] = unabsorbed[q]
    BY <1>1, AdvanceIs DEF TypeOK
  <1>5. unabsorbed'[r] = Cand(r)
    BY <1>1 DEF TypeOK
  <1> QED BY <1>1, <1>2, <1>3, <1>4, <1>5 DEF Marked

\* What stopping at the candidate at hand does.
LEMMA StopIs ==
  ASSUME TypeOK, NEW r \in Requests, NEW w, Stop(r, w)
  PROVE  /\ Marked(r, w) /\ pc'[r] = "stopped" /\ stopped'[r] = Cand(r)
         /\ at' = at /\ plan' = plan /\ hold' = hold /\ locked' = locked
         /\ unabsorbed' = unabsorbed /\ skips' = skips /\ rows' = rows
         /\ \A q \in Requests \ {r} :
              pc'[q] = pc[q] /\ fate'[q] = fate[q] /\ stopped'[q] = stopped[q]
  BY DEF Stop, Became, record, TypeOK, Marked

\* What giving back the candidate's model does.
LEMMA DropIs ==
  ASSUME TypeOK, NEW r \in Requests, NEW b \in BOOLEAN, DropModel(r, b)
  PROVE  /\ onModel'[r] = onModel[r] \ {Cand(r)}
         /\ counted'[r] = IF b THEN counted[r] ELSE counted[r] \ {Cand(r)}
         /\ \A q \in Requests \ {r} : onModel'[q] = onModel[q] /\ counted'[q] = counted[q]
  BY DEF DropModel, TypeOK

\* Starting the candidate opens its observation.
LEMMA StartIs ==
  ASSUME TypeOK, NEW r \in Requests, Start(r, Cand(r))
  PROVE  Watch(r) /\ \A q \in Requests \ {r} : open'[q] = open[q]
  <1>1. \/ open' = [open EXCEPT ![r] = @ \union {[on |-> Cand(r), tracked |-> TRUE]}]
        \/ open' = [open EXCEPT ![r] = @ \union {[on |-> Cand(r), tracked |-> FALSE]}]
    BY DEF Start
  <1>2. \A b \in BOOLEAN : open' = [open EXCEPT ![r] = @ \union {[on |-> Cand(r), tracked |-> b]}] =>
            /\ open'[r] = open[r] \union {[on |-> Cand(r), tracked |-> b]}
            /\ \A q \in Requests \ {r} : open'[q] = open[q]
    BY DEF TypeOK
  <1> QED BY <1>1, <1>2 DEF Watch

\* Finishing it closes the observation.
LEMMA FinishIs ==
  ASSUME TypeOK, NEW r \in Requests, NEW outcome, Finish(r, Cand(r), outcome)
  PROVE  Unwatch(r) /\ \A q \in Requests \ {r} : open'[q] = open[q]
  BY DEF Finish, Unwatch, TypeOK

\* Every step of a walk is of one of the kinds above, and leaves the other
\* walks alone.
LEMMA KindOf ==
  ASSUME TypeOK, NEW r \in Requests, Step(r)
  PROVE  Others(r) /\ Kinds(r)
  <1> USE DEF SameFate, SamePlace, SameHold, SameLock, SameModel, SameRecord, SameOpen
  <1>1. CASE Rank(r)
    <2>0. PICK tier \in [unpriced : SUBSET PlanOf[r], foreign : SUBSET PlanOf[r], remote : SUBSET PlanOf[r]], b \in {bound[Session[r]], NoOne} :
             /\ \E p \in Orders(PlanOf[r], b, tier) :
                  plan' = [plan EXCEPT ![r] = p] /\ hold' = [hold EXCEPT ![r] = Need[p[1]]]
             /\ bound' = [bound EXCEPT ![Session[r]] = IF Leads(b, PlanOf[r], tier) THEN b ELSE NoOne]
      BY <1>1 DEF Rank
    <2>1. PICK p \in Orders(PlanOf[r], b, tier) :
             plan' = [plan EXCEPT ![r] = p] /\ hold' = [hold EXCEPT ![r] = Need[p[1]]]
      BY <2>0
    <2>2. /\ p \in [1..Cardinality(PlanOf[r]) -> PlanOf[r]]
          /\ \A i, j \in 1..Cardinality(PlanOf[r]) : i < j => p[i] # p[j]
      BY DEF Orders
    <2>3. /\ plan'[r] = p /\ hold'[r] = Need[p[1]] /\ pc[r] = "new" /\ pc'[r] = "admit" /\ at'[r] = 1
          /\ UNCHANGED <<fate, locked, onModel, counted, unabsorbed, skips, rows, stopped, open>>
          /\ \A q \in Requests \ {r} :
               pc'[q] = pc[q] /\ plan'[q] = plan[q] /\ at'[q] = at[q] /\ hold'[q] = hold[q]
      BY <1>1, <2>1 DEF Rank, record, TypeOK
    <2>4. Ranking(r)
      BY <2>2, <2>3 DEF Ranking
    <2> QED BY <2>3, <2>4 DEF Others, Kinds
  <1>2. CASE AdmitCandidate(r)
    <2>0. pc[r] = "admit" /\ open' = open
      BY <1>2 DEF AdmitCandidate
    <2>1. CASE Skip(r) /\ KeepModel
      <3>1. PassingBy(r)
        BY <2>0, <2>1, SkipIs DEF PassingBy, Freed, KeepModel
      <3>2. Others(r)
        BY <2>0, <2>1, SkipIs DEF Others, KeepModel
      <3> QED BY <3>1, <3>2 DEF Kinds
    <2>2. CASE Fall(r, "unsent") /\ KeepModel
      <3>1. Falling(r)
        BY <2>0, <2>2, FallIs DEF Falling, Freed, KeepModel
      <3>2. Others(r)
        BY <2>0, <2>2, FallIs DEF Others, KeepModel
      <3> QED BY <3>1, <3>2 DEF Kinds
    <2>3. CASE Stop(r, "refused") /\ KeepModel
      <3>1. Halting(r)
        BY <2>0, <2>3, StopIs DEF Halting, KeepModel, Awaiting
      <3>2. Others(r)
        BY <2>0, <2>3, StopIs DEF Others, KeepModel
      <3> QED BY <3>1, <3>2 DEF Kinds
    <2>4. CASE /\ Go(r, "prepare")
               /\ \/ KeepModel
                  \/ /\ onModel' = [onModel EXCEPT ![r] = @ \union {Cand(r)}]
                     /\ counted' = [counted EXCEPT ![r] = @ \union {Cand(r)}]
               /\ UNCHANGED <<plan, at, locked, hold, fate, stopped, record, bound>>
      <3>1. Admitting(r)
        BY <2>0, <2>4 DEF Admitting, Go, KeepModel, record, TypeOK
      <3>2. Others(r)
        BY <2>0, <2>4 DEF Others, Go, KeepModel, record, TypeOK
      <3> QED BY <3>1, <3>2 DEF Kinds
    <2> QED BY <1>2, <2>1, <2>2, <2>3, <2>4 DEF AdmitCandidate, Credential, Move, AdmitToModel
  <1>3. CASE Prepare(r)
    <2>0. pc[r] = "prepare"
      BY <1>3 DEF Prepare
    <2>1. CASE /\ Send(r) /\ KeepModel
               /\ IF at[r] > 1
                  THEN Go(r, "topup") /\ UNCHANGED router
                  ELSE Go(r, "run") /\ Start(r, Cand(r)) /\ UNCHANGED bound
               /\ UNCHANGED <<plan, at, locked, hold, fate, stopped>>
      <3>1. /\ rows'[r] = (rows[r] \union Absorbed(unabsorbed[r])) \union Skipped(skips[r])
            /\ unabsorbed'[r] = NoOne /\ skips'[r] = {}
            /\ \A q \in Requests \ {r} :
                 unabsorbed'[q] = unabsorbed[q] /\ skips'[q] = skips[q] /\ rows'[q] = rows[q]
        BY <2>1 DEF Send, TypeOK
      <3>2. CASE at[r] > 1
        <4>1. Sending(r)
          BY <2>0, <2>1, <3>1, <3>2 DEF Sending, Go, router, KeepModel, TypeOK
        <4>2. Others(r)
          BY <2>1, <3>1, <3>2 DEF Others, Go, router, KeepModel, TypeOK
        <4> QED BY <4>1, <4>2 DEF Kinds
      <3>3. CASE ~(at[r] > 1)
        <4>0. Watch(r) /\ \A q \in Requests \ {r} : open'[q] = open[q]
          BY <2>1, <3>3, StartIs
        <4>1. Sending(r)
          BY <2>0, <2>1, <3>1, <3>3, <4>0 DEF Sending, Go, KeepModel, TypeOK
        <4>2. Others(r)
          BY <2>1, <3>1, <3>3, <4>0 DEF Others, Go, KeepModel, TypeOK
        <4> QED BY <4>1, <4>2 DEF Kinds
      <3> QED BY <3>2, <3>3
    <2>2. CASE Skip(r) /\ DropModel(r, FALSE) /\ UNCHANGED router
      <3>1. PassingBy(r)
        BY <2>0, <2>2, SkipIs, DropIs DEF PassingBy, Freed, router
      <3>2. Others(r)
        <4>1. \A q \in Requests \ {r} : onModel'[q] = onModel[q] /\ counted'[q] = counted[q]
          BY <2>2, DropIs
        <4>2. /\ plan' = plan /\ hold' = hold /\ locked' = locked
              /\ \A q \in Requests \ {r} :
                   /\ pc'[q] = pc[q] /\ at'[q] = at[q] /\ fate'[q] = fate[q] /\ skips'[q] = skips[q]
                   /\ rows'[q] = rows[q] /\ stopped'[q] = stopped[q] /\ unabsorbed'[q] = unabsorbed[q]
          BY <2>2, SkipIs
        <4>3. \A q \in Requests \ {r} : open'[q] = open[q]
          BY <2>2 DEF router
        <4> QED BY <4>1, <4>2, <4>3 DEF Others
      <3> QED BY <3>1, <3>2 DEF Kinds
    <2>3. CASE Fall(r, "unsent") /\ DropModel(r, FALSE) /\ UNCHANGED router
      <3>1. Falling(r)
        BY <2>0, <2>3, FallIs, DropIs DEF Falling, Freed, router
      <3>2. Others(r)
        <4>1. \A q \in Requests \ {r} : onModel'[q] = onModel[q] /\ counted'[q] = counted[q]
          BY <2>3, DropIs
        <4>2. /\ plan' = plan /\ hold' = hold /\ locked' = locked
              /\ \A q \in Requests \ {r} :
                   /\ pc'[q] = pc[q] /\ at'[q] = at[q] /\ fate'[q] = fate[q] /\ skips'[q] = skips[q]
                   /\ rows'[q] = rows[q] /\ stopped'[q] = stopped[q] /\ unabsorbed'[q] = unabsorbed[q]
          BY <2>3, FallIs
        <4>3. \A q \in Requests \ {r} : open'[q] = open[q]
          BY <2>3 DEF router
        <4> QED BY <4>1, <4>2, <4>3 DEF Others
      <3> QED BY <3>1, <3>2 DEF Kinds
    <2>4. CASE Stop(r, "refused") /\ DropModel(r, FALSE) /\ UNCHANGED router
      <3>1. Halting(r)
        BY <2>0, <2>4, StopIs, DropIs DEF Halting, Awaiting, router
      <3>2. Others(r)
        <4>1. \A q \in Requests \ {r} : onModel'[q] = onModel[q] /\ counted'[q] = counted[q]
          BY <2>4, DropIs
        <4>2. /\ plan' = plan /\ hold' = hold /\ locked' = locked
              /\ \A q \in Requests \ {r} :
                   /\ pc'[q] = pc[q] /\ at'[q] = at[q] /\ fate'[q] = fate[q] /\ skips'[q] = skips[q]
                   /\ rows'[q] = rows[q] /\ stopped'[q] = stopped[q] /\ unabsorbed'[q] = unabsorbed[q]
          BY <2>4, StopIs
        <4>3. \A q \in Requests \ {r} : open'[q] = open[q]
          BY <2>4 DEF router
        <4> QED BY <4>1, <4>2, <4>3 DEF Others
      <3> QED BY <3>1, <3>2 DEF Kinds
    <2> QED BY <1>3, <2>1, <2>2, <2>3, <2>4 DEF Prepare
  <1>4. CASE TopUp(r)
    <2>0. pc[r] = "topup"
      BY <1>4 DEF TopUp
    <2>1. CASE Stop(r, "refused") /\ DropModel(r, FALSE) /\ UNCHANGED router
      <3>1. Halting(r)
        BY <2>0, <2>1, StopIs, DropIs DEF Halting, Awaiting, router
      <3>2. Others(r)
        <4>1. \A q \in Requests \ {r} : onModel'[q] = onModel[q] /\ counted'[q] = counted[q]
          BY <2>1, DropIs
        <4>2. /\ plan' = plan /\ hold' = hold /\ locked' = locked
              /\ \A q \in Requests \ {r} :
                   /\ pc'[q] = pc[q] /\ at'[q] = at[q] /\ fate'[q] = fate[q] /\ skips'[q] = skips[q]
                   /\ rows'[q] = rows[q] /\ stopped'[q] = stopped[q] /\ unabsorbed'[q] = unabsorbed[q]
          BY <2>1, StopIs
        <4>3. \A q \in Requests \ {r} : open'[q] = open[q]
          BY <2>1 DEF router
        <4> QED BY <4>1, <4>2, <4>3 DEF Others
      <3> QED BY <3>1, <3>2 DEF Kinds
    <2>2. CASE /\ Go(r, "run") /\ Start(r, Cand(r)) /\ KeepModel
               /\ hold' = [hold EXCEPT ![r] = IF @ < Need[Cand(r)] THEN Need[Cand(r)] ELSE @]
               /\ UNCHANGED <<plan, at, locked, fate, stopped, record, bound>>
      <3>1. Watch(r) /\ \A q \in Requests \ {r} : open'[q] = open[q]
        BY <2>2, StartIs
      <3>2. ToppingUp(r)
        BY <2>0, <2>2, <3>1 DEF ToppingUp, Go, KeepModel, record, TypeOK
      <3>3. Others(r)
        BY <2>2, <3>1 DEF Others, Go, KeepModel, record, TypeOK
      <3> QED BY <3>2, <3>3 DEF Kinds
    <2> QED BY <1>4, <2>1, <2>2 DEF TopUp
  <1>5. CASE LockIn(r)
    <2>1. Locking(r)
      BY <1>5 DEF LockIn, Locking, record, router
    <2>2. Others(r)
      BY <1>5 DEF LockIn, Others, record, router, TypeOK
    <2> QED BY <2>1, <2>2 DEF Kinds
  <1>6. CASE Succeed(r) \/ Unreachable(r)
    <2>0. /\ pc[r] = "run" /\ SamePlace(r) /\ SameHold(r) /\ SameLock(r) /\ SameModel(r) /\ SameRecord(r)
          /\ stopped'[r] = stopped[r]
          /\ UNCHANGED <<plan, at, locked, hold, onModel, counted, unabsorbed, skips, rows, stopped>>
      BY <1>6 DEF Succeed, Unreachable, walk, record
    <2>1. /\ pc'[r] \in {"served", "unreachable"} /\ Marked(r, pc'[r])
          /\ \A q \in Requests \ {r} : pc'[q] = pc[q] /\ fate'[q] = fate[q]
      BY <1>6 DEF Succeed, Unreachable, Go, Became, Marked, TypeOK
    <2>2. /\ Unwatch(r) \/ (pc'[r] = "served" /\ SameOpen(r))
          /\ \A q \in Requests \ {r} : open'[q] = open[q]
      <3>1. CASE open' = open /\ Succeed(r)
        BY <3>1 DEF Succeed, Go, TypeOK
      <3>2. CASE \E o \in {"success", "none"} : Finish(r, Cand(r), o)
        BY <3>2, FinishIs
      <3> QED BY <1>6, <3>1, <3>2 DEF Succeed, Unreachable
    <2>3. Ending(r)
      BY <2>0, <2>1, <2>2 DEF Ending
    <2> QED BY <2>0, <2>1, <2>2, <2>3 DEF Others, Kinds
  <1>7. CASE Cancel(r) \/ EndStream(r)
    <2>0. /\ SamePlace(r) /\ SameHold(r) /\ SameLock(r) /\ SameModel(r) /\ SameRecord(r)
          /\ stopped'[r] = stopped[r] /\ fate'[r] = fate[r]
          /\ UNCHANGED <<plan, at, locked, hold, onModel, counted, unabsorbed, skips, rows, stopped, fate>>
      BY <1>7 DEF Cancel, EndStream, walk, record
    <2>1. /\ \/ pc[r] \in Awaiting /\ pc'[r] = "cancelled"
             \/ pc[r] = "served" /\ pc'[r] = "served"
          /\ \A q \in Requests \ {r} : pc'[q] = pc[q]
      BY <1>7 DEF Cancel, EndStream, Go, TypeOK
    <2>2. Unwatch(r) /\ \A q \in Requests \ {r} : open'[q] = open[q]
      BY <1>7, FinishIs DEF Cancel, EndStream
    <2>3. Ending(r)
      BY <2>0, <2>1, <2>2 DEF Ending
    <2> QED BY <2>0, <2>1, <2>2, <2>3 DEF Others, Kinds
  <1>8. CASE FailRun(r)
    <2>0. pc[r] = "run" /\ Unwatch(r) /\ \A q \in Requests \ {r} : open'[q] = open[q]
      BY <1>8, FinishIs DEF FailRun
    <2>1. CASE ~locked[r] /\ Fall(r, "failed") /\ DropModel(r, TRUE)
      <3>1. Falling(r)
        BY <2>0, <2>1, FallIs, DropIs DEF Falling, Freed
      <3>2. Others(r)
        <4>1. \A q \in Requests \ {r} : onModel'[q] = onModel[q] /\ counted'[q] = counted[q]
          BY <2>1, DropIs
        <4>2. /\ plan' = plan /\ hold' = hold /\ locked' = locked
              /\ \A q \in Requests \ {r} :
                   /\ pc'[q] = pc[q] /\ at'[q] = at[q] /\ fate'[q] = fate[q] /\ skips'[q] = skips[q]
                   /\ rows'[q] = rows[q] /\ stopped'[q] = stopped[q] /\ unabsorbed'[q] = unabsorbed[q]
          BY <2>1, FallIs
        <4>3. \A q \in Requests \ {r} : open'[q] = open[q]
          BY <2>0
        <4> QED BY <4>1, <4>2, <4>3 DEF Others
      <3> QED BY <3>1, <3>2 DEF Kinds
    <2>2. CASE Stop(r, "failed") /\ KeepModel
      <3>1. Halting(r)
        BY <2>0, <2>2, StopIs DEF Halting, Awaiting, KeepModel
      <3>2. Others(r)
        BY <2>0, <2>2, StopIs DEF Others, KeepModel
      <3> QED BY <3>1, <3>2 DEF Kinds
    <2> QED BY <1>8, <2>1, <2>2 DEF FailRun
  <1>9. CASE RefuseRun(r)
    <2>0. pc[r] = "run" /\ Unwatch(r) /\ \A q \in Requests \ {r} : open'[q] = open[q]
      BY <1>9, FinishIs DEF RefuseRun
    <2>1. CASE Stop(r, "refused") /\ DropModel(r, FALSE)
      <3>1. Halting(r)
        BY <2>0, <2>1, StopIs, DropIs DEF Halting, Awaiting
      <3>2. Others(r)
        <4>1. \A q \in Requests \ {r} : onModel'[q] = onModel[q] /\ counted'[q] = counted[q]
          BY <2>1, DropIs
        <4>2. /\ plan' = plan /\ hold' = hold /\ locked' = locked
              /\ \A q \in Requests \ {r} :
                   /\ pc'[q] = pc[q] /\ at'[q] = at[q] /\ fate'[q] = fate[q] /\ skips'[q] = skips[q]
                   /\ rows'[q] = rows[q] /\ stopped'[q] = stopped[q] /\ unabsorbed'[q] = unabsorbed[q]
          BY <2>1, StopIs
        <4>3. \A q \in Requests \ {r} : open'[q] = open[q]
          BY <2>0
        <4> QED BY <4>1, <4>2, <4>3 DEF Others
      <3> QED BY <3>1, <3>2 DEF Kinds
    <2>2. ASSUME NEW w \in {"refused", "capped"}, Stop(r, w), KeepModel PROVE Others(r) /\ Kinds(r)
      <3>1. Halting(r)
        BY <2>0, <2>2, StopIs DEF Halting, Awaiting, KeepModel
      <3>2. Others(r)
        BY <2>0, <2>2, StopIs DEF Others, KeepModel
      <3> QED BY <3>1, <3>2 DEF Kinds
    <2> QED BY <1>9, <2>1, <2>2 DEF RefuseRun
  <1>10. CASE Conclude(r)
    <2>1. Ending(r)
      BY <1>10 DEF Conclude, Ending, Go, CloseSelection, walk, record, TypeOK
    <2>2. Others(r)
      BY <1>10 DEF Conclude, Others, Go, CloseSelection, walk, record, TypeOK
    <2> QED BY <2>1, <2>2 DEF Kinds
  <1> QED BY <1>1, <1>2, <1>3, <1>4, <1>5, <1>6, <1>7, <1>8, <1>9, <1>10 DEF Step
-----------------------------------------------------------------------------
(* A walk keeps its invariant.                                              *)

\* A walk keeps its invariant when another steps.
LEMMA FrameInv ==
  ASSUME NEW r, NEW q \in Requests \ {r}, Others(r), WalkInv(q)
  PROVE  WalkInv(q)'
  <1>1. /\ pc'[q] = pc[q] /\ plan'[q] = plan[q] /\ at'[q] = at[q] /\ fate'[q] = fate[q]
        /\ locked'[q] = locked[q] /\ hold'[q] = hold[q]
        /\ onModel'[q] = onModel[q] /\ counted'[q] = counted[q]
        /\ unabsorbed'[q] = unabsorbed[q] /\ skips'[q] = skips[q] /\ rows'[q] = rows[q]
        /\ stopped'[q] = stopped[q] /\ open'[q] = open[q]
    BY DEF Others
  <1>2. PlanInv(q)' /\ FateInv(q)' /\ CoverInv(q)' /\ ModelInv(q)' /\ OpenInv(q)'
    BY <1>1 DEF WalkInv, PlanInv, FateInv, CoverInv, ModelInv, OpenInv, Reached, Cand
  <1>3. StopInv(q)'
    BY <1>1 DEF WalkInv, StopInv, Reached, Cand, IndexOf
  <1>4. RecordInv(q)'
    BY <1>1 DEF WalkInv, RecordInv, RowInv, WentOn, Behind
  <1> QED BY <1>2, <1>3, <1>4 DEF WalkInv

\* No two candidates of a plan are the same, so what happens to the one at hand
\* happens to no other.
LEMMA NotAtHand ==
  ASSUME TypeOK, NEW r \in Requests, PlanInv(r), pc[r] # "new"
  PROVE  /\ at[r] \in 1..Len(plan[r]) /\ Cand(r) = plan[r][at[r]] /\ Cand(r) \in Candidates
         /\ \A i \in 1..Len(plan[r]) : i # at[r] => plan[r][i] # Cand(r)
         /\ \A i \in 1..at[r] : i \in 1..Len(plan[r]) /\ plan[r][i] \in Candidates
         /\ Cand(r) # NoOne
  <1>1. at[r] >= 1
    BY DEF PlanInv
  <1>2. at[r] \in 1..Len(plan[r]) /\ Cand(r) = plan[r][at[r]] /\ Cand(r) \in Candidates
    BY <1>1, CandIs
  <1>3. \A i \in 1..at[r] : i \in 1..Len(plan[r]) /\ plan[r][i] \in Candidates
    BY <1>2, PlanIs
  <1> QED BY <1>2, <1>3, WalkAssumption DEF PlanInv

\* The fate of the candidate at hand changes, and no other.
LEMMA MarkIs ==
  ASSUME TypeOK, NEW r \in Requests, NEW w, Marked(r, w)
  PROVE  \A c \in Candidates : fate'[r][c] = IF c = Cand(r) THEN w ELSE fate[r][c]
  BY DEF Marked, TypeOK

\* The same plan has the same places.
LEMMA IndexSame ==
  ASSUME NEW r \in Requests, plan'[r] = plan[r]
  PROVE  \A c : IndexOf(r, c)' = IndexOf(r, c)
  BY DEF IndexOf

\* A row is about a candidate.
LEMMA RowIs ==
  ASSUME TypeOK, NEW r \in Requests, NEW row \in rows[r]
  PROVE  row.of \in Candidates /\ row.of # NoOne /\ row.kind \in {"absorbed", "skipped"}
  BY WalkAssumption DEF TypeOK, Row

\* A walk that is not over has put the failure on nobody.
LEMMA NotStopped ==
  ASSUME NEW r, StopInv(r), pc[r] \in Awaiting \union {"new", "served"}
  PROVE  stopped[r] = NoOne
  BY DEF StopInv, Awaiting

\* Ranking the plan keeps the walk's invariant.
LEMMA RankingKeeps ==
  ASSUME TypeOK, NEW r \in Requests, WalkInv(r), Ranking(r)
  PROVE  WalkInv(r)'
  <1> DEFINE p == plan'[r]
             n == Cardinality(PlanOf[r])
  <1>0. PlanInv(r) /\ FateInv(r) /\ StopInv(r) /\ CoverInv(r) /\ ModelInv(r) /\ RecordInv(r) /\ OpenInv(r)
    BY DEF WalkInv
  <1>1. n \in Nat /\ n >= 1
    <2>1. PlanOf[r] \subseteq Candidates /\ PlanOf[r] # {}
      BY WalkAssumption
    <2>2. IsFiniteSet(PlanOf[r])
      BY <2>1, WalkAssumption, FS_Subset
    <2> QED BY <2>1, <2>2, FS_CardinalityType, FS_EmptySet
  <1>2. p \in [1..n -> PlanOf[r]] /\ PlanOf[r] \subseteq Candidates
    BY WalkAssumption DEF Ranking
  <1> HIDE DEF n
  <1>3. p \in Seq(Candidates) /\ Len(p) = n
    BY <1>1, <1>2
  <1>4. /\ pc[r] = "new" /\ pc'[r] = "admit" /\ at[r] = 0 /\ at'[r] = 1 /\ stopped[r] = NoOne
        /\ fate'[r] = fate[r] /\ stopped'[r] = stopped[r] /\ locked'[r] = locked[r]
        /\ onModel'[r] = onModel[r] /\ counted'[r] = counted[r] /\ open'[r] = open[r]
        /\ unabsorbed'[r] = unabsorbed[r] /\ skips'[r] = skips[r] /\ rows'[r] = rows[r]
        /\ hold'[r] = Need[p[1]]
    BY <1>0, NotStopped DEF Ranking, PlanInv, SameFate, SameLock, SameModel, SameRecord, SameOpen
  <1>5. Reached(r) = {} /\ 1..at[r] = {}
    BY <1>4 DEF Reached
  <1>6. \A c \in Candidates : fate[r][c] = "untried"
    BY <1>0, <1>5 DEF FateInv
  <1>7. p[1] \in Candidates /\ Cand(r)' = p[1]
    BY <1>1, <1>2, <1>4 DEF Cand
  <1> HIDE DEF p
  <1>8. PlanInv(r)'
    <2>1. \A i, j \in 1..n : i < j => p[i] # p[j]
      BY DEF Ranking, p, n
    <2>2. \A i, j \in 1..n : p[i] = p[j] => i = j
      BY <1>1, <2>1
    <2> QED BY <1>3, <1>4, <2>2 DEF PlanInv, p
  <1>9. FateInv(r)'
    <2>1. \A i \in 1..at'[r] : ~(i < at'[r])
      BY <1>4
    <2> QED BY <1>4, <1>6, <1>7, <2>1 DEF FateInv
  <1>10. StopInv(r)'
    BY <1>4 DEF StopInv
  <1>11. CoverInv(r)'
    <2>1. Need[p[1]] >= Need[p[1]] /\ ~locked[r]
      BY <1>0, <1>4, <1>7, WalkAssumption DEF CoverInv
    <2> QED BY <1>4, <2>1 DEF CoverInv, p
  <1>12. ModelInv(r)'
    <2>1. onModel[r] = {} /\ counted[r] = {}
      BY <1>0, <1>5 DEF ModelInv
    <2> QED BY <1>4, <2>1 DEF ModelInv
  <1>13. RecordInv(r)'
    <2>1. unabsorbed[r] = NoOne /\ skips[r] = {}
      BY <1>0, <1>4, <1>5 DEF RecordInv, Behind
    <2>2. rows[r] = {}
      BY <1>0, <1>4, <1>5 DEF RecordInv, RowInv, WentOn
    <2> QED BY <1>4, <2>1, <2>2 DEF RecordInv
  <1>14. OpenInv(r)'
    BY <1>0, <1>4 DEF OpenInv
  <1> QED BY <1>8, <1>9, <1>10, <1>11, <1>12, <1>13, <1>14 DEF WalkInv

\* A walk that stays in its place has the same candidates behind it.
LEMMA SamePlaceIs ==
  ASSUME NEW r, SamePlace(r)
  PROVE  /\ plan'[r] = plan[r] /\ at'[r] = at[r]
         /\ Reached(r)' = Reached(r) /\ Cand(r)' = Cand(r)
         /\ \A c : Behind(r, c)' <=> Behind(r, c)
  BY DEF SamePlace, Reached, Cand, Behind

\* The parts of the invariant that a step leaves as they are when the plan, the
\* fates and the candidate the failure is put on stay, and the walk goes on.
LEMMA StaysKept ==
  ASSUME NEW r \in Requests, WalkInv(r), SamePlace(r), SameFate(r),
         pc[r] \in Awaiting, pc'[r] \in Awaiting
  PROVE  PlanInv(r)' /\ FateInv(r)' /\ StopInv(r)'
  <1>0. PlanInv(r) /\ FateInv(r) /\ StopInv(r) /\ stopped[r] = NoOne
    BY NotStopped DEF WalkInv
  <1>1. /\ plan'[r] = plan[r] /\ at'[r] = at[r] /\ Reached(r)' = Reached(r) /\ Cand(r)' = Cand(r)
        /\ fate'[r] = fate[r] /\ stopped'[r] = stopped[r]
    BY SamePlaceIs DEF SameFate
  <1>2. pc[r] # "new" /\ pc'[r] # "new"
    BY DEF Awaiting
  <1>3. PlanInv(r)'
    BY <1>0, <1>1, <1>2 DEF PlanInv
  <1>4. FateInv(r)'
    BY <1>0, <1>1 DEF FateInv
  <1> QED BY <1>0, <1>1, <1>3, <1>4 DEF StopInv

\* A row stays true while the plan, the fates and the failure stay, unless the
\* walk takes up a candidate again.
LEMMA RowsKept ==
  ASSUME NEW r \in Requests, RecordInv(r), SamePlace(r), SameFate(r),
         pc'[r] \in {"admit", "prepare"} => pc[r] \in {"admit", "prepare"}
  PROVE  \A row \in rows[r] : RowInv(r, row)'
  <1>1. /\ plan'[r] = plan[r] /\ at'[r] = at[r] /\ fate'[r] = fate[r] /\ stopped'[r] = stopped[r]
    BY SamePlaceIs DEF SameFate
  <1>2. \A c : WentOn(r, c) => WentOn(r, c)'
    BY <1>1 DEF WentOn
  <1> QED BY <1>1, <1>2 DEF RecordInv, RowInv

\* Admitting the candidate at hand keeps it.
LEMMA AdmittingKeeps ==
  ASSUME TypeOK, NEW r \in Requests, WalkInv(r), Admitting(r)
  PROVE  WalkInv(r)'
  <1>0. PlanInv(r) /\ FateInv(r) /\ StopInv(r) /\ CoverInv(r) /\ ModelInv(r) /\ RecordInv(r) /\ OpenInv(r)
    BY DEF WalkInv
  <1>1. /\ pc[r] = "admit" /\ pc'[r] = "prepare" /\ SamePlace(r) /\ SameFate(r)
        /\ hold'[r] = hold[r] /\ locked'[r] = locked[r] /\ open'[r] = open[r]
        /\ unabsorbed'[r] = unabsorbed[r] /\ skips'[r] = skips[r] /\ rows'[r] = rows[r]
        /\ fate'[r] = fate[r] /\ stopped'[r] = stopped[r]
    BY DEF Admitting, SameHold, SameLock, SameOpen, SameRecord, SameFate
  <1>2. /\ plan'[r] = plan[r] /\ at'[r] = at[r] /\ Reached(r)' = Reached(r) /\ Cand(r)' = Cand(r)
        /\ \A c : Behind(r, c)' <=> Behind(r, c)
    BY <1>1, SamePlaceIs
  <1>3. PlanInv(r)' /\ FateInv(r)' /\ StopInv(r)'
    BY <1>1, StaysKept DEF Awaiting
  <1>4. CoverInv(r)'
    BY <1>0, <1>1, <1>2 DEF CoverInv, Early
  <1>5. ModelInv(r)'
    <2>1. Cand(r) \in Reached(r) /\ fate[r][Cand(r)] = "untried"
      BY <1>0, <1>1, CandIs DEF PlanInv, FateInv, Awaiting
    <2>2. /\ onModel'[r] \subseteq onModel[r] \union {Cand(r)}
          /\ counted'[r] \subseteq counted[r] \union {Cand(r)}
      BY DEF Admitting, SameModel
    <2> QED BY <1>0, <1>1, <1>2, <2>1, <2>2 DEF ModelInv
  <1>6. RecordInv(r)'
    <2>1. \A row \in rows[r] : RowInv(r, row)'
      BY <1>0, <1>1, RowsKept
    <2> QED BY <1>0, <1>1, <1>2, <2>1 DEF RecordInv, Awaiting
  <1>7. OpenInv(r)'
    BY <1>0, <1>1, <1>2 DEF OpenInv
  <1> QED BY <1>3, <1>4, <1>5, <1>6, <1>7 DEF WalkInv

\* The one observation is that of the candidate at hand.
LEMMA WatchIs ==
  ASSUME NEW r, OpenInv(r), Watch(r), SamePlace(r), pc[r] \in Early, pc'[r] = "run"
  PROVE  OpenInv(r)'
  <1>1. PICK b \in BOOLEAN : open'[r] = open[r] \union {[on |-> Cand(r), tracked |-> b]}
    BY DEF Watch
  <1>2. open[r] = {}
    BY DEF OpenInv, Early
  <1>3. Cand(r)' = Cand(r)
    BY SamePlaceIs
  <1> QED BY <1>1, <1>2, <1>3 DEF OpenInv

\* Topping up the reservation and starting the candidate keeps it.
LEMMA ToppingUpKeeps ==
  ASSUME TypeOK, NEW r \in Requests, WalkInv(r), ToppingUp(r)
  PROVE  WalkInv(r)'
  <1>0. PlanInv(r) /\ FateInv(r) /\ StopInv(r) /\ CoverInv(r) /\ ModelInv(r) /\ RecordInv(r) /\ OpenInv(r)
    BY DEF WalkInv
  <1>1. /\ pc[r] = "topup" /\ pc'[r] = "run" /\ SamePlace(r) /\ SameFate(r) /\ Watch(r)
        /\ locked'[r] = locked[r] /\ onModel'[r] = onModel[r] /\ counted'[r] = counted[r]
        /\ unabsorbed'[r] = unabsorbed[r] /\ skips'[r] = skips[r] /\ rows'[r] = rows[r]
        /\ fate'[r] = fate[r] /\ stopped'[r] = stopped[r]
        /\ hold'[r] = IF hold[r] < Need[Cand(r)] THEN Need[Cand(r)] ELSE hold[r]
    BY DEF ToppingUp, SameLock, SameModel, SameRecord, SameFate
  <1>2. /\ plan'[r] = plan[r] /\ at'[r] = at[r] /\ Reached(r)' = Reached(r) /\ Cand(r)' = Cand(r)
        /\ \A c : Behind(r, c)' <=> Behind(r, c)
    BY <1>1, SamePlaceIs
  <1>3. PlanInv(r)' /\ FateInv(r)' /\ StopInv(r)'
    BY <1>1, StaysKept DEF Awaiting
  <1>4. CoverInv(r)'
    <2>1. Cand(r) \in Candidates /\ Cand(r) = plan[r][at[r]]
      BY <1>0, <1>1, CandIs DEF PlanInv
    <2>2. Need[Cand(r)] \in Nat /\ hold[r] \in Nat
      BY <2>1, WalkAssumption DEF TypeOK
    <2>3. hold'[r] >= Need[Cand(r)]
      BY <1>1, <2>2
    <2>4. at'[r] = 1 => hold'[r] >= Need[plan'[r][1]]
      BY <1>2, <2>1, <2>3
    <2>5. ~locked[r]
      BY <1>0, <1>1 DEF CoverInv, Early
    <2> QED BY <1>1, <1>2, <2>3, <2>4, <2>5 DEF CoverInv
  <1>5. ModelInv(r)'
    BY <1>0, <1>1, <1>2 DEF ModelInv
  <1>6. RecordInv(r)'
    <2>1. \A row \in rows[r] : RowInv(r, row)'
      BY <1>0, <1>1, RowsKept
    <2> QED BY <1>0, <1>1, <1>2, <2>1 DEF RecordInv, Awaiting
  <1>7. OpenInv(r)'
    BY <1>0, <1>1, WatchIs DEF Early
  <1> QED BY <1>3, <1>4, <1>5, <1>6, <1>7 DEF WalkInv

\* Locking in keeps it.
LEMMA LockingKeeps ==
  ASSUME TypeOK, NEW r \in Requests, WalkInv(r), Locking(r)
  PROVE  WalkInv(r)'
  <1>0. PlanInv(r) /\ FateInv(r) /\ StopInv(r) /\ CoverInv(r) /\ ModelInv(r) /\ RecordInv(r) /\ OpenInv(r)
    BY DEF WalkInv
  <1>1. /\ pc[r] = "run" /\ pc'[r] = "run" /\ SamePlace(r) /\ SameFate(r)
        /\ hold'[r] = hold[r] /\ open'[r] = open[r]
        /\ onModel'[r] = onModel[r] /\ counted'[r] = counted[r]
        /\ unabsorbed'[r] = unabsorbed[r] /\ skips'[r] = skips[r] /\ rows'[r] = rows[r]
        /\ fate'[r] = fate[r] /\ stopped'[r] = stopped[r]
    BY DEF Locking, SameHold, SameOpen, SameModel, SameRecord, SameFate
  <1>2. /\ plan'[r] = plan[r] /\ at'[r] = at[r] /\ Reached(r)' = Reached(r) /\ Cand(r)' = Cand(r)
        /\ \A c : Behind(r, c)' <=> Behind(r, c)
    BY <1>1, SamePlaceIs
  <1>3. PlanInv(r)' /\ FateInv(r)' /\ StopInv(r)'
    BY <1>1, StaysKept DEF Awaiting
  <1>4. CoverInv(r)'
    BY <1>0, <1>1, <1>2 DEF CoverInv, Early
  <1>5. ModelInv(r)'
    BY <1>0, <1>1, <1>2 DEF ModelInv
  <1>6. RecordInv(r)'
    <2>1. \A row \in rows[r] : RowInv(r, row)'
      BY <1>0, <1>1, RowsKept
    <2> QED BY <1>0, <1>1, <1>2, <2>1 DEF RecordInv, Awaiting
  <1>7. OpenInv(r)'
    BY <1>0, <1>1, <1>2 DEF OpenInv
  <1> QED BY <1>3, <1>4, <1>5, <1>6, <1>7 DEF WalkInv

\* What was passed over is behind the candidate at hand, which is sent the
\* request now.
LEMMA SendingKeeps ==
  ASSUME TypeOK, NEW r \in Requests, WalkInv(r), Sending(r)
  PROVE  WalkInv(r)'
  <1>0. PlanInv(r) /\ FateInv(r) /\ StopInv(r) /\ CoverInv(r) /\ ModelInv(r) /\ RecordInv(r) /\ OpenInv(r)
    BY DEF WalkInv
  <1>1. /\ pc[r] = "prepare" /\ pc'[r] \in {"topup", "run"} /\ SamePlace(r) /\ SameFate(r)
        /\ hold'[r] = hold[r] /\ locked'[r] = locked[r]
        /\ onModel'[r] = onModel[r] /\ counted'[r] = counted[r]
        /\ unabsorbed'[r] = NoOne /\ skips'[r] = {}
        /\ rows'[r] = (rows[r] \union Absorbed(unabsorbed[r])) \union Skipped(skips[r])
        /\ fate'[r] = fate[r] /\ stopped'[r] = stopped[r]
    BY DEF Sending, SameHold, SameLock, SameModel, SameFate
  <1>2. /\ plan'[r] = plan[r] /\ at'[r] = at[r] /\ Reached(r)' = Reached(r) /\ Cand(r)' = Cand(r)
        /\ \A c : Behind(r, c)' <=> Behind(r, c)
    BY <1>1, SamePlaceIs
  <1>3. PlanInv(r)' /\ FateInv(r)' /\ StopInv(r)'
    BY <1>1, StaysKept DEF Awaiting
  <1>a. /\ at[r] \in 1..Len(plan[r]) /\ Cand(r) = plan[r][at[r]] /\ Cand(r) \in Candidates
        /\ at[r] \in 1..at[r]
    BY <1>0, <1>1, NotAtHand
  <1>4. CoverInv(r)'
    <2>1. pc'[r] = "run" => at[r] = 1
      BY <1>1, <1>a DEF Sending
    <2>2. ~locked[r]
      BY <1>0, <1>1 DEF CoverInv, Early
    <2> QED BY <1>0, <1>1, <1>2, <1>a, <2>1, <2>2 DEF CoverInv
  <1>5. ModelInv(r)'
    BY <1>0, <1>1, <1>2 DEF ModelInv
  <1>6. RecordInv(r)'
    <2>1. \A row \in rows[r] : RowInv(r, row)'
      BY <1>0, <1>1, RowsKept
    <2>2. fate[r][Cand(r)] = "untried" /\ stopped[r] = NoOne
      BY <1>0, <1>1, NotStopped DEF FateInv, Awaiting
    <2>3. \A c : Behind(r, c) => WentOn(r, c)'
      <3> TAKE c
      <3> HAVE Behind(r, c)
      <3>1. PICK j \in 1..at[r] : j < at[r] /\ plan[r][j] = c
        BY DEF Behind
      <3>2. fate[r][plan[r][at[r]]] = "untried"
        BY <1>a, <2>2
      <3> QED BY <1>1, <1>2, <1>a, <3>1, <3>2 DEF WentOn
    <2>4. unabsorbed[r] # NoOne => /\ Behind(r, unabsorbed[r])
                                   /\ fate[r][unabsorbed[r]] \in {"failed", "unsent"}
      BY <1>0, <1>1 DEF RecordInv, Awaiting
    <2>5. \A c \in skips[r] : Behind(r, c) /\ fate[r][c] = "skipped" /\ c # NoOne
      BY <1>0, <1>1, WalkAssumption DEF RecordInv, Awaiting, TypeOK
    <2>6. \A row \in Absorbed(unabsorbed[r]) : RowInv(r, row)'
      BY <1>1, <2>2, <2>3, <2>4 DEF Absorbed, RowInv
    <2>7. \A row \in Skipped(skips[r]) : RowInv(r, row)'
      BY <1>1, <2>2, <2>3, <2>5 DEF Skipped, RowInv
    <2> QED BY <1>1, <2>1, <2>6, <2>7 DEF RecordInv
  <1>7. OpenInv(r)'
    <2>1. CASE pc'[r] = "topup" /\ SameOpen(r)
      BY <1>0, <1>1, <2>1 DEF OpenInv, SameOpen
    <2>2. CASE pc'[r] = "run" /\ Watch(r)
      BY <1>0, <1>1, <2>2, WatchIs DEF Early
    <2> QED BY <2>1, <2>2 DEF Sending
  <1> QED BY <1>3, <1>4, <1>5, <1>6, <1>7 DEF WalkInv

\* What is recorded of a candidate stays true when the one at hand meets its
\* fate: that one was untried, so no row is about it.
LEMMA WentOnKept ==
  ASSUME TypeOK, NEW r \in Requests, WalkInv(r), pc[r] \in Awaiting,
         NEW w, Marked(r, w), w # "untried", w = "skipped" => pc[r] \in {"admit", "prepare"},
         plan'[r] = plan[r], at'[r] \in {at[r], at[r] + 1},
         NEW c, WentOn(r, c)
  PROVE  /\ WentOn(r, c)'
         /\ \E i, j \in 1..at[r] : /\ j < i /\ plan[r][j] = c
                                   /\ fate'[r][plan[r][i]] \notin {"skipped", "untried"}
                                   /\ i < at[r] => fate'[r][plan[r][i]] \in Past
  <1>0. PlanInv(r) /\ FateInv(r)
    BY DEF WalkInv
  <1>1. PICK i \in 1..at[r], j \in 1..at[r] :
             /\ j < i /\ plan[r][j] = c /\ fate[r][plan[r][i]] # "skipped"
             /\ fate[r][plan[r][i]] = "untried" => pc[r] \notin {"admit", "prepare"}
    BY DEF WentOn
  <1>2. /\ at[r] \in 1..Len(plan[r]) /\ Cand(r) = plan[r][at[r]] /\ Cand(r) \in Candidates
        /\ \A k \in 1..Len(plan[r]) : k # at[r] => plan[r][k] # Cand(r)
        /\ \A k \in 1..at[r] : k \in 1..Len(plan[r]) /\ plan[r][k] \in Candidates
    BY <1>0, NotAtHand DEF Awaiting
  <1>3. fate[r][Cand(r)] = "untried"
    BY <1>0 DEF FateInv
  <1>4. \A d \in Candidates : fate'[r][d] = IF d = Cand(r) THEN w ELSE fate[r][d]
    BY MarkIs
  <1>5. /\ fate'[r][plan[r][i]] \notin {"skipped", "untried"}
        /\ i < at[r] => fate'[r][plan[r][i]] \in Past
    <2>1. CASE i = at[r]
      BY <1>1, <1>2, <1>3, <1>4, <2>1
    <2>2. CASE i < at[r]
      <3>1. plan[r][i] # Cand(r) /\ plan[r][i] \in Candidates
        BY <1>2, <2>2
      <3>2. fate[r][plan[r][i]] \in Past
        BY <1>0, <2>2 DEF FateInv
      <3> QED BY <1>1, <1>4, <3>1, <3>2 DEF Past
    <2> QED BY <1>2, <2>1, <2>2
  <1>6. i \in 1..at'[r] /\ j \in 1..at'[r]
    BY <1>2
  <1>7. WentOn(r, c)'
    BY <1>1, <1>5, <1>6 DEF WentOn
  <1> QED BY <1>1, <1>5, <1>7

\* While a walk goes on, every row is about a candidate it went on from.
LEMMA RowsGoOn ==
  ASSUME TypeOK, NEW r \in Requests, WalkInv(r), pc[r] \in Awaiting, NEW row \in rows[r]
  PROVE  /\ WentOn(r, row.of) /\ row.of \in Candidates /\ row.of # Cand(r)
         /\ row.kind = "absorbed" => fate[r][row.of] \in {"failed", "unsent"}
         /\ row.kind = "skipped" => fate[r][row.of] = "skipped"
  <1>1. stopped[r] = NoOne /\ fate[r][Cand(r)] = "untried"
    BY NotStopped DEF WalkInv, FateInv
  <1>2. row.of \in Candidates /\ row.kind \in {"absorbed", "skipped"}
    BY RowIs
  <1>3. RowInv(r, row)
    BY DEF WalkInv, RecordInv
  <1> QED BY <1>1, <1>2, <1>3 DEF RowInv

\* After the observation of the candidate at hand none is open.
LEMMA UnwatchIs ==
  ASSUME NEW r, OpenInv(r), Unwatch(r)
  PROVE  open'[r] = {}
  BY DEF OpenInv, Unwatch

\* The candidate at hand meets its fate and the walk is over.
LEMMA FateKept ==
  ASSUME TypeOK, NEW r \in Requests, WalkInv(r), pc[r] \in Awaiting, SamePlace(r),
         NEW w, Marked(r, w), w \notin {"untried", "skipped", "unsent"},
         pc'[r] \notin Awaiting \union {"new"}
  PROVE  /\ PlanInv(r)' /\ FateInv(r)'
         /\ \A row \in rows[r] : row.of # stopped'[r] => RowInv(r, row)'
         /\ onModel'[r] \subseteq onModel[r] /\ counted'[r] \subseteq counted[r] => ModelInv(r)'
  <1>0. PlanInv(r) /\ FateInv(r) /\ ModelInv(r)
    BY DEF WalkInv
  <1>1. /\ plan'[r] = plan[r] /\ at'[r] = at[r] /\ Reached(r)' = Reached(r) /\ Cand(r)' = Cand(r)
    BY SamePlaceIs
  <1>2. /\ at[r] \in 1..Len(plan[r]) /\ Cand(r) = plan[r][at[r]] /\ Cand(r) \in Candidates
        /\ \A k \in 1..Len(plan[r]) : k # at[r] => plan[r][k] # Cand(r)
        /\ \A k \in 1..at[r] : k \in 1..Len(plan[r]) /\ plan[r][k] \in Candidates
        /\ Cand(r) \in Reached(r) /\ Reached(r) \subseteq Candidates
    BY <1>0, NotAtHand, CandIs, PlanIs DEF Awaiting
  <1>3. \A d \in Candidates : fate'[r][d] = IF d = Cand(r) THEN w ELSE fate[r][d]
    BY MarkIs
  <1>4. PlanInv(r)'
    BY <1>0, <1>1, <1>2 DEF PlanInv, Awaiting
  <1>5. FateInv(r)'
    <2>1. \A c \in Candidates : c \notin Reached(r) => fate'[r][c] = "untried"
      BY <1>0, <1>2, <1>3 DEF FateInv
    <2>2. \A k \in 1..at[r] : k < at[r] => fate'[r][plan[r][k]] \in Past
      <3> TAKE k \in 1..at[r]
      <3> HAVE k < at[r]
      <3>1. plan[r][k] \in Candidates /\ plan[r][k] # Cand(r)
        BY <1>2
      <3> QED BY <1>0, <1>3, <3>1 DEF FateInv
    <2> QED BY <1>1, <2>1, <2>2 DEF FateInv
  <1>6. \A row \in rows[r] : row.of # stopped'[r] => RowInv(r, row)'
    <2> TAKE row \in rows[r]
    <2>1. /\ WentOn(r, row.of) /\ row.of \in Candidates /\ row.of # Cand(r)
          /\ row.kind = "absorbed" => fate[r][row.of] \in {"failed", "unsent"}
          /\ row.kind = "skipped" => fate[r][row.of] = "skipped"
      BY RowsGoOn
    <2>2. WentOn(r, row.of)'
      BY <1>1, <2>1, WentOnKept
    <2> QED BY <1>3, <2>1, <2>2 DEF RowInv
  <1>7. onModel'[r] \subseteq onModel[r] /\ counted'[r] \subseteq counted[r] => ModelInv(r)'
    <2> HAVE onModel'[r] \subseteq onModel[r] /\ counted'[r] \subseteq counted[r]
    <2>1. pc[r] # "new" /\ pc'[r] # "admit"
      BY DEF Awaiting
    <2>2. fate'[r][Cand(r)] = w
      BY <1>2, <1>3
    <2>3. \A c \in counted'[r] \ {Cand(r)} : fate'[r][c] = "failed"
      BY <1>0, <1>2, <1>3, <2>1 DEF ModelInv
    <2> QED BY <1>0, <1>1, <2>1, <2>2, <2>3 DEF ModelInv
  <1> QED BY <1>4, <1>5, <1>6, <1>7

\* Stopping at the candidate at hand keeps it.
LEMMA HaltingKeeps ==
  ASSUME TypeOK, NEW r \in Requests, WalkInv(r), Halting(r)
  PROVE  WalkInv(r)'
  <1>0. PlanInv(r) /\ FateInv(r) /\ StopInv(r) /\ CoverInv(r) /\ ModelInv(r) /\ RecordInv(r) /\ OpenInv(r)
    BY DEF WalkInv
  <1>1. PICK w \in {"refused", "capped", "failed"} :
        /\ pc[r] \in Awaiting /\ pc'[r] = "stopped" /\ stopped'[r] = Cand(r)
        /\ Marked(r, w) /\ SamePlace(r) /\ SameHold(r) /\ SameLock(r) /\ SameRecord(r)
        /\ onModel'[r] \subseteq onModel[r] /\ counted'[r] \subseteq counted[r]
        /\ (pc[r] # "run" /\ SameOpen(r)) \/ (pc[r] = "run" /\ Unwatch(r))
    BY DEF Halting
  <1>2. /\ plan'[r] = plan[r] /\ at'[r] = at[r] /\ Reached(r)' = Reached(r) /\ Cand(r)' = Cand(r)
    BY <1>1, SamePlaceIs
  <1>3. pc'[r] \notin Awaiting \union {"new"} /\ w \notin {"untried", "skipped", "unsent"}
    BY <1>1 DEF Awaiting
  <1>4. /\ PlanInv(r)' /\ FateInv(r)' /\ ModelInv(r)'
        /\ \A row \in rows[r] : row.of # stopped'[r] => RowInv(r, row)'
    BY <1>1, <1>3, FateKept
  <1>a. /\ at[r] \in 1..Len(plan[r]) /\ Cand(r) = plan[r][at[r]] /\ Cand(r) \in Candidates
        /\ \A k \in 1..at[r] : k \in 1..Len(plan[r]) /\ plan[r][k] \in Candidates
        /\ Cand(r) \in Reached(r)
    BY <1>0, <1>1, NotAtHand, CandIs DEF Awaiting
  <1>5. CoverInv(r)'
    BY <1>0, <1>1, <1>2 DEF CoverInv, SameHold, SameLock, Early
  <1>6. StopInv(r)'
    <2>1. fate'[r][Cand(r)] = w
      BY <1>1, <1>a, MarkIs
    <2>2. \A c \in Failures(fate'[r]) : IndexOf(r, c) <= IndexOf(r, Cand(r))
      <3> TAKE c \in Failures(fate'[r])
      <3>1. c \in Reached(r)
        BY <1>2, <1>4 DEF Failures, FateInv
      <3>2. PICK k \in 1..at[r] : plan[r][k] = c
        BY <3>1 DEF Reached
      <3>3. IndexOf(r, c) = k /\ IndexOf(r, Cand(r)) = at[r]
        BY <1>0, <1>a, <3>2, IndexIs
      <3> QED BY <1>a, <3>3
    <2>3. \A c : IndexOf(r, c)' = IndexOf(r, c)
      BY <1>2, IndexSame
    <2> HIDE DEF IndexOf
    <2> QED BY <1>1, <1>2, <1>a, <2>1, <2>2, <2>3 DEF StopInv
  <1>7. RecordInv(r)'
    <2>1. \A row \in rows[r] : row.of # Cand(r)
      BY <1>1, RowsGoOn
    <2> QED BY <1>1, <1>3, <1>4, <2>1 DEF RecordInv, SameRecord
  <1>8. OpenInv(r)'
    <2>1. open'[r] = {}
      BY <1>0, <1>1, UnwatchIs DEF OpenInv, SameOpen, Awaiting
    <2> QED BY <2>1 DEF OpenInv
  <1> QED BY <1>4, <1>5, <1>6, <1>7, <1>8 DEF WalkInv

\* Being served, cancelled or unreachable keeps it.
LEMMA EndingKeeps ==
  ASSUME TypeOK, NEW r \in Requests, WalkInv(r), Ending(r)
  PROVE  WalkInv(r)'
  <1>0. PlanInv(r) /\ FateInv(r) /\ StopInv(r) /\ CoverInv(r) /\ ModelInv(r) /\ RecordInv(r) /\ OpenInv(r)
    BY DEF WalkInv
  <1>1. /\ SamePlace(r) /\ hold'[r] = hold[r] /\ locked'[r] = locked[r] /\ stopped'[r] = stopped[r]
        /\ onModel'[r] = onModel[r] /\ counted'[r] = counted[r] /\ rows'[r] = rows[r]
        /\ pc[r] # "new" /\ pc'[r] \notin Awaiting \union {"new"}
    BY DEF Ending, SameHold, SameLock, SameModel, SameRecord, Awaiting, Ended
  <1>2. /\ plan'[r] = plan[r] /\ at'[r] = at[r] /\ Reached(r)' = Reached(r) /\ Cand(r)' = Cand(r)
    BY <1>1, SamePlaceIs
  <1>3. CoverInv(r)'
    BY <1>0, <1>1, <1>2 DEF CoverInv, Early, Awaiting
  <1>4. OpenInv(r)'
    <2>1. Unwatch(r) => open'[r] = {}
      BY <1>0, UnwatchIs
    <2>2. open'[r] = {} \/ (pc'[r] = "served" /\ open'[r] = open[r])
      BY <2>1 DEF Ending, SameOpen
    <2> QED BY <1>0, <1>2, <2>2 DEF OpenInv
  <1>5. CASE fate'[r] = fate[r]
    <2>1. PlanInv(r)' /\ FateInv(r)'
      BY <1>0, <1>1, <1>2, <1>5 DEF PlanInv, FateInv
    <2>2. ModelInv(r)'
      BY <1>0, <1>1, <1>2, <1>5 DEF ModelInv, Awaiting
    <2>3. stopped[r] # NoOne => pc'[r] \in {"stopped", "finished"}
      <3>1. pc[r] \in Awaiting \union {"served"} => stopped[r] = NoOne
        BY <1>0, NotStopped
      <3>2. pc'[r] = "finished" \/ pc[r] \in Awaiting \union {"served"}
        BY DEF Ending, Awaiting
      <3> QED BY <3>1, <3>2
    <2>4. StopInv(r)'
      <3>1. \A c : IndexOf(r, c)' = IndexOf(r, c)
        BY <1>2, IndexSame
      <3> HIDE DEF IndexOf
      <3> QED BY <1>0, <1>1, <1>2, <1>5, <2>3, <3>1 DEF StopInv
    <2>5. RecordInv(r)'
      <3>1. \A row \in rows[r] : RowInv(r, row)'
        BY <1>0, <1>1, <1>5, RowsKept DEF SameFate, Awaiting
      <3> QED BY <1>1, <3>1 DEF RecordInv
    <2> QED BY <1>3, <1>4, <2>1, <2>2, <2>4, <2>5 DEF WalkInv
  <1>6. CASE pc[r] = "run" /\ pc'[r] \in {"served", "unreachable"} /\ Marked(r, pc'[r])
    <2>1. pc[r] \in Awaiting /\ pc'[r] \notin {"untried", "skipped", "unsent"}
      BY <1>6 DEF Awaiting
    <2>2. stopped[r] = NoOne
      BY <1>0, <2>1, NotStopped
    <2>3. /\ PlanInv(r)' /\ FateInv(r)'
          /\ \A row \in rows[r] : row.of # stopped'[r] => RowInv(r, row)'
          /\ onModel'[r] \subseteq onModel[r] /\ counted'[r] \subseteq counted[r] => ModelInv(r)'
      BY <1>1, <1>6, <2>1, FateKept
    <2>4. ModelInv(r)'
      BY <1>1, <2>3
    <2>5. RecordInv(r)'
      <3>1. \A row \in rows[r] : row.of # NoOne
        BY RowIs
      <3> QED BY <1>1, <2>2, <2>3, <3>1 DEF RecordInv
    <2>6. StopInv(r)'
      BY <1>1, <2>2 DEF StopInv
    <2> QED BY <1>3, <1>4, <2>3, <2>4, <2>5, <2>6 DEF WalkInv
  <1> QED BY <1>5, <1>6 DEF Ending

\* The candidate at hand is passed over, or failed, and the walk goes on: to
\* the next candidate of the plan or to its end.
Passing(r, w, u) ==
    /\ pc[r] \in {"admit", "prepare", "run"} /\ Freed(r) /\ w \in Past
    /\ w = "failed" <=> pc[r] = "run"
    /\ u = skips[r] \/ (w = "skipped" /\ u = skips[r] \union {Cand(r)})
    /\ Marked(r, w) /\ Onward(r, u)
    /\ unabsorbed'[r] = unabsorbed[r] \/ (w # "skipped" /\ unabsorbed'[r] = Cand(r))
    /\ plan'[r] = plan[r] /\ hold'[r] = hold[r] /\ locked'[r] = locked[r]

\* What is known of a walk that passes over its candidate.
LEMMA PassingIs ==
  ASSUME TypeOK, NEW r \in Requests, WalkInv(r), NEW w, NEW u, Passing(r, w, u)
  PROVE  /\ pc[r] \in Awaiting /\ pc[r] # "new" /\ ~locked[r] /\ stopped[r] = NoOne
         /\ at[r] \in 1..Len(plan[r]) /\ Cand(r) = plan[r][at[r]] /\ Cand(r) \in Candidates
         /\ \A k \in 1..Len(plan[r]) : k # at[r] => plan[r][k] # Cand(r)
         /\ \A k \in 1..at[r] : k \in 1..Len(plan[r]) /\ plan[r][k] \in Candidates
         /\ Cand(r) # NoOne /\ Cand(r) \in Reached(r) /\ Reached(r) \subseteq Candidates
         /\ fate[r][Cand(r)] = "untried"
         /\ \A d \in Candidates : fate'[r][d] = IF d = Cand(r) THEN w ELSE fate[r][d]
  <1>0. PlanInv(r) /\ FateInv(r) /\ StopInv(r) /\ CoverInv(r)
    BY DEF WalkInv
  <1>1. pc[r] \in Awaiting /\ pc[r] # "new"
    BY DEF Passing, Awaiting
  <1>2. ~locked[r]
    BY <1>0 DEF Passing, Freed, CoverInv, Early
  <1>3. Cand(r) \in Reached(r) /\ Reached(r) \subseteq Candidates
    BY <1>0, <1>1, CandIs, PlanIs DEF PlanInv
  <1>4. \A d \in Candidates : fate'[r][d] = IF d = Cand(r) THEN w ELSE fate[r][d]
    BY MarkIs DEF Passing
  <1>5. fate[r][Cand(r)] = "untried" /\ stopped[r] = NoOne
    BY <1>0, <1>1, NotStopped DEF FateInv
  <1>6. /\ at[r] \in 1..Len(plan[r]) /\ Cand(r) = plan[r][at[r]] /\ Cand(r) \in Candidates
        /\ \A k \in 1..Len(plan[r]) : k # at[r] => plan[r][k] # Cand(r)
        /\ \A k \in 1..at[r] : k \in 1..Len(plan[r]) /\ plan[r][k] \in Candidates
        /\ Cand(r) # NoOne
    BY <1>0, <1>1, NotAtHand
  <1> QED BY <1>1, <1>2, <1>3, <1>4, <1>5, <1>6

\* What a walk that goes on has met so far, and what it holds.
LEMMA PassedIs ==
  ASSUME TypeOK, NEW r \in Requests, WalkInv(r), NEW w, NEW u, Passing(r, w, u)
  PROVE  /\ \A c \in Candidates : c \notin Reached(r) => fate'[r][c] = "untried"
         /\ \A k \in 1..at[r] : fate'[r][plan[r][k]] \in Past
         /\ onModel'[r] = {} /\ counted'[r] \subseteq counted[r]
         /\ \A c \in counted'[r] : fate'[r][c] = "failed"
         /\ open'[r] = {}
  <1>0. PlanInv(r) /\ FateInv(r) /\ ModelInv(r) /\ OpenInv(r)
    BY DEF WalkInv
  <1>1. /\ pc[r] # "new" /\ Cand(r) \in Candidates /\ Cand(r) \in Reached(r)
        /\ \A d \in Candidates : fate'[r][d] = IF d = Cand(r) THEN w ELSE fate[r][d]
        /\ Reached(r) \subseteq Candidates
    BY PassingIs
  <1>2. \A c \in Candidates : c \notin Reached(r) => fate'[r][c] = "untried"
    BY <1>0, <1>1 DEF FateInv
  <1>3. \A k \in 1..at[r] : fate'[r][plan[r][k]] \in Past
    <2> TAKE k \in 1..at[r]
    <2>1. plan[r][k] \in Candidates /\ at[r] \in 1..Len(plan[r]) /\ Cand(r) = plan[r][at[r]] /\ w \in Past
      BY PassingIs DEF Passing
    <2>2. CASE k = at[r]
      BY <1>1, <2>1, <2>2
    <2>3. CASE k < at[r]
      BY <1>0, <1>1, <2>1, <2>3 DEF FateInv
    <2> QED BY <2>1, <2>2, <2>3
  <1>4. onModel'[r] = {} /\ counted'[r] \subseteq counted[r] /\ (Cand(r) \in counted'[r] => w = "failed")
    <2>1. onModel[r] \subseteq {Cand(r)} /\ (pc[r] = "admit" => Cand(r) \notin onModel[r] \union counted[r])
      BY <1>0, <1>1 DEF ModelInv
    <2> QED BY <2>1 DEF Passing, Freed, SameModel
  <1>5. \A c \in counted'[r] : fate'[r][c] = "failed"
    <2> TAKE c \in counted'[r]
    <2>1. c \in Candidates /\ (c # Cand(r) => fate[r][c] = "failed")
      BY <1>0, <1>1, <1>4 DEF ModelInv
    <2> QED BY <1>1, <1>4, <2>1
  <1>6. open'[r] = {}
    <2>1. pc[r] # "run" => open[r] = {}
      BY <1>0 DEF OpenInv, Passing
    <2> QED BY <1>0, <2>1, UnwatchIs DEF Passing, Freed, SameOpen
  <1> QED BY <1>2, <1>3, <1>4, <1>5, <1>6

\* What is recorded, and still to record, when the walk goes on.
LEMMA PassedRecords ==
  ASSUME TypeOK, NEW r \in Requests, WalkInv(r), NEW w, NEW u, Passing(r, w, u)
  PROVE  /\ \A c \in u : c \in Candidates /\ fate'[r][c] = "skipped" /\ \E j \in 1..at[r] : plan[r][j] = c
         /\ unabsorbed'[r] # NoOne =>
              /\ fate'[r][unabsorbed'[r]] \in {"failed", "unsent"}
              /\ \E j \in 1..at[r] : plan[r][j] = unabsorbed'[r]
         /\ \A row \in rows[r] :
              /\ row.kind = "absorbed" => fate'[r][row.of] \in {"failed", "unsent"}
              /\ row.kind = "skipped" => fate'[r][row.of] = "skipped"
              /\ row.of # NoOne /\ WentOn(r, row.of)'
              /\ \E i, j \in 1..at[r] : /\ j < i /\ plan[r][j] = row.of
                                        /\ fate'[r][plan[r][i]] \in {"failed", "unsent"}
  <1>0. RecordInv(r)
    BY DEF WalkInv
  <1>1. /\ pc[r] \in Awaiting /\ Cand(r) \in Candidates /\ fate[r][Cand(r)] = "untried"
        /\ at[r] \in 1..Len(plan[r]) /\ Cand(r) = plan[r][at[r]] /\ at[r] \in 1..at[r]
        /\ \A d \in Candidates : fate'[r][d] = IF d = Cand(r) THEN w ELSE fate[r][d]
    BY PassingIs
  <1>2. \A c \in u : c \in Candidates /\ fate'[r][c] = "skipped" /\ \E j \in 1..at[r] : plan[r][j] = c
    <2>1. \A c \in skips[r] : c \in Candidates /\ Behind(r, c) /\ fate[r][c] = "skipped"
      BY <1>0, <1>1 DEF RecordInv, TypeOK
    <2>2. \A c \in skips[r] : fate'[r][c] = "skipped" /\ \E j \in 1..at[r] : plan[r][j] = c
      BY <1>1, <2>1 DEF Behind
    <2>3. CASE u = skips[r]
      BY <2>1, <2>2, <2>3
    <2>4. CASE w = "skipped" /\ u = skips[r] \union {Cand(r)}
      BY <1>1, <2>1, <2>2, <2>4
    <2> QED BY <2>3, <2>4 DEF Passing
  <1>3. unabsorbed'[r] # NoOne =>
              /\ fate'[r][unabsorbed'[r]] \in {"failed", "unsent"}
              /\ \E j \in 1..at[r] : plan[r][j] = unabsorbed'[r]
    <2>1. CASE w # "skipped" /\ unabsorbed'[r] = Cand(r)
      BY <1>1, <2>1 DEF Passing, Past
    <2>2. CASE unabsorbed'[r] = unabsorbed[r]
      <3>1. unabsorbed[r] # NoOne => /\ unabsorbed[r] \in Candidates /\ Behind(r, unabsorbed[r])
                                     /\ fate[r][unabsorbed[r]] \in {"failed", "unsent"}
        BY <1>0, <1>1 DEF RecordInv, TypeOK
      <3> QED BY <1>1, <2>2, <3>1 DEF Behind
    <2> QED BY <2>1, <2>2 DEF Passing
  <1>4. ASSUME NEW row \in rows[r]
        PROVE  /\ row.kind = "absorbed" => fate'[r][row.of] \in {"failed", "unsent"}
               /\ row.kind = "skipped" => fate'[r][row.of] = "skipped"
               /\ row.of # NoOne /\ WentOn(r, row.of)'
               /\ \E i, j \in 1..at[r] : /\ j < i /\ plan[r][j] = row.of
                                         /\ fate'[r][plan[r][i]] \in {"failed", "unsent"}
    <2>1. /\ WentOn(r, row.of) /\ row.of \in Candidates /\ row.of # Cand(r)
          /\ row.kind = "absorbed" => fate[r][row.of] \in {"failed", "unsent"}
          /\ row.kind = "skipped" => fate[r][row.of] = "skipped"
      BY <1>1, RowsGoOn
    <2>2. /\ Marked(r, w) /\ w # "untried" /\ (w = "skipped" => pc[r] \in {"admit", "prepare"})
          /\ plan'[r] = plan[r] /\ at'[r] \in {at[r], at[r] + 1}
      BY DEF Passing, Past, Onward
    <2>3. /\ WentOn(r, row.of)'
          /\ \E i, j \in 1..at[r] : /\ j < i /\ plan[r][j] = row.of
                                    /\ fate'[r][plan[r][i]] \notin {"skipped", "untried"}
      BY <1>1, <2>1, <2>2, WentOnKept
    <2>4. \A k \in 1..at[r] : fate'[r][plan[r][k]] \in Past
      BY PassedIs
    <2>5. \E i, j \in 1..at[r] : /\ j < i /\ plan[r][j] = row.of
                                 /\ fate'[r][plan[r][i]] \in {"failed", "unsent"}
      BY <2>3, <2>4 DEF Past
    <2>6. row.of # NoOne
      BY RowIs
    <2> QED BY <1>1, <2>1, <2>3, <2>5, <2>6
  <1> QED BY <1>2, <1>3, <1>4

\* Going on to the next candidate keeps the invariant.
LEMMA NextKeeps ==
  ASSUME TypeOK, NEW r \in Requests, WalkInv(r), NEW w, NEW u, Passing(r, w, u),
         at[r] # Len(plan[r]), at'[r] = at[r] + 1, pc'[r] = "admit",
         skips'[r] = u, stopped'[r] = stopped[r], rows'[r] = rows[r]
  PROVE  WalkInv(r)'
  <1>0. PlanInv(r) /\ CoverInv(r) /\ ModelInv(r) /\ plan'[r] = plan[r]
    BY DEF WalkInv, Passing
  <1> DEFINE n == at[r] + 1
             e == plan[r][n]
  <1>1. at[r] \in Nat /\ at[r] >= 1 /\ n \in Nat /\ n \in 1..Len(plan[r]) /\ at[r] \in 1..Len(plan[r])
    BY PassingIs, PlanIs
  <1>2. n # at[r] /\ at[r] < n /\ 1..at[r] \subseteq 1..n /\ \A k \in 1..n : k < n => k \in 1..at[r]
    BY <1>1
  <1>3. n # 1
    BY <1>1
  <1>4. Cand(r)' = e /\ e \in Candidates
    BY <1>0, <1>1, PlanIs DEF Cand
  <1>5. e \notin Reached(r) /\ Reached(r) \subseteq Reached(r)'
    <2>1. \A k \in 1..at[r] : plan[r][k] # e
      <3> TAKE k \in 1..at[r]
      <3>1. k \in 1..Len(plan[r]) /\ k # n
        BY <1>1
      <3> QED BY <1>0, <1>1, <3>1 DEF PlanInv
    <2> QED BY <1>0, <1>2, <2>1 DEF Reached
  <1> HIDE DEF n, e
  <1>6. at'[r] = n
    BY DEF n
  <1>7. /\ \A c \in Candidates : c \notin Reached(r) => fate'[r][c] = "untried"
        /\ \A k \in 1..at[r] : fate'[r][plan[r][k]] \in Past
        /\ onModel'[r] = {} /\ counted'[r] \subseteq counted[r]
        /\ \A c \in counted'[r] : fate'[r][c] = "failed"
        /\ open'[r] = {}
    BY PassedIs
  <1>8. PlanInv(r)'
    BY <1>0, <1>1, <1>6 DEF PlanInv
  <1>9. FateInv(r)'
    <2>1. fate'[r][e] = "untried"
      BY <1>4, <1>5, <1>7
    <2>2. \A k \in 1..n : k < n => fate'[r][plan[r][k]] \in Past
      BY <1>2, <1>7
    <2> QED BY <1>0, <1>4, <1>5, <1>6, <1>7, <2>1, <2>2 DEF FateInv
  <1>10. StopInv(r)'
    BY PassingIs DEF StopInv
  <1>11. CoverInv(r)'
    BY <1>3, <1>6, PassingIs DEF CoverInv, Passing
  <1>12. ModelInv(r)'
    <2>1. counted'[r] \subseteq Reached(r) /\ e \notin counted'[r]
      BY <1>0, <1>5, <1>7 DEF ModelInv
    <2> QED BY <1>4, <1>5, <1>7, <2>1 DEF ModelInv
  <1>13. RecordInv(r)'
    <2>1. \A c : (\E j \in 1..at[r] : plan[r][j] = c) => Behind(r, c)'
      BY <1>0, <1>1, <1>2, <1>6 DEF Behind
    <2>2. /\ \A c \in u : fate'[r][c] = "skipped" /\ \E j \in 1..at[r] : plan[r][j] = c
          /\ unabsorbed'[r] # NoOne =>
              /\ fate'[r][unabsorbed'[r]] \in {"failed", "unsent"}
              /\ \E j \in 1..at[r] : plan[r][j] = unabsorbed'[r]
      BY PassedRecords
    <2>3. \A row \in rows[r] :
              /\ row.kind = "absorbed" => fate'[r][row.of] \in {"failed", "unsent"}
              /\ row.kind = "skipped" => fate'[r][row.of] = "skipped"
              /\ row.of # NoOne /\ WentOn(r, row.of)'
      BY PassedRecords
    <2>4. stopped'[r] = NoOne
      BY PassingIs
    <2>5. \A row \in rows[r] : RowInv(r, row)'
      BY <2>3, <2>4 DEF RowInv
    <2> QED BY <2>1, <2>2, <2>5 DEF RecordInv
  <1>14. OpenInv(r)'
    BY <1>7 DEF OpenInv
  <1> QED BY <1>8, <1>9, <1>10, <1>11, <1>12, <1>13, <1>14 DEF WalkInv

\* The plan is exhausted: the failure is put on s, and the rows of the skips
\* not yet recorded are written when a candidate failed.
LEMMA LastKeeps ==
  ASSUME TypeOK, NEW r \in Requests, WalkInv(r), NEW w, NEW u, Passing(r, w, u),
         at'[r] = at[r], pc'[r] = "stopped", NEW s, stopped'[r] = s,
         s \in Candidates, s \in Reached(r),
         \/ fate'[r][s] = "skipped" /\ Failures(fate'[r]) = {} /\ rows'[r] = rows[r]
         \/ /\ fate'[r][s] \in {"failed", "unsent"} /\ rows'[r] = rows[r] \union Skipped(u)
            /\ \A d \in Failures(fate'[r]) : IndexOf(r, d) <= IndexOf(r, s)
  PROVE  WalkInv(r)'
  <1>0. PlanInv(r) /\ FateInv(r) /\ CoverInv(r) /\ ModelInv(r) /\ SamePlace(r)
    BY DEF WalkInv, Passing, SamePlace
  <1>1. plan'[r] = plan[r] /\ Reached(r)' = Reached(r) /\ Cand(r)' = Cand(r)
    BY <1>0, SamePlaceIs
  <1>2. /\ \A c \in Candidates : c \notin Reached(r) => fate'[r][c] = "untried"
        /\ \A k \in 1..at[r] : fate'[r][plan[r][k]] \in Past
        /\ onModel'[r] = {} /\ counted'[r] \subseteq counted[r]
        /\ \A c \in counted'[r] : fate'[r][c] = "failed"
        /\ open'[r] = {}
    BY PassedIs
  <1>3. pc[r] # "new" /\ at[r] \in 1..Len(plan[r]) /\ at[r] >= 1 /\ s # NoOne /\ ~locked[r]
    BY PassingIs, WalkAssumption
  <1>4. PlanInv(r)'
    BY <1>0, <1>1, <1>3 DEF PlanInv
  <1>5. FateInv(r)'
    BY <1>1, <1>2 DEF FateInv, Awaiting
  <1>6. StopInv(r)'
    <2>1. \A c : IndexOf(r, c)' = IndexOf(r, c)
      BY <1>1, IndexSame
    <2> HIDE DEF IndexOf
    <2> QED BY <1>1, <2>1 DEF StopInv
  <1>7. CoverInv(r)'
    BY <1>0, <1>1, <1>3 DEF CoverInv, Passing
  <1>8. ModelInv(r)'
    <2>1. \A c \in counted'[r] : c \in Reached(r)
      BY <1>0, <1>2 DEF ModelInv
    <2>2. Cand(r) \in counted'[r] => fate'[r][Cand(r)] = "failed"
      BY <1>2
    <2> QED BY <1>1, <1>2, <2>1, <2>2 DEF ModelInv
  <1>9. RecordInv(r)'
    <2>1. ASSUME NEW row \in rows[r] PROVE RowInv(r, row)'
      <3>1. /\ row.kind = "absorbed" => fate'[r][row.of] \in {"failed", "unsent"}
            /\ row.kind = "skipped" => fate'[r][row.of] = "skipped"
            /\ WentOn(r, row.of)'
            /\ \E i, j \in 1..at[r] : /\ j < i /\ plan[r][j] = row.of
                                      /\ fate'[r][plan[r][i]] \in {"failed", "unsent"}
        BY PassedRecords
      <3>2. PICK i \in 1..at[r], j \in 1..at[r] :
                  /\ j < i /\ plan[r][j] = row.of
                  /\ fate'[r][plan[r][i]] \in {"failed", "unsent"}
        BY <3>1
      <3>3. /\ i \in 1..Len(plan[r]) /\ j \in 1..Len(plan[r])
            /\ plan[r][i] \in Candidates
        BY PassingIs
      <3>4. plan[r][i] \in Failures(fate'[r])
        BY <3>2, <3>3 DEF Failures
      <3>5. IndexOf(r, plan[r][i]) = i /\ IndexOf(r, row.of) = j
        BY <1>0, <3>2, <3>3, IndexIs
      <3>6. row.of # s
        <4> HIDE DEF IndexOf
        <4>1. SUFFICES ASSUME row.of = s PROVE FALSE
          OBVIOUS
        <4>2. IndexOf(r, plan[r][i]) <= IndexOf(r, s)
          BY <3>4
        <4> QED BY <3>2, <3>5, <4>1, <4>2
      <3> QED BY <3>1, <3>6 DEF RowInv
    <2>2. ASSUME NEW row \in Skipped(u), fate'[r][s] # "skipped" PROVE RowInv(r, row)'
      <3>1. PICK c \in u : row = [kind |-> "skipped", of |-> c]
        BY DEF Skipped
      <3>2. fate'[r][c] = "skipped"
        BY PassedRecords
      <3> QED BY <1>3, <2>2, <3>1, <3>2 DEF RowInv
    <2>3. \A row \in rows'[r] : RowInv(r, row)'
      BY <2>1, <2>2
    <2> QED BY <2>3 DEF RecordInv, Awaiting
  <1>10. OpenInv(r)'
    BY <1>2 DEF OpenInv
  <1> QED BY <1>4, <1>5, <1>6, <1>7, <1>8, <1>9, <1>10 DEF WalkInv

\* Passing over a candidate keeps it, also at the end of the plan.
LEMMA PassingKeeps ==
  ASSUME TypeOK, NEW r \in Requests, WalkInv(r), NEW w, NEW u, Passing(r, w, u)
  PROVE  WalkInv(r)'
  <1>1. \A c \in Candidates : c \notin Reached(r) => fate'[r][c] = "untried"
    BY PassedIs
  <1>2. CASE at[r] # Len(plan[r])
    <2>1. /\ at'[r] = at[r] + 1 /\ pc'[r] = "admit"
          /\ skips'[r] = u /\ stopped'[r] = stopped[r] /\ rows'[r] = rows[r]
      BY <1>2 DEF Passing, Onward
    <2> QED BY <1>2, <2>1, NextKeeps
  <1>3. CASE at[r] = Len(plan[r]) /\ Failures(fate'[r]) = {}
    <2>1. /\ at'[r] = at[r] /\ pc'[r] = "stopped" /\ rows'[r] = rows[r]
          /\ stopped'[r] \in Refusals(fate'[r])
      BY <1>3 DEF Passing, Onward
    <2>2. stopped'[r] \in Candidates /\ fate'[r][stopped'[r]] = "skipped" /\ stopped'[r] \in Reached(r)
      BY <1>1, <2>1 DEF Refusals
    <2> QED BY <1>3, <2>1, <2>2, LastKeeps
  <1>4. CASE at[r] = Len(plan[r]) /\ Failures(fate'[r]) # {}
    <2> DEFINE F == Failures(fate'[r])
               s == LastOf(r, F)
    <2>1. /\ at'[r] = at[r] /\ pc'[r] = "stopped" /\ stopped'[r] = s
          /\ rows'[r] = rows[r] \union Skipped(u)
      BY <1>4 DEF Passing, Onward
    <2>2. F # {} /\ F \subseteq Reached(r) /\ F \subseteq Candidates
      BY <1>1, <1>4 DEF Failures
    <2> HIDE DEF F
    <2>3. s \in F /\ \A d \in F : IndexOf(r, d) <= IndexOf(r, s)
      BY <2>2, LastOfIs DEF WalkInv
    <2> HIDE DEF s
    <2>4. s \in Candidates /\ s \in Reached(r) /\ fate'[r][s] \in {"failed", "unsent"}
      BY <2>2, <2>3 DEF F, Failures
    <2> HIDE DEF IndexOf
    <2>5. \A d \in Failures(fate'[r]) : IndexOf(r, d) <= IndexOf(r, s)
      BY <2>3 DEF F
    <2> QED BY <2>1, <2>4, <2>5, LastKeeps
  <1> QED BY <1>2, <1>3, <1>4

\* Skipping a candidate keeps it.
LEMMA PassingByKeeps ==
  ASSUME TypeOK, NEW r \in Requests, WalkInv(r), PassingBy(r)
  PROVE  WalkInv(r)'
  <1>1. Passing(r, "skipped", skips[r] \union {Cand(r)})
    BY DEF PassingBy, Passing, Past, SameHold, SameLock
  <1> QED BY <1>1, PassingKeeps

\* A candidate that failed, sent or not, keeps it.
LEMMA FallingKeeps ==
  ASSUME TypeOK, NEW r \in Requests, WalkInv(r), Falling(r)
  PROVE  WalkInv(r)'
  <1>1. PICK w \in {"unsent", "failed"} :
        /\ pc[r] \in {"admit", "prepare", "run"} /\ (w = "failed" <=> pc[r] = "run") /\ Freed(r)
        /\ Marked(r, w) /\ Onward(r, skips[r])
        /\ unabsorbed'[r] = Cand(r)
        /\ plan'[r] = plan[r] /\ SameHold(r) /\ SameLock(r)
    BY DEF Falling
  <1>2. Passing(r, w, skips[r])
    BY <1>1 DEF Passing, Past, SameHold, SameLock
  <1> QED BY <1>2, PassingKeeps
-----------------------------------------------------------------------------
(* Types, and the load.                                                     *)

WalkTyped ==
    /\ pc \in [Requests -> {"new", "finished"} \union Awaiting \union Ended]
    /\ plan \in [Requests -> Seq(Candidates)]
    /\ at \in [Requests -> Nat] /\ \A r \in Requests : at[r] <= Len(plan[r])
    /\ fate \in [Requests -> [Candidates -> Fates]]
    /\ locked \in [Requests -> BOOLEAN]
    /\ hold \in [Requests -> Nat]
    /\ unabsorbed \in [Requests -> Candidates \union {NoOne}]
    /\ skips \in [Requests -> SUBSET Candidates]
    /\ rows \in [Requests -> SUBSET Row]
    /\ stopped \in [Requests -> Candidates \union {NoOne}]

ModelTyped ==
    /\ onModel \in [Requests -> SUBSET Candidates]
    /\ counted \in [Requests -> SUBSET Candidates]

LoadTyped ==
    /\ active \in [Candidates -> Nat]
    /\ cool \subseteq Candidates
    /\ tracked \subseteq Candidates
    /\ open \in [Requests -> SUBSET [on : Candidates, tracked : BOOLEAN]]

BoundTyped == bound \in [Sessions -> Candidates \union {NoOne}]

\* The types of the walks, the models, the load and the bindings.
LEMMA TypeParts == TypeOK <=> WalkTyped /\ ModelTyped /\ LoadTyped /\ BoundTyped
  BY DEF TypeOK, WalkTyped, ModelTyped, LoadTyped, BoundTyped

\* The same after a step.
LEMMA TypePartsNext == WalkTyped' /\ ModelTyped' /\ LoadTyped' /\ BoundTyped' => TypeOK'
  BY DEF TypeOK, WalkTyped, ModelTyped, LoadTyped, BoundTyped

\* The requests that observe a candidate can be counted.
LEMMA WatchingIs ==
  ASSUME NEW c
  PROVE  IsFiniteSet(Watching(c)) /\ Cardinality(Watching(c)) \in Nat
  <1>1. Watching(c) \subseteq Requests
    BY DEF Watching
  <1> QED BY <1>1, WalkAssumption, FS_Subset, FS_CardinalityType

\* A call begins: one more request observes its candidate, if there is room,
\* and the entry that makes room has no call in progress.
LEMMA StartKeeps ==
  ASSUME TypeOK, LoadInv, NEW r \in Requests, NEW c \in Candidates, open[r] = {}, Start(r, c)
  PROVE  LoadTyped' /\ LoadInv'
  <1>1. CASE open' = [open EXCEPT ![r] = @ \union {[on |-> c, tracked |-> FALSE]}]
    <2>a. [on |-> c, tracked |-> FALSE] # [on |-> c, tracked |-> TRUE]
      OBVIOUS
    <2>b. CASE UNCHANGED <<tracked, active, cool>>
      <3>1. open'[r] = {[on |-> c, tracked |-> FALSE]} /\ \A q \in Requests : q # r => open'[q] = open[q]
        BY <1>1 DEF TypeOK
      <3>2. \A d : Watching(d)' = Watching(d)
        BY <3>1 DEF Watching
      <3>3. LoadInv'
        BY <2>b, <3>2 DEF LoadInv
      <3>4. LoadTyped'
        BY <1>1, <2>b DEF TypeOK, LoadTyped
      <3> QED BY <3>3, <3>4
    <2>c. CASE open' = [open EXCEPT ![r] = @ \union {[on |-> c, tracked |-> TRUE]}]
      <3>1. open'[r] = {[on |-> c, tracked |-> FALSE]} /\ open'[r] = {[on |-> c, tracked |-> TRUE]}
        BY <1>1, <2>c DEF TypeOK
      <3> QED BY <2>a, <3>1
    <2> QED BY <2>b, <2>c DEF Start
  <1>2. CASE open' = [open EXCEPT ![r] = @ \union {[on |-> c, tracked |-> TRUE]}]
    <2>1. /\ active' = [active EXCEPT ![c] = @ + 1] /\ c \in tracked' /\ tracked' \subseteq Candidates
          /\ cool' \subseteq Candidates
          /\ \A d \in tracked : d \in tracked' \/ active[d] = 0
      <3>1. CASE open' = [open EXCEPT ![r] = @ \union {[on |-> c, tracked |-> FALSE]}]
        <4>1. open'[r] = {[on |-> c, tracked |-> FALSE]} /\ open'[r] = {[on |-> c, tracked |-> TRUE]}
          BY <1>2, <3>1 DEF TypeOK
        <4>2. [on |-> c, tracked |-> FALSE] # [on |-> c, tracked |-> TRUE]
          OBVIOUS
        <4> QED BY <4>1, <4>2
      <3>2. CASE ~(open' = [open EXCEPT ![r] = @ \union {[on |-> c, tracked |-> FALSE]}])
        BY <3>2 DEF Start, TypeOK
      <3> QED BY <3>1, <3>2
    <2>2. open'[r] = {[on |-> c, tracked |-> TRUE]} /\ \A q \in Requests : q # r => open'[q] = open[q]
      BY <1>2 DEF TypeOK
    <2>3. Watching(c)' = Watching(c) \union {r} /\ r \notin Watching(c)
      BY <2>2 DEF Watching
    <2>4. \A d \in Candidates : d # c => Watching(d)' = Watching(d)
      BY <2>2 DEF Watching
    <2>5. Cardinality(Watching(c) \union {r}) = Cardinality(Watching(c)) + 1
      BY <2>3, WatchingIs, FS_AddElement
    <2>6. \A d \in Candidates : active'[d] = IF d = c THEN active[d] + 1 ELSE active[d]
      BY <2>1 DEF TypeOK
    <2>7. LoadInv'
      <3> SUFFICES ASSUME NEW d \in Candidates
                   PROVE  active'[d] = Cardinality(Watching(d)') /\ (active'[d] > 0 => d \in tracked')
        BY DEF LoadInv
      <3>1. active[d] = Cardinality(Watching(d)) /\ (active[d] > 0 => d \in tracked) /\ active[d] \in Nat
        BY DEF LoadInv, TypeOK
      <3>2. CASE d = c
        BY <2>1, <2>3, <2>5, <2>6, <3>1, <3>2
      <3>3. CASE d # c
        BY <2>1, <2>4, <2>6, <3>1, <3>3
      <3> QED BY <3>2, <3>3
    <2>8. LoadTyped'
      BY <1>2, <2>1 DEF LoadTyped, TypeOK
    <2> QED BY <2>7, <2>8
  <1> QED BY <1>1, <1>2 DEF Start

\* An observation ends once, and takes its own call away.
LEMMA FinishKeeps ==
  ASSUME TypeOK, LoadInv, NEW r \in Requests, NEW c \in Candidates,
         NEW outcome \in {"success", "unhealthy", "none"}, Finish(r, c, outcome), tracked' = tracked
  PROVE  LoadTyped' /\ BoundTyped' /\ LoadInv'
  <1> DEFINE counts == [on |-> c, tracked |-> TRUE] \in open[r]
  <1>1. /\ active' = [active EXCEPT ![c] = IF counts /\ @ > 0 THEN @ - 1 ELSE @]
        /\ open' = [open EXCEPT ![r] = {o \in @ : o.on # c}]
        /\ cool' \in {cool, cool \ {c}, cool \union {c}}
        /\ \/ bound' = bound \/ bound' = [bound EXCEPT ![Session[r]] = c]
           \/ bound' = [bound EXCEPT ![Session[r]] = IF @ = c THEN NoOne ELSE @]
    BY DEF Finish
  <1>2. BoundTyped'
    <2>1. Session[r] \in Sessions
      BY WalkAssumption
    <2> QED BY <1>1, <2>1 DEF BoundTyped, TypeOK
  <1>3. LoadTyped'
    BY <1>1 DEF LoadTyped, TypeOK
  <1>4. open'[r] = {o \in open[r] : o.on # c} /\ \A q \in Requests : q # r => open'[q] = open[q]
    BY <1>1 DEF TypeOK
  <1>5. \A d \in Candidates : d # c => Watching(d)' = Watching(d)
    <2> TAKE d \in Candidates
    <2> HAVE d # c
    <2> DEFINE o == [on |-> d, tracked |-> TRUE]
    <2>1. o.on # c
      OBVIOUS
    <2> HIDE DEF o
    <2>2. o \in open'[r] <=> o \in open[r]
      BY <1>4, <2>1
    <2> QED BY <1>4, <2>2 DEF Watching, o
  <1>6. Watching(c)' = Watching(c) \ {r}
    <2> DEFINE o == [on |-> c, tracked |-> TRUE]
    <2>1. o.on = c
      OBVIOUS
    <2> HIDE DEF o
    <2>2. o \notin open'[r]
      BY <1>4, <2>1
    <2> QED BY <1>4, <2>2 DEF Watching, o
  <1>7. counts <=> r \in Watching(c)
    BY DEF Watching
  <1>8. \A d \in Candidates : active'[d] = IF d = c /\ counts /\ active[c] > 0 THEN active[d] - 1 ELSE active[d]
    BY <1>1 DEF TypeOK
  <1> HIDE DEF counts
  <1>9. /\ Cardinality(Watching(c) \ {r}) = IF r \in Watching(c) THEN Cardinality(Watching(c)) - 1
                                                                 ELSE Cardinality(Watching(c))
        /\ r \in Watching(c) => Cardinality(Watching(c)) # 0
    BY WatchingIs, FS_RemoveElement, FS_EmptySet
  <1>10. LoadInv'
    <2> SUFFICES ASSUME NEW d \in Candidates
                 PROVE  active'[d] = Cardinality(Watching(d)') /\ (active'[d] > 0 => d \in tracked')
      BY DEF LoadInv
    <2>1. /\ active[d] = Cardinality(Watching(d)) /\ (active[d] > 0 => d \in tracked) /\ active[d] \in Nat
          /\ active[c] = Cardinality(Watching(c)) /\ active[c] \in Nat
      BY DEF LoadInv, TypeOK
    <2>2. CASE d = c
      <3>1. Cardinality(Watching(d)') = Cardinality(Watching(c) \ {r})
        BY <1>6, <2>2
      <3>2. active'[d] = IF r \in Watching(c) THEN active[d] - 1 ELSE active[d]
        BY <1>7, <1>8, <1>9, <2>1, <2>2
      <3> QED BY <1>9, <2>1, <2>2, <3>1, <3>2
    <2>3. CASE d # c
      BY <1>5, <1>8, <2>1, <2>3
    <2> QED BY <2>2, <2>3
  <1> QED BY <1>2, <1>3, <1>10

\* Closing an observation lowers the load of its candidate by one.
LEMMA CloseKeeps ==
  ASSUME TypeOK, LoadInv, NEW r \in Requests, CloseSelection(r)
  PROVE  LoadTyped' /\ BoundTyped' /\ LoadInv'
  <1>1. /\ active' = [c \in Candidates |->
              IF [on |-> c, tracked |-> TRUE] \in open[r] THEN active[c] - 1 ELSE active[c]]
        /\ open' = [open EXCEPT ![r] = {}] /\ UNCHANGED <<cool, tracked, bound>>
    BY DEF CloseSelection
  <1>2. open'[r] = {} /\ \A q \in Requests : q # r => open'[q] = open[q]
    BY <1>1 DEF TypeOK
  <1>3. \A c \in Candidates :
           /\ Watching(c)' = Watching(c) \ {r}
           /\ active'[c] = IF r \in Watching(c) THEN active[c] - 1 ELSE active[c]
    BY <1>1, <1>2 DEF Watching
  <1>4. ASSUME NEW c \in Candidates
        PROVE  active'[c] = Cardinality(Watching(c)') /\ (active'[c] > 0 => c \in tracked') /\ active'[c] \in Nat
    <2>1. active[c] = Cardinality(Watching(c)) /\ (active[c] > 0 => c \in tracked) /\ active[c] \in Nat
      BY DEF LoadInv, TypeOK
    <2>2. /\ Cardinality(Watching(c) \ {r}) = IF r \in Watching(c) THEN Cardinality(Watching(c)) - 1
                                                                   ELSE Cardinality(Watching(c))
          /\ r \in Watching(c) => Cardinality(Watching(c)) # 0
      BY WatchingIs, FS_RemoveElement, FS_EmptySet
    <2>3. Cardinality(Watching(c)') = Cardinality(Watching(c) \ {r})
      BY <1>3
    <2>4. active'[c] = IF r \in Watching(c) THEN active[c] - 1 ELSE active[c]
      BY <1>3
    <2> QED BY <1>1, <2>1, <2>2, <2>3, <2>4
  <1>5. LoadInv'
    BY <1>4 DEF LoadInv
  <1>6. LoadTyped'
    <2>1. active' \in [Candidates -> Nat]
      BY <1>1, <1>4
    <2> QED BY <1>1, <2>1 DEF LoadTyped, TypeOK
  <1> QED BY <1>1, <1>5, <1>6 DEF BoundTyped, TypeOK

\* A step that opens and closes nothing keeps the load.
LEMMA SameLoad ==
  ASSUME TypeOK, LoadInv, UNCHANGED <<active, tracked, open>>, cool' \subseteq Candidates
  PROVE  LoadTyped' /\ LoadInv'
  <1>1. \A c : Watching(c)' = Watching(c)
    BY DEF Watching
  <1> QED BY <1>1 DEF LoadTyped, LoadInv, TypeOK

\* What a walk that goes on leaves typed.
LEMMA AdvanceTyped ==
  ASSUME TypeOK, NEW r \in Requests, NEW u, u \subseteq Candidates, PlanInv(r), FateInv(r), pc[r] # "new",
         NEW w \in Fates, fate' = Became(r, w), Advance(r, fate'[r], u), plan' = plan
  PROVE  /\ pc' \in [Requests -> {"new", "finished"} \union Awaiting \union Ended]
         /\ at' \in [Requests -> Nat] /\ \A q \in Requests : at'[q] <= Len(plan'[q])
         /\ fate' \in [Requests -> [Candidates -> Fates]]
         /\ skips' \in [Requests -> SUBSET Candidates]
         /\ rows' \in [Requests -> SUBSET Row]
         /\ stopped' \in [Requests -> Candidates \union {NoOne}]
  <1>1. Cand(r) \in Candidates /\ Cand(r) \in Reached(r) /\ at[r] \in 1..Len(plan[r])
    BY CandIs DEF PlanInv
  <1>2. fate' \in [Requests -> [Candidates -> Fates]]
    BY <1>1 DEF TypeOK, Became
  <1>3. \A c \in Candidates : fate'[r][c] = IF c = Cand(r) THEN w ELSE fate[r][c]
    BY <1>1 DEF TypeOK, Became
  <1>4. Failures(fate'[r]) \subseteq Reached(r) /\ Failures(fate'[r]) \subseteq Candidates
    BY <1>1, <1>3 DEF Failures, FateInv
  <1>5. Skipped(u) \subseteq Row
    BY DEF Skipped, Row
  <1>6. CASE ~Last(r)
    <2>1. /\ at' = [at EXCEPT ![r] = @ + 1] /\ pc' = [pc EXCEPT ![r] = "admit"]
          /\ skips' = [skips EXCEPT ![r] = u] /\ stopped' = stopped /\ rows' = rows
      BY <1>6 DEF Advance
    <2>2. at[r] # Len(plan[r]) /\ Len(plan[r]) \in Nat
      BY <1>6, PlanIs DEF Last
    <2>3. at' \in [Requests -> Nat] /\ \A q \in Requests : at'[q] = IF q = r THEN at[r] + 1 ELSE at[q]
      BY <2>1 DEF TypeOK
    <2>4. at[r] + 1 <= Len(plan[r])
      BY <1>1, <2>2
    <2>5. \A q \in Requests : at'[q] <= Len(plan'[q])
      BY <2>3, <2>4 DEF TypeOK
    <2> QED BY <1>2, <2>1, <2>3, <2>5 DEF TypeOK, Awaiting
  <1>7. CASE Last(r) /\ Failures(fate'[r]) = {}
    <2>1. PICK c \in Refusals(fate'[r]) : stopped' = [stopped EXCEPT ![r] = c]
      BY <1>7 DEF Advance, Exhaust
    <2>2. pc' = [pc EXCEPT ![r] = "stopped"] /\ skips' = skips /\ rows' = rows /\ at' = at
      BY <1>7 DEF Advance, Exhaust
    <2> QED BY <1>2, <2>1, <2>2 DEF TypeOK, Ended, Refusals
  <1>8. CASE Last(r) /\ Failures(fate'[r]) # {}
    <2>1. LastOf(r, Failures(fate'[r])) \in Candidates
      BY <1>4, <1>8, LastOfIs
    <2>2. /\ pc' = [pc EXCEPT ![r] = "stopped"] /\ at' = at /\ skips' = [skips EXCEPT ![r] = {}]
          /\ stopped' = [stopped EXCEPT ![r] = LastOf(r, Failures(fate'[r]))]
          /\ rows' = [rows EXCEPT ![r] = @ \union Skipped(u)]
      BY <1>8 DEF Advance, Exhaust
    <2> QED BY <1>2, <1>5, <2>1, <2>2 DEF TypeOK, Ended
  <1> QED BY <1>6, <1>7, <1>8

\* Skipping keeps the types of the walks.
LEMMA SkipTyped ==
  ASSUME TypeOK, NEW r \in Requests, WalkInv(r), pc[r] # "new", Skip(r)
  PROVE  WalkTyped'
  <1> DEFINE u == skips[r] \union {Cand(r)}
  <1>1. PlanInv(r) /\ FateInv(r) /\ Cand(r) \in Candidates /\ "skipped" \in Fates
    BY NotAtHand DEF WalkInv, Fates
  <1>2. u \subseteq Candidates
    BY <1>1 DEF TypeOK
  <1>3. /\ fate' = Became(r, "skipped") /\ Advance(r, fate'[r], u)
        /\ UNCHANGED <<unabsorbed, locked, plan, hold>>
    BY DEF Skip
  <1> HIDE DEF u
  <1>4. /\ pc' \in [Requests -> {"new", "finished"} \union Awaiting \union Ended]
        /\ at' \in [Requests -> Nat] /\ \A q \in Requests : at'[q] <= Len(plan'[q])
        /\ fate' \in [Requests -> [Candidates -> Fates]]
        /\ skips' \in [Requests -> SUBSET Candidates]
        /\ rows' \in [Requests -> SUBSET Row]
        /\ stopped' \in [Requests -> Candidates \union {NoOne}]
    BY <1>1, <1>2, <1>3, AdvanceTyped
  <1> QED BY <1>3, <1>4 DEF WalkTyped, TypeOK

\* Failing keeps them.
LEMMA FallTyped ==
  ASSUME TypeOK, NEW r \in Requests, WalkInv(r), pc[r] # "new", NEW w \in Fates, Fall(r, w)
  PROVE  WalkTyped'
  <1>1. PlanInv(r) /\ FateInv(r) /\ Cand(r) \in Candidates /\ skips[r] \subseteq Candidates
    BY NotAtHand DEF WalkInv, TypeOK
  <1>2. /\ fate' = Became(r, w) /\ Advance(r, fate'[r], skips[r])
        /\ unabsorbed' = [unabsorbed EXCEPT ![r] = Cand(r)] /\ UNCHANGED <<locked, plan, hold>>
    BY DEF Fall
  <1>3. /\ pc' \in [Requests -> {"new", "finished"} \union Awaiting \union Ended]
        /\ at' \in [Requests -> Nat] /\ \A q \in Requests : at'[q] <= Len(plan'[q])
        /\ fate' \in [Requests -> [Candidates -> Fates]]
        /\ skips' \in [Requests -> SUBSET Candidates]
        /\ rows' \in [Requests -> SUBSET Row]
        /\ stopped' \in [Requests -> Candidates \union {NoOne}]
    BY <1>1, <1>2, AdvanceTyped
  <1> QED BY <1>1, <1>2, <1>3 DEF WalkTyped, TypeOK

\* Stopping keeps them.
LEMMA StopTyped ==
  ASSUME TypeOK, NEW r \in Requests, WalkInv(r), pc[r] # "new", NEW w \in Fates, Stop(r, w)
  PROVE  WalkTyped'
  <1>1. Cand(r) \in Candidates
    BY NotAtHand DEF WalkInv
  <1> QED BY <1>1 DEF Stop, Became, record, WalkTyped, TypeOK, Ended

\* Giving back a model keeps the types of the models.
LEMMA DropTyped ==
  ASSUME TypeOK, NEW r \in Requests, NEW b, DropModel(r, b)
  PROVE  ModelTyped'
  BY DEF DropModel, ModelTyped, TypeOK

\* Every step of a walk keeps the types and the load.
LEMMA StepKeepsTypes ==
  ASSUME TypeOK, LoadInv, NEW r \in Requests, WalkInv(r), Step(r)
  PROVE  TypeOK' /\ LoadInv'
  <1> SUFFICES WalkTyped' /\ ModelTyped' /\ LoadTyped' /\ BoundTyped' /\ LoadInv'
    BY TypePartsNext
  <1>a. pc[r] # "new" => Cand(r) \in Candidates
    BY NotAtHand DEF WalkInv
  <1>b. Session[r] \in Sessions
    BY WalkAssumption
  <1>c. pc[r] \in Early => open[r] = {}
    BY DEF WalkInv, OpenInv, Early
  <1>d. WalkTyped /\ ModelTyped /\ LoadTyped /\ BoundTyped
    BY TypeParts
  <1>e. {"unsent", "refused", "failed", "capped", "served", "unreachable"} \subseteq Fates
    BY DEF Fates
  <1>1. CASE Rank(r)
    <2>0. PICK tier \in [unpriced : SUBSET PlanOf[r], foreign : SUBSET PlanOf[r], remote : SUBSET PlanOf[r]], b \in {bound[Session[r]], NoOne} :
             /\ \E p \in Orders(PlanOf[r], b, tier) :
                  plan' = [plan EXCEPT ![r] = p] /\ hold' = [hold EXCEPT ![r] = Need[p[1]]]
             /\ bound' = [bound EXCEPT ![Session[r]] = IF Leads(b, PlanOf[r], tier) THEN b ELSE NoOne]
      BY <1>1 DEF Rank
    <2>1. PICK p \in Orders(PlanOf[r], b, tier) :
             plan' = [plan EXCEPT ![r] = p] /\ hold' = [hold EXCEPT ![r] = Need[p[1]]]
      BY <2>0
    <2>2. PlanOf[r] \subseteq Candidates /\ PlanOf[r] # {}
      BY WalkAssumption
    <2>3. Cardinality(PlanOf[r]) \in Nat /\ Cardinality(PlanOf[r]) # 0
      BY <2>2, WalkAssumption, FS_Subset, FS_CardinalityType, FS_EmptySet
    <2>4. p \in [1..Cardinality(PlanOf[r]) -> PlanOf[r]]
      BY DEF Orders
    <2>5. p \in Seq(Candidates) /\ Len(p) = Cardinality(PlanOf[r]) /\ Len(p) >= 1
      BY <2>2, <2>3, <2>4
    <2>6. p[1] \in Candidates
      BY <2>5
    <2>7. Need[p[1]] \in Nat
      BY <2>6, WalkAssumption
    <2>8. /\ at' = [at EXCEPT ![r] = 1] /\ pc' = [pc EXCEPT ![r] = "admit"]
          /\ UNCHANGED <<fate, locked, onModel, counted, unabsorbed, skips, rows, stopped,
                         active, cool, tracked, open>>
          /\ bound' = [bound EXCEPT ![Session[r]] = IF Leads(b, PlanOf[r], tier) THEN b ELSE NoOne]
      BY <1>1, <2>0 DEF Rank, record
    <2>9. at' \in [Requests -> Nat] /\ \A q \in Requests : at'[q] <= Len(plan'[q])
      BY <2>1, <2>5, <2>8 DEF TypeOK
    <2>10. WalkTyped'
      BY <2>1, <2>5, <2>7, <2>8, <2>9 DEF WalkTyped, TypeOK, Awaiting
    <2>11. ModelTyped' /\ BoundTyped'
      BY <1>b, <1>d, <2>8 DEF ModelTyped, BoundTyped
    <2>12. LoadTyped' /\ LoadInv'
      BY <1>d, <2>8, SameLoad DEF LoadTyped
    <2> QED BY <2>10, <2>11, <2>12
  <1>2. CASE AdmitCandidate(r)
    <2>1. pc[r] = "admit" /\ pc[r] # "new" /\ UNCHANGED <<active, cool, tracked, open>>
      BY <1>2 DEF AdmitCandidate
    <2>2. LoadTyped' /\ LoadInv'
      BY <1>d, <2>1, SameLoad DEF LoadTyped
    <2>3. ASSUME Forget(r, Cand(r)) \/ bound' = bound PROVE BoundTyped'
      BY <1>b, <1>d, <2>3 DEF Forget, BoundTyped
    <2>4. ASSUME KeepModel PROVE ModelTyped'
      BY <1>d, <2>4 DEF KeepModel, ModelTyped
    <2>5. CASE Credential(r)
      <3>1. WalkTyped'
        BY <1>e, <2>1, <2>5, SkipTyped, FallTyped, StopTyped DEF Credential
      <3> QED BY <2>2, <2>3, <2>4, <2>5, <3>1 DEF Credential
    <2>6. CASE Move(r)
      <3>1. WalkTyped'
        BY <1>e, <2>1, <2>6, SkipTyped, StopTyped DEF Move
      <3> QED BY <2>2, <2>3, <2>4, <2>6, <3>1 DEF Move
    <2>7. CASE AdmitToModel(r)
      <3>1. CASE Skip(r) /\ Forget(r, Cand(r)) /\ KeepModel
        <4>1. WalkTyped'
          BY <2>1, <3>1, SkipTyped
        <4> QED BY <2>2, <2>3, <2>4, <3>1, <4>1
      <3>2. CASE ~(Skip(r) /\ Forget(r, Cand(r)) /\ KeepModel)
        <4>1. /\ pc' = [pc EXCEPT ![r] = "prepare"]
              /\ UNCHANGED <<plan, at, locked, hold, fate, stopped, unabsorbed, skips, rows, bound>>
              /\ \/ KeepModel
                 \/ /\ onModel' = [onModel EXCEPT ![r] = @ \union {Cand(r)}]
                    /\ counted' = [counted EXCEPT ![r] = @ \union {Cand(r)}]
          BY <2>7, <3>2 DEF AdmitToModel, Go, record
        <4>2. WalkTyped'
          BY <1>d, <4>1 DEF WalkTyped, Awaiting
        <4>3. ModelTyped'
          BY <1>a, <1>d, <2>1, <4>1 DEF ModelTyped, KeepModel
        <4> QED BY <2>2, <2>3, <4>1, <4>2, <4>3
      <3> QED BY <3>1, <3>2
    <2> QED BY <1>2, <2>5, <2>6, <2>7 DEF AdmitCandidate
  <1>3. CASE Prepare(r)
    <2>1. pc[r] = "prepare" /\ pc[r] # "new" /\ open[r] = {}
      BY <1>3, <1>c DEF Prepare, Early
    <2>2. CASE Send(r) /\ KeepModel
               /\ (IF at[r] > 1 THEN Go(r, "topup") /\ UNCHANGED router
                   ELSE Go(r, "run") /\ Start(r, Cand(r)) /\ UNCHANGED bound)
               /\ UNCHANGED <<plan, at, locked, hold, fate, stopped>>
      <3>1. \E s \in {"topup", "run"} : pc' = [pc EXCEPT ![r] = s]
        BY <2>2 DEF Go
      <3>2. pc' \in [Requests -> {"new", "finished"} \union Awaiting \union Ended]
        BY <1>d, <3>1 DEF WalkTyped, Awaiting
      <3>3. Absorbed(unabsorbed[r]) \subseteq Row /\ Skipped(skips[r]) \subseteq Row
        BY <1>d DEF Absorbed, Skipped, Row, WalkTyped
      <3>4. WalkTyped'
        BY <1>d, <2>2, <3>2, <3>3 DEF Send, WalkTyped
      <3>5. ModelTyped'
        BY <1>d, <2>2 DEF KeepModel, ModelTyped
      <3>6. BoundTyped'
        BY <1>d, <2>2 DEF BoundTyped, router
      <3>7. LoadTyped' /\ LoadInv'
        <4>1. CASE UNCHANGED router
          BY <1>d, <4>1, SameLoad DEF router, LoadTyped
        <4>2. CASE Start(r, Cand(r))
          BY <1>a, <2>1, <4>2, StartKeeps
        <4> QED BY <2>2, <4>1, <4>2
      <3> QED BY <3>4, <3>5, <3>6, <3>7
    <2>3. CASE (Skip(r) \/ Fall(r, "unsent") \/ Stop(r, "refused")) /\ DropModel(r, FALSE) /\ UNCHANGED router
      <3>1. WalkTyped' /\ ModelTyped'
        BY <1>e, <2>1, <2>3, SkipTyped, FallTyped, StopTyped, DropTyped
      <3>2. LoadTyped' /\ LoadInv' /\ BoundTyped'
        BY <1>d, <2>3, SameLoad DEF router, LoadTyped, BoundTyped
      <3> QED BY <3>1, <3>2
    <2> QED BY <1>3, <2>2, <2>3 DEF Prepare
  <1>4. CASE TopUp(r)
    <2>1. pc[r] = "topup" /\ pc[r] # "new" /\ open[r] = {}
      BY <1>4, <1>c DEF TopUp, Early
    <2>2. CASE Stop(r, "refused") /\ DropModel(r, FALSE) /\ UNCHANGED router
      <3>1. WalkTyped' /\ ModelTyped'
        BY <1>e, <2>1, <2>2, StopTyped, DropTyped
      <3>2. LoadTyped' /\ LoadInv' /\ BoundTyped'
        BY <1>d, <2>2, SameLoad DEF router, LoadTyped, BoundTyped
      <3> QED BY <3>1, <3>2
    <2>3. CASE ~(Stop(r, "refused") /\ DropModel(r, FALSE) /\ UNCHANGED router)
      <3>1. /\ pc' = [pc EXCEPT ![r] = "run"] /\ Start(r, Cand(r)) /\ KeepModel
            /\ hold' = [hold EXCEPT ![r] = IF @ < Need[Cand(r)] THEN Need[Cand(r)] ELSE @]
            /\ UNCHANGED <<plan, at, locked, fate, stopped, unabsorbed, skips, rows, bound>>
        BY <1>4, <2>3 DEF TopUp, Go, record
      <3>2. Need[Cand(r)] \in Nat
        BY <1>a, <2>1, WalkAssumption
      <3>3. WalkTyped'
        BY <1>d, <3>1, <3>2 DEF WalkTyped, Awaiting
      <3>4. ModelTyped' /\ BoundTyped'
        BY <1>d, <3>1 DEF KeepModel, ModelTyped, BoundTyped
      <3>5. LoadTyped' /\ LoadInv'
        BY <1>a, <2>1, <3>1, StartKeeps
      <3> QED BY <3>3, <3>4, <3>5
    <2> QED BY <2>2, <2>3
  <1>5. CASE LockIn(r)
    <2>1. WalkTyped' /\ ModelTyped' /\ BoundTyped'
      BY <1>5, <1>d DEF LockIn, WalkTyped, ModelTyped, BoundTyped, record, router
    <2>2. LoadTyped' /\ LoadInv'
      BY <1>5, <1>d, SameLoad DEF LockIn, router, LoadTyped
    <2> QED BY <2>1, <2>2
  <1>6. CASE Succeed(r)
    <2>1. pc[r] # "new" /\ Cand(r) \in Candidates
      BY <1>6, <1>a DEF Succeed
    <2>2. WalkTyped'
      BY <1>6, <1>d, <1>e, <2>1 DEF Succeed, Go, Became, walk, record, WalkTyped, Ended
    <2>3. ModelTyped'
      BY <1>6, <1>d DEF Succeed, walk, ModelTyped
    <2>4. CASE UNCHANGED <<active, cool, bound, open>>
      <3>1. LoadTyped' /\ LoadInv' /\ BoundTyped'
        BY <1>6, <1>d, <2>4, SameLoad DEF Succeed, LoadTyped, BoundTyped
      <3> QED BY <2>2, <2>3, <3>1
    <2>5. CASE Finish(r, Cand(r), "success")
      <3>1. LoadTyped' /\ LoadInv' /\ BoundTyped'
        BY <1>6, <2>1, <2>5, FinishKeeps DEF Succeed
      <3> QED BY <2>2, <2>3, <3>1
    <2> QED BY <1>6, <2>4, <2>5 DEF Succeed
  <1>7. CASE FailRun(r)
    <2>1. pc[r] # "new" /\ Cand(r) \in Candidates
      BY <1>7, <1>a DEF FailRun
    <2>2. LoadTyped' /\ LoadInv' /\ BoundTyped'
      BY <1>7, <2>1, FinishKeeps DEF FailRun
    <2>3. WalkTyped'
      BY <1>7, <1>e, <2>1, FallTyped, StopTyped DEF FailRun
    <2>4. ModelTyped'
      BY <1>7, <1>d, DropTyped DEF FailRun, KeepModel, ModelTyped
    <2> QED BY <2>2, <2>3, <2>4
  <1>8. CASE RefuseRun(r)
    <2>1. pc[r] # "new" /\ Cand(r) \in Candidates
      BY <1>8, <1>a DEF RefuseRun
    <2>2. LoadTyped' /\ LoadInv' /\ BoundTyped'
      BY <1>8, <2>1, FinishKeeps DEF RefuseRun
    <2>3. WalkTyped'
      BY <1>8, <1>e, <2>1, StopTyped DEF RefuseRun
    <2>4. ModelTyped'
      BY <1>8, <1>d, DropTyped DEF RefuseRun, KeepModel, ModelTyped
    <2> QED BY <2>2, <2>3, <2>4
  <1>9. CASE Unreachable(r)
    <2>1. pc[r] # "new" /\ Cand(r) \in Candidates
      BY <1>9, <1>a DEF Unreachable
    <2>2. LoadTyped' /\ LoadInv' /\ BoundTyped'
      BY <1>9, <2>1, FinishKeeps DEF Unreachable
    <2>3. WalkTyped' /\ ModelTyped'
      BY <1>9, <1>d, <1>e, <2>1 DEF Unreachable, Go, Became, walk, record, WalkTyped, ModelTyped, Ended
    <2> QED BY <2>2, <2>3
  <1>10. CASE Cancel(r)
    <2>1. pc[r] # "new" /\ Cand(r) \in Candidates
      BY <1>10, <1>a DEF Cancel, Awaiting
    <2>2. LoadTyped' /\ LoadInv' /\ BoundTyped'
      BY <1>10, <2>1, FinishKeeps DEF Cancel
    <2>3. WalkTyped' /\ ModelTyped'
      BY <1>10, <1>d DEF Cancel, Go, walk, record, WalkTyped, ModelTyped, Ended
    <2> QED BY <2>2, <2>3
  <1>11. CASE EndStream(r)
    <2>1. pc[r] # "new" /\ Cand(r) \in Candidates
      BY <1>11, <1>a DEF EndStream
    <2>2. LoadTyped' /\ LoadInv' /\ BoundTyped'
      BY <1>11, <2>1, FinishKeeps DEF EndStream
    <2>3. WalkTyped' /\ ModelTyped'
      BY <1>11, <1>d DEF EndStream, walk, record, WalkTyped, ModelTyped
    <2> QED BY <2>2, <2>3
  <1>12. CASE Conclude(r)
    <2>1. LoadTyped' /\ LoadInv' /\ BoundTyped'
      BY <1>12, CloseKeeps DEF Conclude
    <2>2. WalkTyped' /\ ModelTyped'
      BY <1>12, <1>d DEF Conclude, Go, walk, record, WalkTyped, ModelTyped
    <2> QED BY <2>1, <2>2
  <1> QED BY <1>1, <1>2, <1>3, <1>4, <1>5, <1>6, <1>7, <1>8, <1>9, <1>10, <1>11, <1>12 DEF Step
-----------------------------------------------------------------------------
(* The invariant.                                                           *)

\* The invariant holds before the first walk.
LEMMA InitInv == Init => Inv
  <1> SUFFICES ASSUME Init PROVE Inv
    OBVIOUS
  <1>1. /\ pc = [r \in Requests |-> "new"] /\ plan = [r \in Requests |-> <<>>]
        /\ at = [r \in Requests |-> 0] /\ fate = [r \in Requests |-> [c \in Candidates |-> "untried"]]
        /\ locked = [r \in Requests |-> FALSE] /\ hold = [r \in Requests |-> 0]
        /\ onModel = [r \in Requests |-> {}] /\ counted = [r \in Requests |-> {}]
        /\ unabsorbed = [r \in Requests |-> NoOne] /\ skips = [r \in Requests |-> {}]
        /\ rows = [r \in Requests |-> {}] /\ stopped = [r \in Requests |-> NoOne]
        /\ active = [c \in Candidates |-> 0] /\ cool = {} /\ tracked = {}
        /\ bound = [s \in Sessions |-> NoOne] /\ open = [r \in Requests |-> {}]
    BY DEF Init
  <1>2. TypeOK
    <2>1. plan \in [Requests -> Seq(Candidates)] /\ \A r \in Requests : Len(plan[r]) = 0
      BY <1>1
    <2>2. at \in [Requests -> Nat] /\ \A r \in Requests : at[r] <= Len(plan[r])
      BY <1>1, <2>1
    <2>3. fate \in [Requests -> [Candidates -> Fates]]
      BY <1>1 DEF Fates
    <2> QED BY <1>1, <2>1, <2>2, <2>3 DEF TypeOK
  <1>3. LoadInv
    <2>1. \A c : Watching(c) = {}
      BY <1>1 DEF Watching
    <2>2. Cardinality({}) = 0
      BY FS_EmptySet
    <2>3. \A c \in Candidates : active[c] = 0
      BY <1>1
    <2> QED BY <2>1, <2>2, <2>3 DEF LoadInv
  <1>4. ASSUME NEW r \in Requests PROVE WalkInv(r)
    <2>1. /\ pc[r] = "new" /\ plan[r] = <<>> /\ at[r] = 0 /\ ~locked[r]
          /\ \A c \in Candidates : fate[r][c] = "untried"
          /\ onModel[r] = {} /\ counted[r] = {} /\ unabsorbed[r] = NoOne /\ skips[r] = {}
          /\ rows[r] = {} /\ stopped[r] = NoOne /\ open[r] = {}
      BY <1>1
    <2>2. 1..at[r] = {} /\ Len(plan[r]) = 0 /\ 1..Len(plan[r]) = {}
      BY <2>1
    <2> QED BY <2>1, <2>2 DEF WalkInv, PlanInv, FateInv, StopInv, CoverInv, ModelInv, RecordInv,
                             OpenInv, Awaiting
  <1> QED BY <1>2, <1>3, <1>4 DEF Inv

\* Every step keeps it.
LEMMA NextInv == Inv /\ [Next]_vars => Inv'
  <1> SUFFICES ASSUME Inv, [Next]_vars PROVE Inv'
    OBVIOUS
  <1>0. TypeOK /\ LoadInv /\ \A r \in Requests : WalkInv(r)
    BY DEF Inv
  <1>1. ASSUME NEW r \in Requests, Step(r) PROVE Inv'
    <2>1. TypeOK' /\ LoadInv'
      BY <1>0, <1>1, StepKeepsTypes
    <2>2. Others(r) /\ Kinds(r)
      BY <1>0, <1>1, KindOf
    <2>3. WalkInv(r)'
      BY <1>0, <2>2, RankingKeeps, PassingByKeeps, FallingKeeps, HaltingKeeps, AdmittingKeeps,
         SendingKeeps, ToppingUpKeeps, LockingKeeps, EndingKeeps DEF Kinds
    <2>4. \A q \in Requests \ {r} : WalkInv(q)'
      BY <1>0, <2>2, FrameInv
    <2> QED BY <2>1, <2>3, <2>4 DEF Inv
  <1>2. ASSUME UNCHANGED <<pc, walk, fate, record, stopped, active, tracked, bound, open>>,
               cool' \subseteq Candidates
        PROVE  Inv'
    <2>1. LoadTyped' /\ LoadInv'
      BY <1>0, <1>2, SameLoad
    <2>2. WalkTyped' /\ ModelTyped' /\ BoundTyped'
      BY <1>0, <1>2, TypeParts DEF walk, record, WalkTyped, ModelTyped, BoundTyped
    <2>3. TypeOK'
      BY <2>1, <2>2, TypePartsNext
    <2>4. ASSUME NEW q \in Requests PROVE WalkInv(q)'
      <3>2. /\ pc' = pc /\ plan' = plan /\ at' = at /\ fate' = fate /\ locked' = locked /\ hold' = hold
            /\ onModel' = onModel /\ counted' = counted /\ unabsorbed' = unabsorbed
            /\ skips' = skips /\ rows' = rows /\ stopped' = stopped /\ open' = open
        BY <1>2 DEF walk, record
      <3>3. WalkInv(q)
        BY <1>0
      <3> QED BY <3>2, <3>3 DEF WalkInv, PlanInv, FateInv, StopInv, CoverInv, ModelInv, RecordInv,
                     OpenInv, Reached, Cand, IndexOf, RowInv, WentOn, Behind
    <2> QED BY <2>1, <2>3, <2>4 DEF Inv
  <1>3. ASSUME NEW c \in Candidates, CoolOff(c) PROVE Inv'
    <2>1. cool' \subseteq Candidates
      BY <1>0, <1>3 DEF CoolOff, TypeOK
    <2> QED BY <1>2, <1>3, <2>1 DEF CoolOff
  <1>4. CASE UNCHANGED vars
    BY <1>0, <1>2, <1>4 DEF vars, walk, record, TypeOK
  <1> QED BY <1>1, <1>3, <1>4 DEF Next

\* So it holds in every state.
LEMMA InvAlways == Spec => []Inv
  BY InitInv, NextInv, PTL DEF Spec
-----------------------------------------------------------------------------
(* The theorems.                                                            *)

\* Every variable keeps its type, no candidate runs on a reservation that does
\* not cover its estimate (TopUp, top_up_reservation_for_attempt), and the load
\* the automatic router ranks by is exact: the calls counted on a candidate are
\* the observations still open, and none outlives its request.
THEOREM ConsistentCorrect == Spec => []Consistent
  <1>1. ASSUME Inv PROVE Consistent
    <2>0. TypeOK /\ LoadInv /\ \A r \in Requests : WalkInv(r)
      BY <1>1 DEF Inv
    <2>1. RunCovered
      BY <2>0 DEF RunCovered, WalkInv, CoverInv
    <2>2. \A r \in Requests : pc[r] = "finished" => open[r] = {}
      BY <2>0 DEF WalkInv, OpenInv
    <2>3. \A c \in Candidates :
             /\ active[c] = Cardinality({r \in Requests : [on |-> c, tracked |-> TRUE] \in open[r]})
             /\ active[c] > 0 => c \in tracked
      BY <2>0 DEF LoadInv, Watching
    <2> QED BY <2>0, <2>1, <2>2, <2>3 DEF Consistent, LoadExact
  <1> QED BY <1>1, InvAlways, PTL

\* A row of a candidate passed over is only written for one the walk recovered
\* from, never for the candidate the failure of the request is put on (Send,
\* Exhaust, Stop).
THEOREM RowsCorrect == Spec => []RowsTrue
  <1>1. ASSUME Inv PROVE RowsTrue
    <2>0. TypeOK /\ \A r \in Requests : WalkInv(r)
      BY <1>1 DEF Inv
    <2> SUFFICES ASSUME NEW r \in Requests, NEW row \in rows[r]
                 PROVE  /\ row.kind = "absorbed" => fate[r][row.of] \in {"failed", "unsent"}
                        /\ row.kind = "skipped" => fate[r][row.of] = "skipped"
                        /\ row.of # stopped[r]
                        /\ \/ \E i \in 1..at[r] : /\ i > IndexOf(r, row.of)
                                                  /\ fate[r][plan[r][i]] # "skipped"
                           \/ row.kind = "skipped" /\ stopped[r] # NoOne
      BY DEF RowsTrue
    <2>1. PlanInv(r) /\ RowInv(r, row)
      BY <2>0 DEF WalkInv, RecordInv
    <2>2. ASSUME WentOn(r, row.of)
          PROVE  \E i \in 1..at[r] : i > IndexOf(r, row.of) /\ fate[r][plan[r][i]] # "skipped"
      <3>1. PICK i \in 1..at[r], j \in 1..at[r] :
               j < i /\ plan[r][j] = row.of /\ fate[r][plan[r][i]] # "skipped"
        BY <2>2 DEF WentOn
      <3>2. j \in 1..Len(plan[r])
        BY <2>0, PlanIs
      <3>3. IndexOf(r, row.of) = j
        BY <2>1, <3>1, <3>2, IndexIs
      <3> QED BY <3>1, <3>3
    <2> QED BY <2>1, <2>2 DEF RowInv
  <1> QED BY <1>1, InvAlways, PTL

\* The failure of a request is put on the candidate that ended it: the last to
\* fail, or one that refused when none failed; never one that was not reached
\* (Exhaust, Stop).
THEOREM StoppedCorrect == Spec => []StoppedTrue
  <1>1. ASSUME Inv PROVE StoppedTrue
    BY <1>1 DEF Inv, WalkInv, StopInv, StoppedTrue
  <1> QED BY <1>1, InvAlways, PTL

\* A candidate the walk moved past keeps nothing of its model's rate limits but
\* the request it was sent (DropModel, AdmitToModel).
THEOREM ModelsCorrect == Spec => []ModelsFreed
  <1>1. ASSUME Inv PROVE ModelsFreed
    BY <1>1 DEF Inv, WalkInv, ModelInv, ModelsFreed
  <1> QED BY <1>1, InvAlways, PTL

\* Once a tool loop has produced an assistant message no other candidate is
\* tried, whatever fails after it (LockIn, FailRun).
THEOREM NoFalloverCorrect == Spec => NoFallover
  <1>1. ASSUME Inv, [Next]_vars PROVE [\A r \in Requests : locked[r] => at'[r] = at[r]]_vars
    <2>0. TypeOK /\ \A r \in Requests : WalkInv(r)
      BY <1>1 DEF Inv
    <2>1. ASSUME NEW q \in Requests, Step(q), NEW r \in Requests, locked[r] PROVE at'[r] = at[r]
      <3>1. Others(q) /\ Kinds(q)
        BY <2>0, <2>1, KindOf
      <3>2. CASE r # q
        BY <3>1, <3>2 DEF Others
      <3>3. CASE r = q
        <4>1. pc[r] \notin Early \union {"new"}
          BY <2>0, <2>1 DEF WalkInv, CoverInv
        <4>2. ~Ranking(r) /\ ~Freed(r)
          BY <2>1, <4>1 DEF Ranking, Freed, Early
        <4> QED BY <3>1, <3>3, <4>2 DEF Kinds, PassingBy, Falling, Halting, Admitting, Sending,
                       ToppingUp, Locking, Ending, SamePlace
      <3> QED BY <3>2, <3>3
    <2>2. ASSUME NEW c \in Candidates, CoolOff(c) PROVE at' = at
      BY <2>2 DEF CoolOff, walk
    <2> QED BY <1>1, <2>1, <2>2 DEF Next, vars
  <1> QED BY <1>1, InvAlways, PTL DEF Spec, NoFallover
=============================================================================
