------------------------- MODULE BudgetLedgerProofs -------------------------
(***************************************************************************)
(* Proofs about BudgetLedger, for every set of users, ceilings and         *)
(* requests and every value of the other constants: its types, the life of *)
(* a ledger row, the caps, the refinement of Settlement, and the agreement *)
(* of counters, handles and rows.                                          *)
(***************************************************************************)
EXTENDS BudgetLedger, FiniteSetTheorems, TLAPS

-----------------------------------------------------------------------------
(* The operators on amounts.                                               *)

\* Pointwise sums, maxima and clamped differences of figures are figures.
LEMMA FigureOps ==
  ASSUME NEW S, NEW f \in [S -> Nat], NEW g \in [S -> Nat]
  PROVE  /\ Plus(f, g) \in [S -> Nat]
         /\ Larger(f, g) \in [S -> Nat]
         /\ Less(f, g) \in [S -> Nat]
  BY DEF Plus, Larger, Less

\* No figures are figures.
LEMMA ZeroType == Zero \in Amt /\ Nothing \in Amounts
  BY DEF Zero, Nothing, Amt, Amounts

\* The amounts one request holds are figures for every counter.
LEMMA HoldingType ==
  ASSUME NEW r \in Requests, NEW onUser \in BOOLEAN, NEW user \in Amt,
         NEW S, NEW scoped \in Amt
  PROVE  Holding(r, onUser, user, S, scoped) \in Amounts
  BY DEF Holding, Amounts, Amt, Cells

\* Spreading an amount over the cells of a set of counters gives one number per cell (the UPDATEs of hold and release).
LEMMA OnType ==
  ASSUME NEW r \in Requests, NEW amt \in Amt, NEW S
  PROVE  OnCeilings(r, S, amt) \in Amounts /\ OnUser(r, amt) \in Amounts
  BY HoldingType, ZeroType DEF OnCeilings, OnUser

\* Rolling windows keeps the figures figures.
LEMMA RolledType ==
  ASSUME NEW f \in Amounts, NEW C
  PROVE  Rolled(f, C) \in Amounts
  BY DEF Rolled, Amounts

\* Rolling the ended windows keeps the types of the counters (roll_ended_windows).
LEMMA RollWindowsType ==
  ASSUME NEW C, used \in Amounts, over \in Amounts, ended \subseteq Counters,
         RollWindows(C)
  PROVE  used' \in Amounts /\ over' \in Amounts /\ ended' \subseteq Counters
  BY RolledType DEF RollWindows

\* The rows, handles and growths a request is given have their types.
LEMMA RecordTypes ==
  ASSUME NEW r \in Requests, TypeOK
  PROVE  /\ NoRow \in Rows /\ NoTopUp \in TopUps
         /\ \A b \in BOOLEAN : /\ NoHandle(b) \in Handles
                              /\ AdmissionRow(r, b) \in Rows
         /\ \A b, id \in BOOLEAN : AdmissionHandle(r, b, id) \in Handles
         /\ Size[r] \in Amt /\ Grown[r] \in Amt
         /\ LoopAmt(r) \in Amt /\ LoopSet(r) \subseteq Ceilings
         /\ HeldBy(r, hdl[r]) \in Amounts
         /\ GrowthOf(r) \in Amounts
  <1> USE RequestAssumption
  <1>1. Size[r] \in Amt /\ Grown[r] \in Amt /\ Primary[r] \subseteq Ceilings
    OBVIOUS
  <1>2. hdl[r] \in Handles /\ top[r] \in TopUps /\ row[r] \in Rows
    BY DEF TypeOK
  <1>3. NoRow \in Rows /\ NoTopUp \in TopUps
    BY ZeroType DEF NoRow, NoTopUp, Rows, TopUps, Statuses
  <1>4. \A b \in BOOLEAN : NoHandle(b) \in Handles
    BY ZeroType DEF NoHandle, Handles
  <1>5. \A b \in BOOLEAN : AdmissionRow(r, b) \in Rows
    BY <1>1, HoldingType DEF AdmissionRow, Rows, Statuses
  <1>6. \A b, id \in BOOLEAN : AdmissionHandle(r, b, id) \in Handles
    BY <1>1, ZeroType DEF AdmissionHandle, Handles
  <1>7. LoopAmt(r) \in Amt /\ LoopSet(r) \subseteq Ceilings
    BY <1>1, <1>2 DEF LoopAmt, LoopSet, TopUps, Handles
  <1>8. HeldBy(r, hdl[r]) \in Amounts
    BY <1>2, HoldingType DEF HeldBy, Handles
  <1>9. GrowthOf(r) \in Amounts
    BY <1>2, HoldingType DEF GrowthOf, TopUps
  <1> QED BY <1>1, <1>3, <1>4, <1>5, <1>6, <1>7, <1>8, <1>9

\* The target of a move, its row and its handle have their types.
LEMMA MoveTypes ==
  ASSUME NEW r \in Requests, TypeOK
  PROVE  /\ Fallback[r] \subseteq Ceilings
         /\ MoveAmt(r) \in Amt
         /\ OnCeilings(r, Shared(r), MoveGrowth(r)) \in Amounts
         /\ MovedRow(r) \in Rows
         /\ Retargeted(r) \in Handles
         /\ Doubly(r) \in Amounts
  <1>1. Fallback[r] \subseteq Ceilings /\ FallbackUsd[r] \in Nat /\ Size[r] \in Amt
    BY RequestAssumption
  <1>2. hdl[r] \in Handles /\ row[r] \in Rows
    BY DEF TypeOK
  <1>3. MoveAmt(r) \in Amt
    BY <1>1, <1>2 DEF MoveAmt, MaxOf, Amt, Axes, Handles
  <1>4. OnCeilings(r, Shared(r), MoveGrowth(r)) \in Amounts
    <2>1. CASE hdl[r].budgets = {}
      BY <2>1 DEF OnCeilings, Holding, Shared, Amounts
    <2>2. CASE hdl[r].budgets # {}
      <3>1. MoveAmt(r)["usd"] - hdl[r].scoped["usd"] \in Nat
        BY <1>1, <1>2, <2>2 DEF MoveAmt, MaxOf, Amt, Axes, Handles
      <3>2. MoveGrowth(r) \in Amt
        BY <3>1 DEF MoveGrowth, Zero, Amt
      <3> QED BY <3>2, OnType
    <2> QED BY <2>1, <2>2
  <1>5. MovedRow(r) \in Rows
    <2>1. HeldBy(r, hdl[r]) \in Amounts
      BY RecordTypes
    <2>2. [k \in Cells |->
             IF k[1] \in Fallback[r] THEN MoveAmt(r)[k[2]]
             ELSE IF k[1] # UserOf[r] THEN 0
             ELSE IF hdl[r].id THEN row[r].held[k]
             ELSE HeldBy(r, hdl[r])[k]] \in Amounts
      BY <1>2, <1>3, <2>1 DEF Amounts, Amt, Cells, Rows
    <2> QED BY <1>1, <1>2, <2>2 DEF MovedRow, Rows, Statuses
  <1>6. Retargeted(r) \in Handles
    BY <1>1, <1>2, <1>3, ZeroType DEF Retargeted, Handles
  <1>7. Doubly(r) \in Amounts
    BY <1>2, OnType, RecordTypes DEF Doubly, Handles
  <1> QED BY <1>1, <1>3, <1>4, <1>5, <1>6, <1>7

\* A settlement adds use of its type.
LEMMA UseType ==
  ASSUME NEW r \in Requests, NEW use \in Uses[r], TypeOK
  PROVE  UseOn(r, use) \in Amounts
  <1>1. use \in Amt
    BY RequestAssumption
  <1>2. hdl[r] \in Handles
    BY DEF TypeOK
  <1>3. [a \in Axes |-> CASE a = "usd"    -> use["usd"]
                         [] a = "tokens" -> IF hdl[r].reserved THEN use["tokens"] ELSE 0
                         [] OTHER -> IF hdl[r].reserved
                                     THEN hdl[r].user["requests"] ELSE 0] \in Amt
    BY <1>1, <1>2 DEF Amt, Axes, Handles
  <1>4. [use EXCEPT !["requests"] = hdl[r].scoped["requests"]] \in Amt
    BY <1>1, <1>2 DEF Amt, Axes, Handles
  <1> QED BY <1>2, <1>3, <1>4, HoldingType DEF UseOn, Handles

\* The listing of expired rows has its type.
LEMMA ListedType ==
  ASSUME TypeOK, NEW S \in SUBSET Requests
  PROVE  Listed(S) \in SUBSET [r : Requests, user : Amt]
  <1>1. \A q \in Requests : [a \in Axes |-> row[q].held[<<UserOf[q], a>>]] \in Amt
    <2> SUFFICES ASSUME NEW q \in Requests, NEW a \in Axes
                 PROVE  row[q].held[<<UserOf[q], a>>] \in Nat
      BY DEF Amt
    <2>1. row[q].held \in [Cells -> Nat]
      BY DEF TypeOK, Rows, Amounts
    <2>2. <<UserOf[q], a>> \in Cells
      BY RequestAssumption DEF Cells, Counters
    <2> QED BY <2>1, <2>2
  <1> QED BY <1>1 DEF Listed

-----------------------------------------------------------------------------
(* Sums over the requests. Total counts units, so what it needs is facts   *)
(* about the cardinality of finite sets, and no induction.                 *)

Unit(f, r) == {r} \X (1..f[r])
Units(f)   == UNION {Unit(f, r) : r \in Requests}

\* The units of finitely many requests are finitely many.
LEMMA UnitsFinite ==
  ASSUME NEW f \in [Requests -> Nat]
  PROVE  /\ IsFiniteSet(Units(f))
         /\ \A r \in Requests : IsFiniteSet(Unit(f, r)) /\ Cardinality(Unit(f, r)) = f[r]
  <1>1. \A r \in Requests : IsFiniteSet(Unit(f, r)) /\ Cardinality(Unit(f, r)) = f[r]
    <2> SUFFICES ASSUME NEW r \in Requests
                 PROVE  IsFiniteSet(Unit(f, r)) /\ Cardinality(Unit(f, r)) = f[r]
      OBVIOUS
    <2>1. IsFiniteSet({r}) /\ Cardinality({r}) = 1
      BY FS_Singleton
    <2>2. IsFiniteSet(1..f[r]) /\ Cardinality(1..f[r]) = f[r]
      BY FS_Interval
    <2>3. IsFiniteSet({r} \X (1..f[r])) /\ Cardinality({r} \X (1..f[r])) = 1 * f[r]
      BY <2>1, <2>2, FS_Product
    <2> QED BY <2>3 DEF Unit
  <1>2. IsFiniteSet({Unit(f, r) : r \in Requests})
    <2> DEFINE T == {Unit(f, r) : r \in Requests}
               g == [r \in Requests |-> Unit(f, r)]
    <2>1. g \in Surjection(Requests, T)
      BY DEF Surjection
    <2> QED BY <2>1, FS_Surjection, SetsAssumption
  <1> QED BY <1>1, <1>2, FS_UNION DEF Units

\* The sum of what all requests hold is a natural number.
LEMMA TotalType ==
  ASSUME NEW f \in [Requests -> Nat]
  PROVE  Total(f) \in Nat /\ Total(f) = Cardinality(Units(f))
  BY UnitsFinite, FS_CardinalityType DEF Total, Units, Unit

\* A sum is one request's part and the sum of the others.
LEMMA TotalSplit ==
  ASSUME NEW f \in [Requests -> Nat], NEW r \in Requests
  PROVE  Total(f) = f[r] + Total([f EXCEPT ![r] = 0])
  <1> DEFINE g == [f EXCEPT ![r] = 0]
  <1>1. g \in [Requests -> Nat]
    OBVIOUS
  <1>2. Units(f) = Unit(f, r) \cup Units(g)
    <2>1. \A q \in Requests \ {r} : Unit(f, q) = Unit(g, q)
      BY DEF Unit
    <2>2. Unit(g, r) = {}
      BY DEF Unit
    <2> QED BY <2>1, <2>2 DEF Units
  <1>3. Unit(f, r) \cap Units(g) = {}
    BY DEF Unit, Units
  <1>4. Cardinality(Units(f)) = Cardinality(Unit(f, r)) + Cardinality(Units(g))
    <2>1. IsFiniteSet(Unit(f, r)) /\ IsFiniteSet(Units(g))
      BY <1>1, UnitsFinite
    <2>2. Cardinality(Unit(f, r) \cap Units(g)) = 0
      BY <1>3, FS_EmptySet
    <2>3. Cardinality(Unit(f, r)) \in Nat /\ Cardinality(Units(g)) \in Nat
      BY <2>1, FS_CardinalityType
    <2>4. Cardinality(Unit(f, r) \cup Units(g)) =
            Cardinality(Unit(f, r)) + Cardinality(Units(g)) - Cardinality(Unit(f, r) \cap Units(g))
      <3> HIDE DEF g
      <3> QED BY <2>1, FS_Union
    <2> QED BY <1>2, <2>2, <2>3, <2>4
  <1> QED BY <1>1, <1>4, UnitsFinite, TotalType

\* When one request's part changes, the sum changes by as much.
LEMMA TotalChange ==
  ASSUME NEW f \in [Requests -> Nat], NEW g \in [Requests -> Nat],
         NEW r \in Requests, \A q \in Requests \ {r} : g[q] = f[q]
  PROVE  Total(g) + f[r] = Total(f) + g[r]
  <1>1. [f EXCEPT ![r] = 0] = [g EXCEPT ![r] = 0]
    OBVIOUS
  <1>2. Total([f EXCEPT ![r] = 0]) \in Nat
    BY TotalType
  <1>3. Total(f) = f[r] + Total([f EXCEPT ![r] = 0])
    BY TotalSplit
  <1>4. Total(g) = g[r] + Total([g EXCEPT ![r] = 0])
    BY TotalSplit
  <1> QED BY <1>1, <1>2, <1>3, <1>4

\* A sum of larger parts is larger.
LEMMA TotalMonotone ==
  ASSUME NEW f \in [Requests -> Nat], NEW g \in [Requests -> Nat],
         \A q \in Requests : f[q] <= g[q]
  PROVE  Total(f) <= Total(g)
  <1>1. \A q \in Requests : Unit(f, q) \subseteq Unit(g, q)
    BY DEF Unit
  <1>2. Units(f) \subseteq Units(g)
    BY <1>1 DEF Units
  <1> QED BY <1>2, UnitsFinite, FS_Subset, TotalType

-----------------------------------------------------------------------------
(* Type correctness.                                                       *)

\* Every step of a request keeps the types.
LEMMA RequestType ==
  ASSUME TypeOK, NEW r \in Requests, Request(r)
  PROVE  TypeOK'
  <1> USE DEF sweepVars, history, Goto
  <1>1. /\ hdl[r] \in Handles /\ top[r] \in TopUps /\ row[r] \in Rows
        /\ taken[r] \subseteq Ceilings
    BY DEF TypeOK
  <1>2. r \in Procs
    BY DEF Procs
  <1>3. /\ Size[r] \in Amt /\ LoopAmt(r) \in Amt
        /\ top[r].scoped \in Amt /\ top[r].user \in Amt
        /\ hdl[r].scoped \in Amt /\ hdl[r].user \in Amt
    BY <1>1, RecordTypes DEF TopUps, Handles
  <1>4. \A f, g \in Amounts : Plus(f, g) \in Amounts /\ Less(f, g) \in Amounts
    BY FigureOps DEF Amounts
  <1>5. \A f, g \in Amt : Plus(f, g) \in Amt /\ Less(f, g) \in Amt
    BY FigureOps DEF Amt
  <1>6. \A amt \in Amt : \A S : OnCeilings(r, S, amt) \in Amounts /\ OnUser(r, amt) \in Amounts
    BY OnType
  <1>7. /\ NoRow \in Rows /\ NoTopUp \in TopUps
        /\ NoHandle(FALSE) \in Handles
        /\ HeldBy(r, hdl[r]) \in Amounts /\ GrowthOf(r) \in Amounts
        /\ Zero \in Amt /\ Nothing \in Amounts
    BY RecordTypes, ZeroType
  <1>8. CASE RejectUser(r)
    BY <1>8
    DEF RejectUser, TypeOK, Places
  <1>9. CASE AdmitExempt(r)
    BY <1>9, <1>7
    DEF AdmitExempt, TypeOK, Places
  <1>10. CASE LoadUser(r)
    BY <1>10, RollWindowsType
    DEF LoadUser, TypeOK, Places
  <1>11. CASE ListCeilings(r)
    BY <1>11, RollWindowsType
    DEF ListCeilings, TypeOK, Places
  <1>12. CASE ReclaimOwn(r)
    <2>1. Listed({q \in Requests : UserOf[q] = UserOf[r]}) \in SUBSET [r : Requests, user : Amt]
      BY ListedType
    <2> QED BY <1>12, <1>2, <2>1 DEF ReclaimOwn, TypeOK, Places
  <1>13. CASE \E c \in Ceilings : HoldCeiling(r, c)
    <2>1. PICK c \in Ceilings : HoldCeiling(r, c)
      BY <1>13
    <2>2. reserved' \in Amounts
      BY <2>1, <1>3, <1>4, <1>6 DEF HoldCeiling, TypeOK
    <2>3. taken' \in [Requests -> SUBSET Ceilings] /\ quiet' \subseteq Counters
      BY <2>1 DEF HoldCeiling, TypeOK
    <2>4. hdl' \in [Requests -> Handles]
      <3>1. CASE pc[r] = "tceil" /\ Todo(r) = {c}
        <4>1. hdl' = [hdl EXCEPT ![r].scoped = Plus(@, top[r].scoped)]
          BY <2>1, <3>1 DEF HoldCeiling
        <4> QED BY <4>1, <1>1, <1>3, <1>5 DEF TypeOK, Handles
      <3>2. CASE ~(pc[r] = "tceil" /\ Todo(r) = {c})
        BY <2>1, <3>2 DEF HoldCeiling, TypeOK
      <3> QED BY <3>1, <3>2
    <2>5. pc' \in [Requests -> Places]
      BY <2>1 DEF HoldCeiling, TypeOK, Places
    <2> QED BY <2>1, <2>2, <2>3, <2>4, <2>5 DEF HoldCeiling, TypeOK
  <1>14. CASE \E c \in Ceilings : RefuseCeiling(r, c)
    BY <1>14, <1>3, <1>4, <1>6
    DEF RefuseCeiling, TypeOK, Places
  <1>15. CASE GiveBack(r)
    BY <1>15, <1>3, <1>4, <1>6, <1>7
    DEF GiveBack, TypeOK, Places
  <1>16. CASE HoldUser(r)
    <2>1. AdmissionRow(r, TRUE) \in Rows /\ AdmissionHandle(r, TRUE, TRUE) \in Handles
      BY RecordTypes
    <2> QED BY <1>16, <1>3, <1>4, <1>6, <2>1 DEF HoldUser, TypeOK, Places
  <1>17. CASE RefuseUser(r)
    BY <1>17
    DEF RefuseUser, TypeOK, Places
  <1>18. CASE HoldUserUnsure(r)
    <2>1. AdmissionRow(r, TRUE) \in Rows
      BY RecordTypes
    <2>2. /\ reserved' \in Amounts /\ quiet' \subseteq Counters
          /\ row' \in [Requests -> Rows]
      <3> DEFINE held == Plus(reserved, OnUser(r, Size[r]))
      <3>1. held \in Amounts /\ [row EXCEPT ![r] = AdmissionRow(r, TRUE)] \in [Requests -> Rows]
        BY <1>3, <1>4, <1>6, <2>1 DEF TypeOK
      <3>2. \/ /\ reserved' = held
               /\ row' = [row EXCEPT ![r] = AdmissionRow(r, TRUE)]
               /\ quiet' = quiet \ {UserOf[r]}
            \/ UNCHANGED <<reserved, row, quiet>>
        BY <1>18 DEF HoldUserUnsure
      <3> HIDE DEF held
      <3> QED BY <3>1, <3>2 DEF TypeOK
    <2> QED BY <1>18, <2>2 DEF HoldUserUnsure, TypeOK, Places
  <1>19. CASE ReleaseUnrecorded(r)
    <2>1. [NoRow EXCEPT !.status = "released"] \in Rows
      BY <1>7 DEF Rows, Statuses
    <2> QED BY <1>19, <1>3, <1>4, <1>6, <2>1 DEF ReleaseUnrecorded, TypeOK, Places
  <1>20. CASE RecordHold(r)
    <2>1. /\ AdmissionRow(r, FALSE) \in Rows
          /\ \A id \in BOOLEAN : AdmissionHandle(r, FALSE, id) \in Handles
      BY RecordTypes
    <2>2. PICK outcome : /\ row' = IF outcome = "record" THEN row
                                   ELSE [row EXCEPT ![r] = AdmissionRow(r, FALSE)]
                         /\ hdl' = [hdl EXCEPT ![r] =
                                      AdmissionHandle(r, FALSE, outcome = "landed")]
      BY <1>20 DEF RecordHold
    <2>3. AdmissionHandle(r, FALSE, outcome = "landed") \in Handles
      BY <2>1
    <2>4. row' \in [Requests -> Rows] /\ hdl' \in [Requests -> Handles]
      BY <2>1, <2>2, <2>3 DEF TypeOK
    <2> QED BY <1>20, <2>4 DEF RecordHold, TypeOK, Places
  <1>21. CASE \E tool \in BOOLEAN : StartTopUp(r, tool)
    <2>1. PICK tool \in BOOLEAN : StartTopUp(r, tool)
      BY <1>21
    <2>2. NewSize(r, tool) \in Amt
      BY <1>1, <1>3, <1>7, RecordTypes, ParameterAssumption
      DEF NewSize, MaxOf, Amt, Axes
    <2>3. top' \in [Requests -> TopUps]
      BY <2>1, <2>2, <1>1, <1>3, <1>5, <1>7 DEF StartTopUp, TypeOK, TopUps, Handles
    <2> QED BY <2>1, <2>3 DEF StartTopUp, TypeOK, Places
  <1>22. CASE LoadUserAgain(r)
    <2>1. top' \in [Requests -> TopUps]
      BY <1>22, <1>1, <1>7 DEF LoadUserAgain, TypeOK, TopUps
    <2> QED BY <1>22, <2>1, RollWindowsType DEF LoadUserAgain, TypeOK, Places
  <1>23. CASE GrowUser(r)
    <2>1. hdl' \in [Requests -> Handles]
      BY <1>23, <1>1, <1>3, <1>5 DEF GrowUser, TypeOK, Handles
    <2> QED BY <1>23, <2>1, <1>3, <1>4, <1>6 DEF GrowUser, TypeOK, Places
  <1>24. CASE RefuseGrowth(r)
    BY <1>24, <1>7
    DEF RefuseGrowth, TypeOK, Places
  <1>25. CASE GiveBackGrowth(r)
    <2>1. hdl' \in [Requests -> Handles]
      BY <1>25, <1>1, <1>3, <1>5 DEF GiveBackGrowth, TypeOK, Handles
    <2> QED BY <1>25, <2>1, <1>3, <1>4, <1>6, <1>7 DEF GiveBackGrowth, TypeOK, Places
  <1>26. CASE GrowUserFails(r)
    <2>1. hdl' \in [Requests -> Handles]
      <3>1. CASE top[r].tool
        <4>1. hdl' = [hdl EXCEPT ![r].scoped = Less(@, top[r].scoped)]
          BY <1>26, <3>1 DEF GrowUserFails
        <4> QED BY <4>1, <1>1, <1>3, <1>5 DEF TypeOK, Handles
      <3>2. CASE ~top[r].tool
        BY <1>26, <3>2 DEF GrowUserFails, TypeOK
      <3> QED BY <3>1, <3>2
    <2>2. reserved' \in Amounts /\ quiet' \subseteq Counters
      <3>1. \/ UNCHANGED <<reserved, quiet>>
            \/ /\ reserved' = Plus(reserved, OnUser(r, top[r].user))
               /\ quiet' = quiet \ {UserOf[r]}
        BY <1>26 DEF GrowUserFails
      <3> QED BY <3>1, <1>3, <1>4, <1>6 DEF TypeOK
    <2>3. pc' \in [Requests -> Places] /\ top' \in [Requests -> TopUps]
      <3>1. \E w \in Places : pc' = [pc EXCEPT ![r] = w]
        BY <1>26 DEF GrowUserFails, Places
      <3>2. top' = [top EXCEPT ![r] = NoTopUp]
        BY <1>26 DEF GrowUserFails
      <3> QED BY <3>1, <3>2, <1>7 DEF TypeOK
    <2> QED BY <1>26, <2>1, <2>2, <2>3 DEF GrowUserFails, TypeOK
  <1>27. CASE GrowRow(r)
    <2>1. row' \in [Requests -> Rows]
      BY <1>27, <1>1, <1>4, <1>7 DEF GrowRow, TypeOK, Rows
    <2> QED BY <1>27, <2>1, <1>7 DEF GrowRow, TypeOK, Places
  <1>28. CASE GrowRowFails(r)
    <2>1. row' \in [Requests -> Rows]
      BY <1>28, <1>1, <1>4, <1>7 DEF GrowRowFails, TypeOK, Rows
    <2>2. hdl' \in [Requests -> Handles]
      <3>1. CASE top[r].tool
        <4>1. hdl' = [hdl EXCEPT ![r].scoped = Less(@, top[r].scoped),
                                 ![r].user   = Less(@, top[r].user),
                                 ![r].reserved = top[r].reserved]
          BY <1>28, <3>1 DEF GrowRowFails
        <4> QED BY <4>1, <1>1, <1>3, <1>5 DEF TypeOK, Handles, TopUps
      <3>2. CASE ~top[r].tool
        BY <1>28, <3>2 DEF GrowRowFails, TypeOK
      <3> QED BY <3>1, <3>2
    <2> QED BY <1>28, <2>1, <2>2, <1>7 DEF GrowRowFails, TypeOK, Places
  <1>29. CASE GrowLost(r)
    <2>1. hdl' \in [Requests -> Handles]
      BY <1>29, <1>1, <1>3, <1>5 DEF GrowLost, TypeOK, Handles
    <2>2. top' \in [Requests -> TopUps]
      BY <1>29, <1>1, <1>7 DEF GrowLost, TypeOK, TopUps
    <2> QED BY <1>29, <2>1, <2>2, <1>3, <1>4, <1>6 DEF GrowLost, TypeOK, Places
  <1>30. CASE ReturnUserGrowth(r)
    <2>1. hdl' \in [Requests -> Handles]
      BY <1>30, <1>1, <1>3, <1>5 DEF ReturnUserGrowth, TypeOK, Handles
    <2> QED BY <1>30, <2>1, <1>3, <1>4, <1>6, <1>7 DEF ReturnUserGrowth, TypeOK, Places
  <1>31. CASE Move(r)
    <2>1. reserved' \in Amounts
      BY <1>31, MoveTypes, <1>3, <1>4, <1>6 DEF Move, MoveHolds, TypeOK
    <2>2. row' \in [Requests -> Rows] /\ hdl' \in [Requests -> Handles]
      BY <1>31, MoveTypes DEF Move, MoveHolds, TypeOK
    <2> QED BY <1>31, <2>1, <2>2, RollWindowsType DEF Move, MoveHolds, TypeOK
  <1>37. CASE MoveUntold(r)
    <2>1. reserved' \in Amounts
      BY <1>37, MoveTypes, <1>3, <1>4, <1>6 DEF MoveUntold, MoveHolds, TypeOK
    <2>2. row' \in [Requests -> Rows] /\ doubled' \in Amounts
      BY <1>37, <1>4, MoveTypes DEF MoveUntold, MoveHolds, TypeOK
    <2> QED BY <1>37, <2>1, <2>2, RollWindowsType DEF MoveUntold, MoveHolds, TypeOK, Places
  <1>38. CASE MoveFails(r)
    <2>1. [NoRow EXCEPT !.status = "released"] \in Rows
      BY <1>7 DEF Rows, Statuses
    <2>2. row' \in [Requests -> Rows]
      BY <1>38, <2>1 DEF MoveFails, TypeOK
    <2>3. /\ pc' = [pc EXCEPT ![r] = "refused"] /\ changes' = [changes EXCEPT ![r] = @ + 1]
          /\ UNCHANGED <<reserved, used, expired, quiet, ended, budgeted, leg, hdl, taken,
                         top, sweepVars, history>>
      BY <1>38 DEF MoveFails
    <2> QED BY <2>2, <2>3 DEF TypeOK, Places
  <1>32. CASE RefuseMove(r)
    BY <1>32, RollWindowsType
    DEF RefuseMove, TypeOK, Places
  <1>33. CASE MoveReclaimed(r)
    BY <1>33, MoveTypes
    DEF MoveReclaimed, TypeOK, Places
  <1>34. CASE \E use \in Uses[r] : Settle(r, use)
    <2>1. PICK use \in Uses[r] : Settle(r, use)
      BY <1>34
    <2> DEFINE adds  == IF (Claims(r) \/ Reclaimed(r)) /\ hdl[r].counts
                        THEN UseOn(r, use) ELSE Nothing
               gives == IF Claims(r) THEN HeldBy(r, hdl[r]) ELSE Nothing
    <2>2. adds \in Amounts /\ gives \in Amounts
      BY <1>7, UseType
    <2>3. /\ used' = Plus(used, adds) /\ reserved' = Less(reserved, gives)
          /\ over' = Plus(over, Less(adds, Less(reserved, reserved')))
      BY <2>1 DEF Settle
    <2>4. used' \in Amounts /\ reserved' \in Amounts /\ over' \in Amounts
      <3> HIDE DEF adds, gives
      <3> QED BY <2>2, <2>3, <1>4 DEF TypeOK
    <2>5. row' \in [Requests -> Rows]
      BY <2>1, <1>1 DEF Settle, TypeOK, Rows, Statuses
    <2>6. billed' \in [Requests -> Nat]
      BY <2>1 DEF Settle, TypeOK
    <2>7. first' \in [Requests -> {"none", "settle", "refund"}] /\ pc' \in [Requests -> Places]
      BY <2>1 DEF Settle, Finish, TypeOK, Places
    <2>9. doubled' \in Amounts
      <3>1. doubled' = doubled \/ doubled' = Plus(doubled, gives)
        BY <2>1 DEF Settle
      <3> QED BY <2>2, <3>1, <1>4 DEF TypeOK
    <2>8. quiet' \subseteq Counters
      BY <2>1 DEF Settle, TypeOK
    <2> QED BY <2>1, <2>4, <2>5, <2>6, <2>7, <2>8, <2>9 DEF Settle, TypeOK
  <1>35. CASE Refund(r)
    <2>1. reserved' \in Amounts
      BY <1>35, <1>4, <1>7 DEF Refund, TypeOK
    <2>2. row' \in [Requests -> Rows]
      BY <1>35, <1>1 DEF Refund, TypeOK, Rows, Statuses
    <2> QED BY <1>35, <2>1, <2>2 DEF Refund, Finish, TypeOK, Places
  <1>36. CASE Crash(r)
    BY <1>36, <1>2
    DEF Crash, TypeOK, Places
  <1> QED BY <1>8, <1>9, <1>10, <1>11, <1>12, <1>13, <1>14, <1>15, <1>16, <1>17, <1>18, <1>19, <1>20, <1>21, <1>22, <1>23, <1>24, <1>25, <1>26, <1>27, <1>28, <1>29, <1>30, <1>31, <1>32, <1>33, <1>34, <1>35, <1>36, <1>37, <1>38 DEF Request

\* What a reclaim gives back, and what the orphan pass leaves.
LEMMA ReclaimType ==
  ASSUME TypeOK, NEW p \in Procs, NEW x \in batch[p], Reclaim(p, x)
  PROVE  TypeOK'
  <1> DEFINE gives == [k \in Cells |-> IF k[1] = UserOf[x.r] THEN x.user[k[2]]
                                       ELSE row[x.r].held[k]]
  <1>1. x.r \in Requests /\ x.user \in Amt
    BY DEF TypeOK
  <1>2. gives \in Amounts
    BY <1>1 DEF TypeOK, Amounts, Amt, Cells, Rows
  <1>3. reserved' \in Amounts /\ quiet' \subseteq Counters
    <2>1. \/ reserved' = Less(reserved, gives) /\ quiet' = quiet \ Support(gives)
          \/ UNCHANGED <<reserved, quiet>>
      BY DEF Reclaim
    <2>2. Less(reserved, gives) \in Amounts
      BY <1>2, FigureOps DEF TypeOK, Amounts
    <2> QED BY <2>1, <2>2 DEF TypeOK
  <1>4. row' \in [Requests -> Rows]
    <2>1. row' = [row EXCEPT ![x.r].status = "expired"] \/ row' = row
      BY DEF Reclaim
    <2>2. row[x.r] \in Rows
      BY <1>1 DEF TypeOK
    <2>3. [row EXCEPT ![x.r].status = "expired"] \in [Requests -> Rows]
      BY <1>1, <2>2 DEF TypeOK, Rows, Statuses
    <2> QED BY <2>1, <2>3 DEF TypeOK
  <1>5. batch' \in [Procs -> SUBSET [r : Requests, user : Amt]]
    BY DEF Reclaim, TypeOK
  <1> QED BY <1>3, <1>4, <1>5 DEF Reclaim, TypeOK, history

\* What the active rows hold on a counter is a number.
LEMMA RecordedType ==
  ASSUME TypeOK, NEW k \in Cells
  PROVE  RecordedOn(k) \in Nat
  <1>1. \A r \in Requests : RowHeld(r) \in Amounts
    BY ZeroType DEF RowHeld, TypeOK, Rows
  <1>2. [r \in Requests |-> RowHeld(r)[k]] \in [Requests -> Nat]
    BY <1>1 DEF Amounts
  <1> QED BY <1>2, TotalType DEF RecordedOn

\* Every step of the sweeper preserves the types.
LEMMA SweepType ==
  ASSUME TypeOK, Sweep
  PROVE  TypeOK'
  <1> USE DEF history
  <1>1. Sweeper \in Procs
    BY DEF Procs
  <1>2. CASE SweepList
    <2>1. Listed(Requests) \in SUBSET [r : Requests, user : Amt]
      BY ListedType
    <2> QED BY <1>1, <1>2, <2>1 DEF SweepList, TypeOK
  <1>3. CASE SweepScan
    BY <1>3 DEF SweepScan, TypeOK, Support
  <1>4. CASE SweepPrune
    <2>1. NoRow \in Rows
      BY ZeroType DEF NoRow, Rows, Statuses
    <2>2. PICK S : row' = [r \in Requests |-> IF r \in S THEN NoRow ELSE row[r]]
      BY <1>4 DEF SweepPrune
    <2>3. row' \in [Requests -> Rows]
      BY <2>1, <2>2 DEF TypeOK
    <2> QED BY <1>4, <2>3 DEF SweepPrune, TypeOK
  <1>5. CASE SweepFails
    BY <1>1, <1>5 DEF SweepFails, TypeOK
  <1>6. ASSUME NEW c \in Counters, SweepClamp(c)
        PROVE  TypeOK'
    <2> DEFINE clamped == [k \in Cells |->
           IF k[1] = c /\ reserved[k] > RecordedOn(k) THEN RecordedOn(k)
           ELSE reserved[k]]
    <2>1. clamped \in Amounts
      BY RecordedType DEF TypeOK, Amounts
    <2>2. reserved' \in Amounts /\ quiet' \subseteq Counters
      <3>1. reserved' \in {clamped, reserved} /\ quiet' \subseteq quiet
        BY <1>6 DEF SweepClamp
      <3> QED BY <2>1, <3>1 DEF TypeOK
    <2> QED BY <1>6, <2>2 DEF SweepClamp, TypeOK
  <1> QED BY <1>2, <1>3, <1>4, <1>5, <1>6 DEF Sweep

\* Every step of time and of the administrator preserves the types.
LEMMA ClockType ==
  ASSUME TypeOK,
         \/ \E r \in Requests : Expire(r)
         \/ \E c \in Counters : GoQuiet(c) \/ EndWindow(c)
         \/ \E u \in Users : AssignBudget(u)
  PROVE  TypeOK'
  BY DEF Expire, GoQuiet, EndWindow, AssignBudget, TypeOK, sweepVars, history, Counters

\* Every variable keeps its type along every behaviour: counters and holds
\* never go negative, although releases race for them.
THEOREM TypeCorrect == Spec => []TypeOK
  <1>1. Init => TypeOK
    BY ZeroType, ParameterAssumption
    DEF Init, TypeOK, NoRow, Rows, Statuses, Places, NoHandle, Handles, NoTopUp,
        TopUps, Counters
  <1>2. TypeOK /\ [Next]_vars => TypeOK'
    <2> SUFFICES ASSUME TypeOK, [Next]_vars
                 PROVE  TypeOK'
      OBVIOUS
    <2>1. CASE UNCHANGED vars
      BY <2>1 DEF vars, TypeOK
    <2>2. CASE Next
      BY <2>2, RequestType, ReclaimType, SweepType, ClockType DEF Next
    <2> QED BY <2>1, <2>2
  <1> QED BY <1>1, <1>2, PTL DEF Spec

-----------------------------------------------------------------------------
(* One request's step is its own.                                          *)

\* The row and the local state of one request.
Local(q) == <<row[q], pc[q], leg[q], hdl[q], taken[q], top[q], changes[q],
              billed[q], first[q]>>

\* A request's step leaves the row and the local state of the others alone.
LEMMA Locality ==
  ASSUME TypeOK, NEW r \in Requests, Request(r), NEW q \in Requests, q # r
  PROVE  UNCHANGED Local(q)
  <1> USE DEF sweepVars, history, Goto, Local, TypeOK
  <1>1. CASE RejectUser(r)
    BY <1>1 DEF RejectUser
  <1>2. CASE AdmitExempt(r)
    BY <1>2 DEF AdmitExempt
  <1>3. CASE LoadUser(r)
    BY <1>3 DEF LoadUser
  <1>4. CASE ListCeilings(r)
    BY <1>4 DEF ListCeilings
  <1>5. CASE ReclaimOwn(r)
    BY <1>5 DEF ReclaimOwn
  <1>6. CASE \E c \in Ceilings : HoldCeiling(r, c)
    BY <1>6 DEF HoldCeiling
  <1>7. CASE \E c \in Ceilings : RefuseCeiling(r, c)
    BY <1>7 DEF RefuseCeiling
  <1>8. CASE GiveBack(r)
    BY <1>8 DEF GiveBack
  <1>9. CASE HoldUser(r)
    BY <1>9 DEF HoldUser
  <1>10. CASE RefuseUser(r)
    BY <1>10 DEF RefuseUser
  <1>11. CASE HoldUserUnsure(r)
    BY <1>11 DEF HoldUserUnsure
  <1>12. CASE ReleaseUnrecorded(r)
    BY <1>12 DEF ReleaseUnrecorded
  <1>13. CASE RecordHold(r)
    BY <1>13 DEF RecordHold
  <1>14. CASE \E tool \in BOOLEAN : StartTopUp(r, tool)
    BY <1>14 DEF StartTopUp
  <1>15. CASE LoadUserAgain(r)
    BY <1>15 DEF LoadUserAgain
  <1>16. CASE GrowUser(r)
    BY <1>16 DEF GrowUser
  <1>17. CASE RefuseGrowth(r)
    BY <1>17 DEF RefuseGrowth
  <1>18. CASE GiveBackGrowth(r)
    BY <1>18 DEF GiveBackGrowth
  <1>19. CASE GrowUserFails(r)
    BY <1>19 DEF GrowUserFails
  <1>20. CASE GrowRow(r)
    BY <1>20 DEF GrowRow
  <1>21. CASE GrowRowFails(r)
    BY <1>21 DEF GrowRowFails
  <1>22. CASE GrowLost(r)
    BY <1>22 DEF GrowLost
  <1>23. CASE ReturnUserGrowth(r)
    BY <1>23 DEF ReturnUserGrowth
  <1>24. CASE Move(r)
    BY <1>24 DEF Move, MoveHolds
  <1>25. CASE RefuseMove(r)
    BY <1>25 DEF RefuseMove
  <1>26. CASE MoveReclaimed(r)
    BY <1>26 DEF MoveReclaimed
  <1>27. CASE \E use \in Uses[r] : Settle(r, use)
    BY <1>27 DEF Settle, Finish
  <1>28. CASE Refund(r)
    BY <1>28 DEF Refund, Finish
  <1>29. CASE Crash(r)
    BY <1>29 DEF Crash
  <1>30. CASE MoveUntold(r) \/ MoveFails(r)
    BY <1>30 DEF MoveUntold, MoveFails, MoveHolds
  <1> QED BY <1>1, <1>2, <1>3, <1>4, <1>5, <1>6, <1>7, <1>8, <1>9, <1>10, <1>11, <1>12, <1>13, <1>14, <1>15, <1>16, <1>17, <1>18, <1>19, <1>20, <1>21, <1>22, <1>23, <1>24, <1>25, <1>26, <1>27, <1>28, <1>29, <1>30 DEF Request

-----------------------------------------------------------------------------
(* The life of a ledger row. A commit that lands and reports a failure      *)
(* ("lie") is excluded from here on: LedgerLostRecord.cfg shows what it     *)
(* breaks.                                                                 *)

Arriving == {"idle", "scope", "reclaim", "ceilings", "giveback"}
Serving  == Places \ (Arriving \cup Over \cup {"unsure"})

\* A running request has a row exactly when its handle names it; nothing is billed
\* before the request is finalized; once it is, the row its handle names is not
\* active, and a row that is still "expired" is one whose use nobody recorded. A
\* second settlement is due only of a handle that names no row.
LifeAt(r) ==
  /\ pc[r] \in Arriving => row[r].status = "none" /\ ~hdl[r].id
  /\ pc[r] = "unsure" => ~hdl[r].id
  /\ pc[r] \in Serving /\ hdl[r].id => row[r].status \in {"active", "expired"}
  /\ pc[r] \in Serving \ {"refused", "again"} /\ ~hdl[r].id => row[r].status = "none"
  /\ pc[r] \notin {"again", "done", "dead"} => billed[r] = 0 /\ first[r] = "none"
  /\ pc[r] = "again" =>
       "db" \in Faults /\ ~hdl[r].id /\ billed[r] = 1 /\ first[r] = "settle"
  /\ pc[r] = "dead" =>
       \/ billed[r] = 0 /\ first[r] = "none"
       \/ billed[r] = 1 /\ first[r] = "settle" /\ ~hdl[r].id
  /\ pc[r] = "done" =>
       /\ billed[r] <= IF hdl[r].id \/ "db" \notin Faults THEN 1 ELSE 2
       /\ first[r] # "none"
       /\ first[r] = "settle" => billed[r] >= 1
       /\ hdl[r].id => row[r].status # "active"
       /\ hdl[r].id /\ row[r].status = "expired" => billed[r] = 0
LifeInv == \A r \in Requests : LifeAt(r)

\* How one step of its own may change the status of a row.
Lawful(r) ==
  LET old == row[r].status  new == row'[r].status IN
  new # old => \/ old = "none" /\ new \in {"active", "released"}
               \/ old = "active" /\ new \in Terminal
               \/ old = "expired" /\ new = "settled"
               \/ old \in Terminal /\ new = "none" /\ pc[r] \in Over

\* A step of a request keeps the life cycle of its row.
LEMMA RequestLife ==
  ASSUME "lie" \notin Faults, TypeOK, LifeInv, NEW r \in Requests, Request(r)
  PROVE  LifeAt(r)' /\ Lawful(r)
  <1> USE DEF sweepVars, history, Goto, LifeAt, Lawful, Arriving, Serving, Places, Over, Terminal
  <1>1. /\ LifeAt(r) /\ hdl[r] \in Handles /\ row[r] \in Rows /\ top[r] \in TopUps
        /\ pc[r] \in Places /\ billed[r] \in Nat
    BY DEF TypeOK, LifeInv
  <1>2. pc \in [Requests -> Places] /\ hdl \in [Requests -> Handles]
        /\ row \in [Requests -> Rows] /\ billed \in [Requests -> Nat]
        /\ first \in [Requests -> {"none", "settle", "refund"}]
    BY DEF TypeOK
  <1>3. CASE RejectUser(r)
    BY <1>3, <1>1, <1>2 DEF RejectUser
  <1>4. CASE AdmitExempt(r)
    BY <1>4, <1>1, <1>2 DEF AdmitExempt, NoHandle
  <1>5. CASE LoadUser(r)
    BY <1>5, <1>1, <1>2 DEF LoadUser
  <1>6. CASE ListCeilings(r)
    BY <1>6, <1>1, <1>2 DEF ListCeilings
  <1>7. CASE ReclaimOwn(r)
    BY <1>7, <1>1, <1>2 DEF ReclaimOwn
  <1>8. CASE \E c \in Ceilings : HoldCeiling(r, c)
    BY <1>8, <1>1, <1>2 DEF HoldCeiling, InLoop, Handles
  <1>9. CASE \E c \in Ceilings : RefuseCeiling(r, c)
    BY <1>9, <1>1, <1>2 DEF RefuseCeiling, InLoop
  <1>10. CASE GiveBack(r)
    BY <1>10, <1>1, <1>2 DEF GiveBack
  <1>11. CASE HoldUser(r)
    BY <1>11, <1>1, <1>2 DEF HoldUser, AdmissionRow, AdmissionHandle, CeilingsHeld
  <1>12. CASE RefuseUser(r)
    BY <1>12, <1>1, <1>2 DEF RefuseUser, CeilingsHeld
  <1>13. CASE HoldUserUnsure(r)
    <2>1. /\ pc[r] = "ceilings" /\ pc'[r] = "unsure"
          /\ UNCHANGED <<hdl, billed, first>>
      BY <1>13, <1>2 DEF HoldUserUnsure, CeilingsHeld
    <2>2. row'[r] = AdmissionRow(r, TRUE) \/ row' = row
      BY <1>13, <1>2 DEF HoldUserUnsure
    <2>3. row[r].status = "none" /\ row'[r].status \in {"none", "active"}
      BY <1>1, <2>1, <2>2 DEF AdmissionRow
    <2> QED BY <1>1, <2>1, <2>3
  <1>14. CASE ReleaseUnrecorded(r)
    BY <1>14, <1>1, <1>2 DEF ReleaseUnrecorded, NoRow
  <1>15. CASE RecordHold(r)
    <2>1. /\ pc[r] = "ceilings" /\ pc'[r] = "running"
          /\ UNCHANGED <<billed, first>>
      BY <1>15, <1>2 DEF RecordHold, CeilingsHeld
    <2>2. \/ /\ row' = row
             /\ hdl'[r] = AdmissionHandle(r, FALSE, FALSE)
          \/ /\ row'[r] = AdmissionRow(r, FALSE)
             /\ hdl'[r] = AdmissionHandle(r, FALSE, TRUE)
      <3>1. PICK outcome \in {"landed", "record"} :
               /\ row' = IF outcome = "record" THEN row
                         ELSE [row EXCEPT ![r] = AdmissionRow(r, FALSE)]
               /\ hdl' = [hdl EXCEPT ![r] =
                            AdmissionHandle(r, FALSE, outcome = "landed")]
        BY <1>15 DEF RecordHold
      <3>2. CASE outcome = "landed"
        <4>1. (outcome = "landed") = TRUE
          BY <3>2
        <4> QED BY <1>2, <3>1, <3>2, <4>1
      <3>3. CASE outcome = "record"
        <4>1. (outcome = "landed") = FALSE
          BY <3>3
        <4> QED BY <1>2, <3>1, <3>3, <4>1
      <3> QED BY <3>1, <3>2, <3>3
    <2>3. \/ row'[r].status = "none" /\ ~hdl'[r].id
          \/ row'[r].status = "active" /\ hdl'[r].id
      BY <1>1, <2>1, <2>2 DEF AdmissionRow, AdmissionHandle
    <2> QED BY <1>1, <2>1, <2>3
  <1>16. CASE \E tool \in BOOLEAN : StartTopUp(r, tool)
    BY <1>16, <1>1, <1>2 DEF StartTopUp
  <1>17. CASE LoadUserAgain(r)
    BY <1>17, <1>1, <1>2 DEF LoadUserAgain
  <1>18. CASE GrowUser(r)
    BY <1>18, <1>1, <1>2 DEF GrowUser, Handles
  <1>19. CASE RefuseGrowth(r)
    BY <1>19, <1>1, <1>2 DEF RefuseGrowth
  <1>20. CASE GiveBackGrowth(r)
    BY <1>20, <1>1, <1>2 DEF GiveBackGrowth, Handles
  <1>21. CASE GrowUserFails(r)
    BY <1>21, <1>1, <1>2 DEF GrowUserFails, Handles
  <1>22. CASE GrowRow(r)
    BY <1>22, <1>1, <1>2 DEF GrowRow, Active, Rows
  <1>23. CASE GrowRowFails(r)
    BY <1>23, <1>1, <1>2 DEF GrowRowFails, Active, Rows, Handles
  <1>24. CASE GrowLost(r)
    BY <1>24, <1>1, <1>2 DEF GrowLost, Handles
  <1>25. CASE ReturnUserGrowth(r)
    BY <1>25, <1>1, <1>2 DEF ReturnUserGrowth, Handles
  <1>26. CASE Move(r)
    <2>1. /\ pc[r] = "running" /\ UNCHANGED <<pc, billed, first>>
          /\ hdl[r].id => row[r].status = "active"
          /\ row'[r] = MovedRow(r) /\ hdl'[r] = Retargeted(r)
      BY <1>26, <1>2 DEF Move, MoveHolds, CanMove, Active
    <2>2. Retargeted(r).id = (hdl[r].id \/ Fallback[r] # {})
      BY <1>1 DEF Retargeted, Handles
    <2>3. CASE hdl[r].id \/ Fallback[r] # {}
      <3>1. row'[r].status = "active"
        BY <2>1, <2>3 DEF MovedRow
      <3> QED BY <1>1, <2>1, <2>2, <2>3, <3>1
    <2>4. CASE ~(hdl[r].id \/ Fallback[r] # {})
      <3>1. row'[r] = row[r]
        BY <2>1, <2>4 DEF MovedRow
      <3> QED BY <1>1, <2>1, <2>2, <2>4, <3>1
    <2> QED BY <2>3, <2>4
  <1>27. CASE RefuseMove(r)
    BY <1>27, <1>1, <1>2 DEF RefuseMove, CanMove
  <1>28. CASE MoveReclaimed(r)
    BY <1>28, <1>1, <1>2 DEF MoveReclaimed, CanMove, Retargeted, Handles
  <1>29. CASE \E use \in Uses[r] : Settle(r, use)
    <2> DEFINE acts == Claims(r) \/ Reclaimed(r)
    <2>1. PICK use \in Uses[r] : Settle(r, use)
      BY <1>29
    <2>2. /\ pc[r] \in {"running", "refused", "again"} \/ (pc[r] = "done" /\ hdl[r].id)
          /\ \/ pc'[r] = "done"
             \/ /\ pc'[r] = "again" /\ pc[r] \in {"running", "refused"}
                /\ "db" \in Faults /\ ~hdl[r].id
          /\ UNCHANGED hdl
      <3>1. /\ MayFinalize(r) /\ UNCHANGED hdl
            /\ \/ pc' = [pc EXCEPT ![r] = "done"]
               \/ /\ pc' = [pc EXCEPT ![r] = "again"] /\ pc[r] \in {"running", "refused"}
                  /\ "db" \in Faults /\ ~hdl[r].id
        BY <2>1 DEF Settle, Finish
      <3> QED BY <3>1, <1>2 DEF MayFinalize
    <2>3. /\ billed'[r] = IF acts THEN billed[r] + 1 ELSE billed[r]
          /\ first'[r] = IF first[r] = "none" THEN "settle" ELSE first[r]
          /\ row'[r].status = IF hdl[r].id /\ acts THEN "settled" ELSE row[r].status
      BY <2>1, <1>1, <1>2 DEF Settle, Finish, Rows
    <2>4. acts <=> (hdl[r].id => row[r].status \in {"active", "expired"})
      BY DEF Claims, Reclaimed, Active
    <2> HIDE DEF acts
    <2>5. CASE acts /\ pc[r] = "again"
      BY <1>1, <2>2, <2>3, <2>5
    <2>6. CASE acts /\ pc[r] # "again"
      <3>1. billed[r] = 0 /\ billed'[r] = 1
        BY <1>1, <2>2, <2>3, <2>4, <2>6
      <3>2. hdl[r].id => row'[r].status = "settled"
        BY <2>3, <2>6
      <3>3. pc[r] # "done" => first'[r] = "settle"
        BY <1>1, <2>2, <2>3, <2>6
      <3>4. LifeAt(r)'
        BY <1>1, <2>2, <2>3, <3>1, <3>2, <3>3
      <3>5. Lawful(r)
        BY <2>3, <2>4, <2>6
      <3> QED BY <3>4, <3>5
    <2>7. CASE ~acts
      <3>1. pc[r] = "done" /\ hdl[r].id
        BY <1>1, <2>2, <2>4, <2>7
      <3>2. /\ billed'[r] = billed[r] /\ row'[r].status = row[r].status
        BY <2>3, <2>7
      <3>3. first'[r] = first[r]
        BY <1>1, <2>3, <3>1
      <3> QED BY <1>1, <2>2, <3>1, <3>2, <3>3
    <2> QED BY <2>5, <2>6, <2>7
  <1>30. CASE Refund(r)
    BY <1>30, <1>1, <1>2 DEF Refund, Claims, Active, MayFinalize, Finish, Rows
  <1>31. CASE Crash(r)
    BY <1>31, <1>1, <1>2 DEF Crash
  <1>32. CASE MoveUntold(r)
    <2>1. /\ pc[r] = "running" /\ pc'[r] = "refused" /\ UNCHANGED <<hdl, billed, first>>
          /\ hdl[r].id => row[r].status = "active"
          /\ row'[r] = MovedRow(r)
      BY <1>32, <1>2 DEF MoveUntold, MoveHolds, CanMove, Active
    <2>2. IF hdl[r].id \/ Fallback[r] # {} THEN row'[r].status = "active" ELSE row'[r] = row[r]
      BY <2>1 DEF MovedRow
    <2> QED BY <1>1, <2>1, <2>2
  <1>33. CASE MoveFails(r)
    <2>1. /\ pc[r] = "running" /\ pc'[r] = "refused" /\ UNCHANGED <<hdl, billed, first>>
          /\ \/ row'[r] = row[r]
             \/ ~hdl[r].id /\ row'[r].status = "released"
      BY <1>33, <1>2 DEF MoveFails, CanMove, NoRow
    <2> QED BY <1>1, <2>1
  <1> QED BY <1>3, <1>4, <1>5, <1>6, <1>7, <1>8, <1>9, <1>10, <1>11, <1>12, <1>13, <1>14, <1>15, <1>16, <1>17, <1>18, <1>19, <1>20, <1>21, <1>22, <1>23, <1>24, <1>25, <1>26, <1>27, <1>28, <1>29, <1>30, <1>31, <1>32, <1>33 DEF Request

\* A step of the sweep or of the clock is lawful for every row.
LEMMA SweepLife ==
  ASSUME TypeOK, LifeInv, Next, ~(\E r \in Requests : Request(r)), NEW q \in Requests
  PROVE  LifeAt(q)' /\ Lawful(q)
  <1> USE DEF sweepVars, history, LifeAt, Lawful, Arriving, Serving, Places, Over, Terminal
  <1>1. /\ LifeAt(q) /\ row[q] \in Rows /\ row \in [Requests -> Rows]
        /\ \A p \in Procs : \A x \in batch[p] : x.r \in Requests
    BY DEF TypeOK, LifeInv
  <1>2. CASE \E p \in Procs : \E x \in batch[p] : Reclaim(p, x)
    <2>p. PICK p \in Procs : \E x \in batch[p] : Reclaim(p, x)
      BY <1>2
    <2>1. PICK x \in batch[p] : Reclaim(p, x)
      BY <2>p
    <2>2. UNCHANGED <<pc, hdl, billed, first>>
      BY <2>1 DEF Reclaim
    <2>3. \/ row'[q] = row[q]
          \/ row[q].status = "active" /\ row'[q].status = "expired"
      BY <2>1, <1>1 DEF Reclaim, Active, Rows
    <2> QED BY <1>1, <2>2, <2>3
  <1>3. CASE SweepPrune
    <2>1. UNCHANGED <<pc, hdl, billed, first>>
      BY <1>3 DEF SweepPrune
    <2>2. \/ row'[q] = row[q]
          \/ /\ row[q].status \in Terminal /\ pc[q] \in Over
             /\ row'[q] = NoRow
      <3>1. PICK S \in SUBSET {r \in expired : row[r].status \in Terminal /\ pc[r] \in Over} :
              row' = [r \in Requests |-> IF r \in S THEN NoRow ELSE row[r]]
        BY <1>3 DEF SweepPrune
      <3> QED BY <3>1
    <2>3. NoRow.status = "none"
      BY DEF NoRow
    <2> QED BY <1>1, <2>1, <2>2, <2>3
  <1>4. CASE SweepList \/ SweepScan \/ SweepFails \/ \E c \in Counters : SweepClamp(c)
    BY <1>1, <1>4 DEF SweepList, SweepScan, SweepFails, SweepClamp
  <1>5. CASE \/ \E r \in Requests : Expire(r)
             \/ \E c \in Counters : GoQuiet(c) \/ EndWindow(c)
             \/ \E u \in Users : AssignBudget(u)
    BY <1>1, <1>5 DEF Expire, GoQuiet, EndWindow, AssignBudget
  <1> QED BY <1>2, <1>3, <1>4, <1>5 DEF Next, Sweep

\* No step breaks the life cycle of a row, and the row changes as RowLifecycle says.
LEMMA LifeStep ==
  ASSUME "lie" \notin Faults, TypeOK, LifeInv, [Next]_vars
  PROVE  LifeInv' /\ (\A q \in Requests : Lawful(q))
  <1>1. CASE UNCHANGED vars
    BY <1>1 DEF vars, LifeInv, LifeAt, Lawful
  <1>2. CASE \E r \in Requests : Request(r)
    <2>1. PICK r \in Requests : Request(r)
      BY <1>2
    <2>2. LifeAt(r)' /\ Lawful(r)
      BY <2>1, RequestLife
    <2>3. ASSUME NEW q \in Requests, q # r
          PROVE  LifeAt(q)' /\ Lawful(q)
      <3>1. UNCHANGED Local(q)
        BY <2>1, <2>3, Locality
      <3> QED BY <3>1 DEF Local, LifeInv, LifeAt, Lawful
    <2> QED BY <2>2, <2>3 DEF LifeInv
  <1>3. CASE Next /\ ~(\E r \in Requests : Request(r))
    BY <1>3, SweepLife DEF LifeInv
  <1> QED BY <1>1, <1>2, <1>3

\* When no ledger commit lands unacknowledged, the phase of a request, its handle
\* and its row agree on whether the hold is still to be finalized, and by whom.
THEOREM LifeCorrect ==
  ASSUME "lie" \notin Faults
  PROVE  Spec => []LifeInv
  <1>1. Init => LifeInv
    BY DEF Init, LifeInv, LifeAt, NoRow, NoHandle, Arriving, Serving, Places, Over
  <1>2. TypeOK /\ LifeInv /\ [Next]_vars => LifeInv'
    BY LifeStep
  <1> QED BY <1>1, <1>2, TypeCorrect, PTL DEF Spec

\* Of every settlement, refund and sweep that races for a ledger row exactly
\* one ends its activity, and only a late settlement follows an expiry.
THEOREM RowLifecycleCorrect ==
  ASSUME "lie" \notin Faults
  PROVE  Spec => RowLifecycle
  <1>1. TypeOK /\ LifeInv /\ [Next]_vars =>
          [\A r \in Requests :
             LET old == row[r].status  new == row'[r].status IN
             new # old => \/ old = "none" /\ new \in {"active", "released"}
                          \/ old = "active" /\ new \in Terminal
                          \/ old = "expired" /\ new = "settled"
                          \/ old \in Terminal /\ new = "none" /\ pc[r] \in Over]_row
    BY LifeStep DEF Lawful
  <1> QED BY <1>1, TypeCorrect, LifeCorrect, PTL DEF Spec, RowLifecycle

\* A settled request is billed, and exactly once whichever of its finalizations
\* and of the sweeps come first, unless its handle names no row and the commit of
\* its settlement reported a failure: then it is billed no more than twice.
THEOREM BilledOnceCorrect ==
  ASSUME "lie" \notin Faults
  PROVE  Spec => []BilledOnce
  <1>1. LifeInv => BilledOnce
    BY DEF LifeInv, LifeAt, BilledOnce
  <1> QED BY <1>1, LifeCorrect, PTL

-----------------------------------------------------------------------------
(***************************************************************************)
(* The caps of BudgetLedger hold: concurrent holds, top-ups, moves and     *)
(* window rolls never commit more than a budget allows.                    *)
(***************************************************************************)

\* The use no hold covered is part of the use, and use and holds exceed a cap
\* by no more than that. Unlike CapRespected it is about every counter, also of
\* users that have no budget now.
CapInv ==
  \A k \in Cells :
    /\ over[k] <= used[k]
    /\ Cap[k] \in Nat => used[k] + reserved[k] <= Cap[k] + over[k]

\* What a top-up of a free request adds to the user leg has no dollars, so the
\* gate need not ask about them.
TopFree ==
  \A r \in Free : ~top[r].tool => top[r].user["usd"] = 0

\* A cell is the pair of its counter and its axis.
LEMMA CellPair ==
  ASSUME NEW k \in Cells
  PROVE  k = <<k[1], k[2]>> /\ k[1] \in Counters /\ k[2] \in Axes
  BY DEF Cells

\* What a hold on one user or on a set of ceilings is on one cell.
LEMMA HoldingAt ==
  ASSUME NEW r \in Requests, NEW amt \in Amt, NEW S \in SUBSET Ceilings, NEW k \in Cells
  PROVE  /\ OnCeilings(r, S, amt)[k] = IF k[1] \in S THEN amt[k[2]] ELSE 0
         /\ OnUser(r, amt)[k] = IF k[1] = UserOf[r] THEN amt[k[2]] ELSE 0
  <1>1. UserOf[r] \notin Ceilings
    BY RequestAssumption, SetsAssumption
  <1> QED BY <1>1 DEF OnCeilings, OnUser, Holding

\* A step that only lowers holds keeps the caps.
LEMMA LowerKeepsCap ==
  ASSUME TypeOK, TypeOK', CapInv, UNCHANGED <<used, over>>,
         \A k \in Cells : reserved'[k] <= reserved[k]
  PROVE  CapInv'
  BY DEF CapInv, TypeOK, Amounts

\* A step that rolls windows and adds no hold keeps the caps.
LEMMA RollKeepsCap ==
  ASSUME TypeOK, CapInv, NEW C, RollWindows(C), reserved' = reserved
  PROVE  CapInv'
  BY DEF CapInv, TypeOK, Amounts, RollWindows, Rolled

\* A conditional hold on c, for which every capped axis it adds to has room,
\* keeps the caps.
LEMMA HoldKeepsCap ==
  ASSUME TypeOK, TypeOK', CapInv, UNCHANGED <<used, over>>,
         NEW c, NEW amt \in Amt,
         \A a \in Axes : Cap[<<c, a>>] # NoCap =>
            amt[a] = 0 \/ used[<<c, a>>] + reserved[<<c, a>>] + amt[a] <= Cap[<<c, a>>],
         \A k \in Cells : reserved'[k] <= reserved[k] + (IF k[1] = c THEN amt[k[2]] ELSE 0)
  PROVE  CapInv'
  <1> SUFFICES ASSUME NEW k \in Cells, Cap[k] \in Nat
               PROVE  used[k] + reserved'[k] <= Cap[k] + over[k]
    BY DEF CapInv
  <1>1. /\ used[k] \in Nat /\ reserved[k] \in Nat /\ reserved'[k] \in Nat /\ over[k] \in Nat
        /\ amt[k[2]] \in Nat
    BY CellPair DEF TypeOK, Amounts, Amt
  <1>2. used[k] + reserved[k] <= Cap[k] + over[k]
    BY DEF CapInv
  <1>3. CASE k[1] # c
    BY <1>1, <1>2, <1>3
  <1>4. CASE k[1] = c
    <2>1. Cap[k] # NoCap
      BY SetsAssumption
    <2>2. amt[k[2]] = 0 \/ used[k] + reserved[k] + amt[k[2]] <= Cap[k]
      BY <1>4, <2>1, CellPair
    <2>3. reserved'[k] <= reserved[k] + amt[k[2]]
      BY <1>4
    <2> QED BY <1>1, <1>2, <2>2, <2>3
  <1> QED BY <1>3, <1>4

\* A clamped release never raises a figure, a sum is a sum.
LEMMA FigureAt ==
  ASSUME NEW f \in Amounts, NEW g \in Amounts, NEW k \in Cells
  PROVE  /\ Plus(f, g)[k] = f[k] + g[k]
         /\ Less(f, g)[k] = IF f[k] >= g[k] THEN f[k] - g[k] ELSE 0
         /\ Less(f, g)[k] <= f[k]
         /\ f[k] \in Nat /\ g[k] \in Nat
  BY DEF Plus, Less, Amounts

\* No step gives a free request a top-up that costs money.
LEMMA RequestTopFree ==
  ASSUME TypeOK, TopFree, NEW r \in Requests, Request(r)
  PROVE  TopFree'
  <1> USE DEF sweepVars, history
  <1>1. top \in [Requests -> TopUps] /\ top[r] \in TopUps /\ hdl[r] \in Handles
    BY DEF TypeOK
  <1>2. NoTopUp.user["usd"] = 0 /\ Zero["usd"] = 0
    BY DEF NoTopUp, Zero, Axes
  <1>3. Free \subseteq Requests
    BY ParameterAssumption
  <1>4. CASE UNCHANGED top
    BY <1>4 DEF TopFree
  <1>5. CASE top' = [top EXCEPT ![r] = NoTopUp]
    BY <1>1, <1>2, <1>3, <1>5 DEF TopFree
  <1>6. CASE \E tool \in BOOLEAN : StartTopUp(r, tool)
    <2>1. PICK tool \in BOOLEAN : StartTopUp(r, tool)
      BY <1>6
    <2>2. /\ top'[r].user = Less(NewSize(r, tool), hdl[r].user) /\ top'[r].tool = tool
          /\ \A q \in Requests \ {r} : top'[q] = top[q]
      BY <1>1, <2>1 DEF StartTopUp
    <2>3. ASSUME r \in Free, ~tool
          PROVE  Less(NewSize(r, tool), hdl[r].user)["usd"] = 0
      <3>1. NewSize(r, tool) = Grown[r] /\ Grown[r]["usd"] = 0 /\ Grown[r] \in Amt
        BY <2>3, RequestAssumption DEF NewSize
      <3>2. hdl[r].user \in Amt
        BY <1>1 DEF Handles
      <3> QED BY <3>1, <3>2 DEF Less, Amt, Axes
    <2> QED BY <1>3, <2>2, <2>3 DEF TopFree
  <1>7. CASE LoadUserAgain(r)
    <2>1. /\ top'[r].user \in {top[r].user, Zero} /\ top'[r].tool = top[r].tool
          /\ \A q \in Requests \ {r} : top'[q] = top[q]
      BY <1>1, <1>7 DEF LoadUserAgain, TopUps
    <2> QED BY <1>2, <1>3, <2>1 DEF TopFree
  <1>8. CASE GrowLost(r)
    <2>1. /\ top'[r].user = top[r].user /\ top'[r].tool = top[r].tool
          /\ \A q \in Requests \ {r} : top'[q] = top[q]
      BY <1>1, <1>8 DEF GrowLost, TopUps
    <2> QED BY <1>3, <2>1 DEF TopFree
  <1>9. CASE GiveBack(r) \/ GiveBackGrowth(r) \/ GrowUserFails(r) \/ GrowRow(r)
             \/ GrowRowFails(r) \/ ReturnUserGrowth(r)
    BY <1>5, <1>9 DEF GiveBack, GiveBackGrowth, GrowUserFails, GrowRow, GrowRowFails,
                      ReturnUserGrowth
  <1>10. CASE RefuseGrowth(r)
    <2>1. UNCHANGED top \/ top' = [top EXCEPT ![r] = NoTopUp]
      BY <1>10 DEF RefuseGrowth
    <2> QED BY <1>4, <1>5, <2>1
  <1>11. CASE \/ RejectUser(r) \/ AdmitExempt(r) \/ LoadUser(r) \/ ListCeilings(r)
              \/ ReclaimOwn(r) \/ HoldUser(r) \/ RefuseUser(r) \/ HoldUserUnsure(r)
              \/ ReleaseUnrecorded(r) \/ RecordHold(r) \/ GrowUser(r)
    BY <1>4, <1>11 DEF RejectUser, AdmitExempt, LoadUser, ListCeilings, ReclaimOwn,
       HoldUser, RefuseUser, HoldUserUnsure, ReleaseUnrecorded, RecordHold, GrowUser
  <1>12. CASE \/ \E c \in Ceilings : HoldCeiling(r, c) \/ RefuseCeiling(r, c)
              \/ Move(r) \/ MoveUntold(r) \/ MoveFails(r) \/ RefuseMove(r) \/ MoveReclaimed(r)
              \/ \E use \in Uses[r] : Settle(r, use)
              \/ Refund(r) \/ Crash(r)
    BY <1>4, <1>12 DEF HoldCeiling, RefuseCeiling, Move, MoveUntold, MoveFails, RefuseMove, MoveReclaimed,
       Settle, Refund, Crash
  <1> QED BY <1>6, <1>7, <1>8, <1>9, <1>10, <1>11, <1>12 DEF Request

\* A settlement adds to the use what it takes off the holds and what it books
\* as use no hold covered.
LEMMA SettleKeepsCap ==
  ASSUME TypeOK, CapInv, NEW r \in Requests, NEW use \in Uses[r], Settle(r, use)
  PROVE  CapInv'
  <1> DEFINE adds  == IF (Claims(r) \/ Reclaimed(r)) /\ hdl[r].counts
                      THEN UseOn(r, use) ELSE Nothing
             gives == IF Claims(r) THEN HeldBy(r, hdl[r]) ELSE Nothing
  <1>1. adds \in Amounts /\ gives \in Amounts
    BY UseType, RecordTypes, ZeroType
  <1>2. /\ used' = Plus(used, adds) /\ reserved' = Less(reserved, gives)
        /\ over' = Plus(over, Less(adds, Less(reserved, reserved')))
    BY DEF Settle
  <1> HIDE DEF adds, gives
  <1>3. reserved \in Amounts /\ used \in Amounts /\ over \in Amounts
    BY DEF TypeOK
  <1>4. reserved' \in Amounts /\ Less(reserved, reserved') \in Amounts
        /\ Less(adds, Less(reserved, reserved')) \in Amounts
    BY <1>1, <1>2, <1>3, FigureOps DEF Amounts
  <1> SUFFICES ASSUME NEW k \in Cells
               PROVE  /\ over'[k] <= used'[k]
                      /\ Cap[k] \in Nat => used'[k] + reserved'[k] <= Cap[k] + over'[k]
    BY DEF CapInv
  <1>5. /\ used'[k] = used[k] + adds[k]
        /\ reserved'[k] <= reserved[k]
        /\ over'[k] = over[k] + Less(adds, Less(reserved, reserved'))[k]
    BY <1>1, <1>2, <1>3, <1>4, FigureAt
  <1>6. Less(reserved, reserved')[k] = reserved[k] - reserved'[k]
    BY <1>3, <1>4, <1>5, FigureAt
  <1>7. /\ Less(adds, Less(reserved, reserved'))[k] <= adds[k]
        /\ Less(adds, Less(reserved, reserved'))[k] >= adds[k] - (reserved[k] - reserved'[k])
    BY <1>1, <1>4, <1>6, FigureAt
  <1>8. /\ used[k] \in Nat /\ reserved[k] \in Nat /\ over[k] \in Nat /\ adds[k] \in Nat
        /\ reserved'[k] \in Nat /\ Less(adds, Less(reserved, reserved'))[k] \in Nat
    BY <1>1, <1>3, <1>4, FigureAt
  <1> QED BY <1>5, <1>7, <1>8 DEF CapInv

\* A move is gated on the ceilings it adds and on those it grows.
LEMMA MoveKeepsCap ==
  ASSUME TypeOK, CapInv, NEW r \in Requests, MoveHolds(r)
  PROVE  CapInv'
  <1> DEFINE add  == OnCeilings(r, Added(r), MoveAmt(r))
             grow == OnCeilings(r, Shared(r), MoveGrowth(r))
             drop == OnCeilings(r, Dropped(r), hdl[r].scoped)
  <1>1. /\ reserved \in Amounts /\ used \in Amounts /\ over \in Amounts
        /\ hdl[r] \in Handles /\ MoveAmt(r) \in Amt /\ Fallback[r] \subseteq Ceilings
    BY MoveTypes DEF TypeOK
  <1>2. add \in Amounts /\ grow \in Amounts /\ drop \in Amounts
    BY <1>1, MoveTypes, OnType DEF Handles
  <1>3. /\ MoveAdmitted(r) /\ RollWindows(Added(r))
        /\ reserved' = Less(Plus(reserved, Plus(add, grow)), drop)
    BY DEF MoveHolds
  <1>4. Plus(add, grow) \in Amounts /\ Plus(reserved, Plus(add, grow)) \in Amounts
    BY <1>1, <1>2, FigureOps DEF Amounts
  <1>5. UserOf[r] \notin Ceilings
    BY RequestAssumption, SetsAssumption
  <1> SUFFICES ASSUME NEW k \in Cells
               PROVE  /\ over'[k] <= used'[k]
                      /\ Cap[k] \in Nat => used'[k] + reserved'[k] <= Cap[k] + over'[k]
    BY DEF CapInv
  <1>6. reserved'[k] <= reserved[k] + (add[k] + grow[k])
    <2> HIDE DEF add, grow, drop
    <2> QED BY <1>1, <1>2, <1>3, <1>4, FigureAt
  <1>7. /\ used[k] \in Nat /\ reserved[k] \in Nat /\ over[k] \in Nat
        /\ add[k] \in Nat /\ grow[k] \in Nat /\ k[1] \in Counters /\ k[2] \in Axes
        /\ reserved'[k] \in Nat
    <2> HIDE DEF add, grow, drop
    <2> QED BY <1>1, <1>2, <1>3, <1>4, FigureOps, FigureAt, CellPair DEF Amounts
  <1>8. /\ k[1] \notin Added(r) => add[k] = 0
        /\ k[1] \in Added(r) => add[k] = MoveAmt(r)[k[2]]
        /\ k[1] \notin Shared(r) => grow[k] = 0
        /\ k[1] \in Shared(r) => grow[k] = MoveGrowth(r)[k[2]]
    BY <1>1, <1>5 DEF OnCeilings, Holding, Added, Shared
  <1> HIDE DEF add, grow, drop
  <1>9. /\ over[k] <= used[k]
        /\ Cap[k] \in Nat => used[k] + reserved[k] <= Cap[k] + over[k]
    BY DEF CapInv
  <1>10. Cap[k] \in Nat => Cap[k] # NoCap
    BY SetsAssumption
  <1>11. k = <<k[1], k[2]>>
    BY CellPair
  <1>12. CASE k[1] \in Added(r)
    <2>1. k[1] \notin Shared(r)
      BY <1>12 DEF Added, Shared
    <2>2. \/ used'[k] = used[k] /\ over'[k] = over[k]
          \/ used'[k] = 0 /\ over'[k] = 0
      BY <1>3 DEF RollWindows, Rolled
    <2>3. used'[k] = Rolled(used, Added(r))[k]
      BY <1>3 DEF RollWindows
    <2>4. CASE MoveFree(r) /\ k[2] = "usd"
      <3>1. MoveAmt(r)[k[2]] = 0
        BY <2>4 DEF MoveFree
      <3> QED BY <1>6, <1>7, <1>8, <1>9, <1>12, <2>1, <2>2, <3>1
    <2>5. CASE ~(MoveFree(r) /\ k[2] = "usd")
      <3>1. Cap[k] \in Nat => used'[k] + reserved[k] + MoveAmt(r)[k[2]] <= Cap[k]
        BY <1>3, <1>7, <1>10, <1>11, <1>12, <2>3, <2>5 DEF MoveAdmitted, Admits
      <3> QED BY <1>6, <1>7, <1>8, <1>9, <1>12, <2>1, <2>2, <3>1
    <2> QED BY <2>4, <2>5
  <1>13. CASE k[1] \notin Added(r)
    <2>1. used'[k] = used[k] /\ over'[k] = over[k]
      BY <1>3, <1>13 DEF RollWindows, Rolled
    <2>2. CASE k[1] \in Shared(r) /\ MoveGrowth(r) # Zero
      <3>1. Cap[k] \in Nat => used[k] + reserved[k] + MoveGrowth(r)[k[2]] <= Cap[k]
        BY <1>3, <1>7, <1>10, <1>11, <2>2 DEF MoveAdmitted, Admits
      <3> QED BY <1>6, <1>7, <1>8, <1>9, <1>13, <2>1, <2>2, <3>1
    <2>3. CASE ~(k[1] \in Shared(r) /\ MoveGrowth(r) # Zero)
      <3>1. grow[k] = 0
        BY <1>7, <1>8, <2>3 DEF Zero
      <3> QED BY <1>6, <1>7, <1>8, <1>9, <1>13, <2>1, <3>1
    <2> QED BY <2>2, <2>3
  <1> QED BY <1>12, <1>13

\* Every step of a request keeps the caps.
LEMMA RequestCap ==
  ASSUME TypeOK, CapInv, TopFree, NEW r \in Requests, Request(r)
  PROVE  CapInv'
  <1> USE DEF sweepVars, history
  <1>1. TypeOK'
    BY RequestType
  <1>2. /\ reserved \in Amounts /\ used \in Amounts /\ over \in Amounts
        /\ hdl[r] \in Handles /\ top[r] \in TopUps /\ taken[r] \in SUBSET Ceilings
    BY DEF TypeOK
  <1>3. /\ Size[r] \in Amt /\ top[r].scoped \in Amt /\ top[r].user \in Amt
        /\ hdl[r].budgets \in SUBSET Ceilings
        /\ LoopAmt(r) \in Amt /\ LoopSet(r) \subseteq Ceilings
        /\ HeldBy(r, hdl[r]) \in Amounts /\ Nothing \in Amounts
    BY <1>2, RecordTypes, ZeroType DEF TopUps, Handles
  <1>4. \A amt \in Amt : \A S : OnCeilings(r, S, amt) \in Amounts /\ OnUser(r, amt) \in Amounts
    BY OnType
  <1>5. r \in Free => Size[r]["usd"] = 0
    BY RequestAssumption
  <1>6. ASSUME UNCHANGED <<used, over>>, NEW g \in Amounts, reserved' = Less(reserved, g)
        PROVE  CapInv'
    BY <1>1, <1>2, <1>6, LowerKeepsCap, FigureAt
  <1>7. ASSUME UNCHANGED <<used, over, reserved>>
        PROVE  CapInv'
    BY <1>7 DEF CapInv
  <1>8. ASSUME UNCHANGED <<used, over>>, NEW c \in Counters, NEW amt \in Amt,
               \A a \in Axes : Cap[<<c, a>>] # NoCap =>
                 amt[a] = 0 \/ used[<<c, a>>] + reserved[<<c, a>>] + amt[a] <= Cap[<<c, a>>],
               \/ (c = UserOf[r] /\ reserved' = Plus(reserved, OnUser(r, amt)))
               \/ (c \in Ceilings /\ reserved' = Plus(reserved, OnCeilings(r, {c}, amt)))
        PROVE  CapInv'
    <2>1. \A k \in Cells : reserved'[k] <= reserved[k] + (IF k[1] = c THEN amt[k[2]] ELSE 0)
      <3> SUFFICES ASSUME NEW k \in Cells
                   PROVE  reserved'[k] <= reserved[k] + (IF k[1] = c THEN amt[k[2]] ELSE 0)
        OBVIOUS
      <3>1. amt[k[2]] \in Nat /\ reserved[k] \in Nat
        BY <1>2, CellPair DEF Amounts, Amt
      <3>2. CASE c = UserOf[r] /\ reserved' = Plus(reserved, OnUser(r, amt))
        <4>0. OnUser(r, amt) \in Amounts
          BY <1>4
        <4>1. reserved'[k] = reserved[k] + OnUser(r, amt)[k]
          BY <1>2, <3>2, <4>0, FigureAt
        <4>2. OnUser(r, amt)[k] = IF k[1] = c THEN amt[k[2]] ELSE 0
          BY <3>2, HoldingAt
        <4> QED BY <3>1, <4>1, <4>2
      <3>3. CASE c \in Ceilings /\ reserved' = Plus(reserved, OnCeilings(r, {c}, amt))
        <4>0. OnCeilings(r, {c}, amt) \in Amounts
          BY <1>4
        <4>1. reserved'[k] = reserved[k] + OnCeilings(r, {c}, amt)[k]
          BY <1>2, <3>3, <4>0, FigureAt
        <4>2. OnCeilings(r, {c}, amt)[k] = IF k[1] \in {c} THEN amt[k[2]] ELSE 0
          BY <3>3, HoldingAt
        <4> QED BY <3>1, <4>1, <4>2
      <3> QED BY <1>8, <3>2, <3>3
    <2> QED BY <1>1, <1>8, <2>1, HoldKeepsCap
  <1>9. ASSUME NEW c \in Ceilings, UNCHANGED <<used, over>>, InLoop(r), LoopAdmits(r, c),
               reserved' = Plus(reserved, OnCeilings(r, {c}, LoopAmt(r)))
        PROVE  CapInv'
    <2>1. pc[r] = "ceilings" /\ r \in Free => LoopAmt(r)["usd"] = 0
      BY <1>5 DEF LoopAmt
    <2>2. \A a \in Axes : Cap[<<c, a>>] # NoCap =>
            \/ LoopAmt(r)[a] = 0
            \/ used[<<c, a>>] + reserved[<<c, a>>] + LoopAmt(r)[a] <= Cap[<<c, a>>]
      BY <1>9, <2>1 DEF LoopAdmits, Admits
    <2> QED BY <1>3, <1>8, <1>9, <2>2 DEF Counters
  <1> DEFINE UserRoom(amt) == \A a \in Axes : Cap[<<UserOf[r], a>>] # NoCap =>
               \/ amt[a] = 0
               \/ used[<<UserOf[r], a>>] + reserved[<<UserOf[r], a>>] + amt[a]
                    <= Cap[<<UserOf[r], a>>]
  <1>u. UserOf[r] \in Counters
    BY RequestAssumption DEF Counters
  <1>10. CASE \/ RejectUser(r) \/ AdmitExempt(r) \/ ReclaimOwn(r) \/ RefuseUser(r)
              \/ RecordHold(r) \/ RefuseGrowth(r) \/ GrowRow(r) \/ GrowRowFails(r)
              \/ MoveReclaimed(r) \/ MoveFails(r) \/ Crash(r)
              \/ \E tool \in BOOLEAN : StartTopUp(r, tool)
    BY <1>7, <1>10 DEF RejectUser, AdmitExempt, ReclaimOwn, RefuseUser, RecordHold,
       RefuseGrowth, GrowRow, GrowRowFails, MoveReclaimed, MoveFails, Crash, StartTopUp
  <1>11. CASE LoadUser(r) \/ ListCeilings(r) \/ LoadUserAgain(r) \/ RefuseMove(r)
    BY <1>11, RollKeepsCap DEF LoadUser, ListCeilings, LoadUserAgain, RefuseMove
  <1>12. CASE GiveBack(r)
    <2>1. \E g \in Amounts : reserved' = Less(reserved, g)
      BY <1>12, <1>3, <1>4 DEF GiveBack
    <2> QED BY <1>6, <1>12, <2>1 DEF GiveBack
  <1>13. CASE ReleaseUnrecorded(r)
    <2>1. (\E g \in Amounts : reserved' = Less(reserved, g)) \/ reserved' = reserved
      BY <1>13, <1>3, <1>4 DEF ReleaseUnrecorded
    <2> QED BY <1>6, <1>7, <1>13, <2>1 DEF ReleaseUnrecorded
  <1>14. CASE GiveBackGrowth(r) \/ GrowLost(r) \/ ReturnUserGrowth(r)
    <2>1. \E g \in Amounts : reserved' = Less(reserved, g)
      BY <1>14, <1>3, <1>4 DEF GiveBackGrowth, GrowLost, ReturnUserGrowth
    <2> QED BY <1>6, <1>14, <2>1 DEF GiveBackGrowth, GrowLost, ReturnUserGrowth
  <1>15. CASE Refund(r)
    <2>1. \E g \in Amounts : reserved' = Less(reserved, g)
      BY <1>15, <1>3 DEF Refund
    <2> QED BY <1>6, <1>15, <2>1 DEF Refund
  <1>16. CASE \E c \in Ceilings : HoldCeiling(r, c)
    BY <1>9, <1>16 DEF HoldCeiling
  <1>17. CASE \E c \in Ceilings : RefuseCeiling(r, c)
    <2>1. PICK c \in Ceilings : RefuseCeiling(r, c)
      BY <1>17
    <2>2. UNCHANGED <<used, over>> /\ InLoop(r)
      BY <2>1 DEF RefuseCeiling
    <2>3. \/ reserved' = reserved
          \/ LoopAdmits(r, c) /\ reserved' = Plus(reserved, OnCeilings(r, {c}, LoopAmt(r)))
      BY <2>1 DEF RefuseCeiling
    <2> QED BY <1>7, <1>9, <2>2, <2>3
  <1>18. CASE HoldUser(r)
    <2>1. /\ UNCHANGED <<used, over>> /\ UserRoom(Size[r])
          /\ reserved' = Plus(reserved, OnUser(r, Size[r]))
      BY <1>5, <1>18 DEF HoldUser, Admits
    <2> QED BY <1>3, <1>8, <1>u, <2>1
  <1>19. CASE HoldUserUnsure(r)
    <2>1. /\ UNCHANGED <<used, over>> /\ UserRoom(Size[r])
          /\ \/ reserved' = Plus(reserved, OnUser(r, Size[r]))
             \/ reserved' = reserved
      BY <1>5, <1>19 DEF HoldUserUnsure, Admits
    <2> QED BY <1>3, <1>7, <1>8, <1>u, <2>1
  <1>20. r \in Free /\ ~top[r].tool => top[r].user["usd"] = 0
    BY DEF TopFree
  <1>21. CASE GrowUser(r)
    <2>1. /\ UNCHANGED <<used, over>> /\ UserRoom(top[r].user)
          /\ reserved' = Plus(reserved, OnUser(r, top[r].user))
      BY <1>20, <1>21 DEF GrowUser, Admits
    <2> QED BY <1>3, <1>8, <1>u, <2>1
  <1>22. CASE GrowUserFails(r)
    <2>1. /\ UNCHANGED <<used, over>>
          /\ \/ reserved' = reserved
             \/ /\ UserRoom(top[r].user)
                /\ reserved' = Plus(reserved, OnUser(r, top[r].user))
      BY <1>20, <1>22 DEF GrowUserFails, Admits
    <2> QED BY <1>3, <1>7, <1>8, <1>u, <2>1
  <1>23. CASE Move(r) \/ MoveUntold(r)
    BY <1>23, MoveKeepsCap DEF Move, MoveUntold
  <1>24. CASE \E use \in Uses[r] : Settle(r, use)
    BY <1>24, SettleKeepsCap
  <1> QED BY <1>10, <1>11, <1>12, <1>13, <1>14, <1>15, <1>16, <1>17, <1>18, <1>19,
             <1>21, <1>22, <1>23, <1>24 DEF Request

\* So do the steps of the sweeps.
LEMMA SweepCap ==
  ASSUME TypeOK, TypeOK', CapInv,
         (\E p \in Procs : \E x \in batch[p] : Reclaim(p, x)) \/ Sweep
  PROVE  CapInv'
  <1> USE DEF sweepVars, history
  <1>1. ASSUME UNCHANGED <<used, over>>, \A k \in Cells : reserved'[k] <= reserved[k]
        PROVE  CapInv'
    BY <1>1, LowerKeepsCap
  <1>2. reserved \in Amounts
    BY DEF TypeOK
  <1>3. ASSUME NEW p \in Procs, NEW x \in batch[p], Reclaim(p, x)
        PROVE  CapInv'
    <2>1. UNCHANGED <<used, over>>
      BY <1>3 DEF Reclaim
    <2>2. x.r \in Requests /\ x.user \in Amt
      BY <1>3 DEF TypeOK
    <2>3. row[x.r].held \in Amounts
      BY <2>2 DEF TypeOK, Rows
    <2> DEFINE gives == [k \in Cells |-> IF k[1] = UserOf[x.r] THEN x.user[k[2]]
                                         ELSE row[x.r].held[k]]
    <2>4. gives \in Amounts
      BY <2>2, <2>3, CellPair DEF Amounts, Amt
    <2>5. reserved' = reserved \/ reserved' = Less(reserved, gives)
      BY <1>3 DEF Reclaim
    <2> HIDE DEF gives
    <2>6. \A k \in Cells : reserved'[k] <= reserved[k]
      BY <1>2, <2>4, <2>5, FigureAt
    <2> QED BY <1>1, <2>1, <2>6
  <1>4. ASSUME NEW c \in Counters, SweepClamp(c)
        PROVE  CapInv'
    <2>1. UNCHANGED <<used, over>>
      BY <1>4 DEF SweepClamp
    <2>2. \A k \in Cells : RecordedOn(k) \in Nat /\ reserved[k] \in Nat
      BY <1>2, RecordedType DEF Amounts
    <2>3. \A k \in Cells : reserved'[k] <= reserved[k]
      BY <1>4, <2>2 DEF SweepClamp
    <2> QED BY <1>1, <2>1, <2>3
  <1>5. CASE SweepList \/ SweepScan \/ SweepPrune \/ SweepFails
    BY <1>5 DEF CapInv, SweepList, SweepScan, SweepPrune, SweepFails
  <1> QED BY <1>3, <1>4, <1>5 DEF Sweep

\* Use and holds never exceed a cap, except by use recorded without a hold:
\* no interleaving of arrivals, top-ups, moves, settlements, window rolls and
\* sweeps, and no fault, admits more than a budget has room for.
THEOREM CapCorrect == Spec => []CapRespected
  <1> USE DEF sweepVars, history
  <1>1. Init => CapInv /\ TopFree
    <2> SUFFICES ASSUME Init PROVE CapInv /\ TopFree
      OBVIOUS
    <2>1. \A k \in Cells : used[k] = 0 /\ reserved[k] = 0 /\ over[k] = 0
      BY DEF Init, Nothing
    <2>2. \A r \in Free : top[r].user["usd"] = 0
      BY ParameterAssumption DEF Init, NoTopUp, Zero, Axes
    <2> QED BY <2>1, <2>2 DEF CapInv, TopFree
  <1>2. TypeOK /\ TypeOK' /\ CapInv /\ TopFree /\ [Next]_vars => CapInv' /\ TopFree'
    <2> SUFFICES ASSUME TypeOK, TypeOK', CapInv, TopFree, [Next]_vars
                 PROVE  CapInv' /\ TopFree'
      OBVIOUS
    <2>1. ASSUME NEW r \in Requests, Request(r)
          PROVE  CapInv' /\ TopFree'
      BY <2>1, RequestCap, RequestTopFree
    <2>2. CASE (\E p \in Procs : \E x \in batch[p] : Reclaim(p, x)) \/ Sweep
      <3>1. CapInv'
        BY <2>2, SweepCap
      <3>2. top' = top
        BY <2>2 DEF Reclaim, Sweep, SweepList, SweepScan, SweepPrune, SweepFails, SweepClamp
      <3> QED BY <3>1, <3>2 DEF TopFree
    <2>3. CASE \/ \E r \in Requests : Expire(r)
               \/ \E c \in Counters : GoQuiet(c) \/ EndWindow(c)
               \/ \E u \in Users : AssignBudget(u)
               \/ UNCHANGED vars
      <3>1. UNCHANGED <<used, over, reserved, top>>
        BY <2>3 DEF Expire, GoQuiet, EndWindow, AssignBudget, vars
      <3> QED BY <3>1 DEF CapInv, TopFree
    <2> QED BY <2>1, <2>2, <2>3 DEF Next
  <1>3. TypeOK /\ CapInv => CapRespected
    BY ParameterAssumption DEF CapInv, CapRespected
  <1> QED BY <1>1, <1>2, <1>3, TypeCorrect, PTL DEF Spec

-----------------------------------------------------------------------------
(***************************************************************************)
(* BudgetLedger implements Settlement: every step of a request, of the       *)
(* sweep, of the clock or of the administrator is a step of Settlement, or   *)
(* changes nothing Settlement speaks of. The argument rests on LifeInv: when *)
(* a request settles, the phase it is in, its handle and its row agree on    *)
(* whether its use is still to be recorded.                                 *)
(***************************************************************************)

\* What a step may do to the row status and the bill of one request, and to whether
\* its handle names the row.
Steps(r) ==
  LET old == row[r].status  new == row'[r].status
      knew == hdl[r].id  knows == hdl'[r].id
  IN
  \/ new = old /\ billed'[r] = billed[r] /\ knows = knew
  \/ /\ old = "none" /\ new = "active" /\ ~knew
     /\ billed[r] = 0 /\ billed'[r] = 0
  \/ /\ old = "none" /\ new = "released" /\ knows = knew
     /\ billed[r] = 0 /\ billed'[r] = 0
  \/ /\ old \in {"active", "expired"} /\ new = "settled" /\ knew /\ knows
     /\ billed[r] = 0 /\ billed'[r] = 1
  \/ /\ new = old /\ ~knew /\ ~knows /\ billed'[r] = billed[r] + 1
     /\ billed[r] = 0 \/ (billed[r] = 1 /\ "db" \in Faults)
  \/ /\ old = "active" /\ new = "released" /\ knew /\ knows /\ billed'[r] = billed[r]
  \/ /\ old = "active" /\ new = "expired" /\ knows = knew /\ billed'[r] = billed[r]

\* Whatever a request does but settle, it bills nothing, it settles and deletes
\* no row, it opens none once it is finalized, it gives up only a row its handle
\* names, and its handle comes to name the row when that is opened, if at all.
LEMMA SettleAside ==
  ASSUME TypeOK, NEW r \in Requests, LifeAt(r), Request(r), ~(\E use \in Uses[r] : Settle(r, use))
  PROVE  /\ billed' = billed
         /\ row'[r].status # row[r].status =>
              /\ row'[r].status \notin {"settled", "none"}
              /\ row[r].status = "none" => pc[r] \notin Over \cup {"again"}
              /\ row[r].status = "active" => hdl[r].id /\ hdl'[r].id
         /\ hdl'[r].id # hdl[r].id => row[r].status = "none" /\ row'[r].status = "active"
  <1> USE DEF sweepVars, history, Goto, Over
  <1>1. /\ row \in [Requests -> Rows] /\ row[r] \in Rows
        /\ hdl \in [Requests -> Handles] /\ hdl[r] \in Handles
        /\ pc[r] \in Arriving => row[r].status = "none" /\ ~hdl[r].id
        /\ pc[r] = "unsure" => ~hdl[r].id
        /\ pc[r] \in Serving \ {"refused", "again"} /\ ~hdl[r].id => row[r].status = "none"
    BY DEF TypeOK, LifeAt
  <1>2. CASE RejectUser(r)
    BY <1>2 DEF RejectUser
  <1>3. CASE AdmitExempt(r)
    BY <1>1, <1>3 DEF AdmitExempt, NoHandle, Arriving, Handles
  <1>4. CASE LoadUser(r)
    BY <1>4 DEF LoadUser
  <1>5. CASE ListCeilings(r)
    BY <1>5 DEF ListCeilings
  <1>6. CASE ReclaimOwn(r)
    BY <1>6 DEF ReclaimOwn
  <1>7. CASE \E c \in Ceilings : HoldCeiling(r, c)
    BY <1>1, <1>7 DEF HoldCeiling, Handles
  <1>8. CASE \E c \in Ceilings : RefuseCeiling(r, c)
    BY <1>8 DEF RefuseCeiling
  <1>9. CASE GiveBack(r)
    BY <1>9 DEF GiveBack
  <1>10. CASE HoldUser(r)
    BY <1>10, <1>1 DEF HoldUser, AdmissionRow, CeilingsHeld, Arriving
  <1>11. CASE RefuseUser(r)
    BY <1>11 DEF RefuseUser
  <1>12. CASE HoldUserUnsure(r)
    <2>1. pc[r] = "ceilings" /\ billed' = billed /\ hdl' = hdl
      BY <1>12 DEF HoldUserUnsure, CeilingsHeld
    <2>2. row'[r] = AdmissionRow(r, TRUE) \/ row' = row
      BY <1>12, <1>1 DEF HoldUserUnsure
    <2> QED BY <1>1, <2>1, <2>2 DEF AdmissionRow, Arriving
  <1>13. CASE ReleaseUnrecorded(r)
    BY <1>13, <1>1 DEF ReleaseUnrecorded, NoRow
  <1>14. CASE RecordHold(r)
    <2>1. pc[r] = "ceilings" /\ billed' = billed
      BY <1>14 DEF RecordHold, CeilingsHeld
    <2>2. PICK outcome : /\ row' = IF outcome = "record" THEN row
                                   ELSE [row EXCEPT ![r] = AdmissionRow(r, FALSE)]
                         /\ hdl' = [hdl EXCEPT ![r] =
                                      AdmissionHandle(r, FALSE, outcome = "landed")]
      BY <1>14 DEF RecordHold
    <2>3. CASE outcome = "record"
      <3>1. (outcome = "landed") = FALSE
        BY <2>3
      <3>2. row' = row /\ hdl'[r].id = FALSE
        BY <1>1, <2>2, <2>3, <3>1 DEF AdmissionHandle
      <3>3. hdl[r].id = FALSE
        BY <1>1, <2>1 DEF Arriving, Handles
      <3> QED BY <2>1, <3>2, <3>3
    <2>4. CASE outcome # "record"
      <3>1. row'[r].status = "active"
        BY <1>1, <2>2, <2>4 DEF AdmissionRow
      <3> QED BY <1>1, <2>1, <3>1 DEF Arriving
    <2> QED BY <2>3, <2>4
  <1>15. CASE \E tool \in BOOLEAN : StartTopUp(r, tool)
    BY <1>15 DEF StartTopUp
  <1>16. CASE LoadUserAgain(r)
    BY <1>16 DEF LoadUserAgain
  <1>17. CASE GrowUser(r)
    BY <1>1, <1>17 DEF GrowUser, Handles
  <1>18. CASE RefuseGrowth(r)
    BY <1>18 DEF RefuseGrowth
  <1>19. CASE GiveBackGrowth(r)
    BY <1>1, <1>19 DEF GiveBackGrowth, Handles
  <1>20. CASE GrowUserFails(r)
    BY <1>1, <1>20 DEF GrowUserFails, Handles
  <1>21. CASE GrowRow(r)
    BY <1>21, <1>1 DEF GrowRow, Rows
  <1>22. CASE GrowRowFails(r)
    <2>1. billed' = billed /\ row'[r].status = row[r].status
      BY <1>22, <1>1 DEF GrowRowFails, Rows
    <2>2. hdl'[r].id = hdl[r].id
      <3>1. \/ hdl' = hdl
            \/ hdl' = [hdl EXCEPT ![r].scoped = Less(@, top[r].scoped),
                                  ![r].user   = Less(@, top[r].user),
                                  ![r].reserved = top[r].reserved]
        BY <1>22 DEF GrowRowFails
      <3> QED BY <1>1, <3>1 DEF Handles
    <2> QED BY <2>1, <2>2
  <1>23. CASE GrowLost(r)
    BY <1>1, <1>23 DEF GrowLost, Handles
  <1>24. CASE ReturnUserGrowth(r)
    BY <1>1, <1>24 DEF ReturnUserGrowth, Handles
  <1>25. CASE Move(r) \/ MoveUntold(r)
    <2>1. /\ pc[r] = "running" /\ billed' = billed /\ row'[r] = MovedRow(r)
          /\ hdl[r].id => row[r].status = "active"
          /\ hdl'[r] = hdl[r] \/ hdl'[r] = Retargeted(r)
      BY <1>25, <1>1 DEF Move, MoveUntold, MoveHolds, CanMove, Active
    <2>2. IF hdl[r].id \/ Fallback[r] # {} THEN row'[r].status = "active" ELSE row'[r] = row[r]
      BY <2>1 DEF MovedRow
    <2>3. hdl'[r].id # hdl[r].id => ~hdl[r].id /\ Fallback[r] # {}
      BY <1>1, <2>1 DEF Retargeted, Handles
    <2> QED BY <1>1, <2>1, <2>2, <2>3 DEF Serving, Places, Arriving
  <1>30. CASE MoveFails(r)
    BY <1>1, <1>30 DEF MoveFails, CanMove, NoRow
  <1>26. CASE RefuseMove(r)
    BY <1>26 DEF RefuseMove
  <1>27. CASE MoveReclaimed(r)
    BY <1>1, <1>27 DEF MoveReclaimed, Retargeted, Handles
  <1>28. CASE Refund(r)
    BY <1>28, <1>1 DEF Refund, Claims, Active, Finish, Rows
  <1>29. CASE Crash(r)
    BY <1>29 DEF Crash
  <1> QED BY <1>2, <1>3, <1>4, <1>5, <1>6, <1>7, <1>8, <1>9, <1>10, <1>11, <1>12, <1>13, <1>14, <1>15, <1>16, <1>17, <1>18, <1>19, <1>20, <1>21, <1>22, <1>23, <1>24, <1>25, <1>26, <1>27, <1>28, <1>29, <1>30 DEF Request

\* A settlement records the use with the row it claims, or of a handle that names
\* none, or does nothing.
LEMMA SettleSteps ==
  ASSUME "lie" \notin Faults, TypeOK, LifeInv, NEW r \in Requests,
         NEW use \in Uses[r], Settle(r, use)
  PROVE  Steps(r)
  <1> DEFINE acts == Claims(r) \/ Reclaimed(r)
  <1>1. LifeAt(r) /\ row[r] \in Rows /\ billed[r] \in Nat
    BY DEF LifeInv, TypeOK
  <1>2. /\ pc[r] \in {"running", "refused", "again"} \/ (pc[r] = "done" /\ hdl[r].id)
        /\ hdl' = hdl
    BY DEF Settle, MayFinalize
  <1>3. /\ billed'[r] = IF acts THEN billed[r] + 1 ELSE billed[r]
        /\ row'[r].status = IF hdl[r].id /\ acts THEN "settled" ELSE row[r].status
    BY DEF Settle, Finish, Rows, TypeOK
  <1>4. acts <=> (hdl[r].id => row[r].status \in {"active", "expired"})
    BY DEF Claims, Reclaimed, Active
  <1> HIDE DEF acts
  <1>5. CASE hdl[r].id
    <2>1. acts => billed[r] = 0
      BY <1>1, <1>2, <1>4, <1>5 DEF LifeAt
    <2> QED BY <1>1, <1>2, <1>3, <1>4, <1>5, <2>1 DEF Steps
  <1>6. CASE ~hdl[r].id
    <2>1. billed[r] = 0 \/ (billed[r] = 1 /\ "db" \in Faults)
      BY <1>1, <1>2, <1>6 DEF LifeAt
    <2> QED BY <1>1, <1>2, <1>3, <1>4, <1>6, <2>1 DEF Steps
  <1> QED BY <1>5, <1>6

\* A step of a request is a step of its hold.
LEMMA RequestSteps ==
  ASSUME "lie" \notin Faults, TypeOK, LifeInv, NEW r \in Requests, Request(r)
  PROVE  Steps(r)
  <1>1. CASE \E use \in Uses[r] : Settle(r, use)
    BY <1>1, SettleSteps
  <1>2. CASE ~(\E use \in Uses[r] : Settle(r, use))
    <2>1. Lawful(r) /\ LifeAt(r) /\ pc[r] \in Places
      BY RequestLife DEF LifeInv, TypeOK
    <2>2. /\ billed' = billed
          /\ row'[r].status # row[r].status =>
               /\ row'[r].status \notin {"settled", "none"}
               /\ row[r].status = "none" => pc[r] \notin Over \cup {"again"}
               /\ row[r].status = "active" => hdl[r].id /\ hdl'[r].id
          /\ hdl'[r].id # hdl[r].id => row[r].status = "none" /\ row'[r].status = "active"
      BY <1>2, <2>1, SettleAside
    <2>3. pc[r] \notin Over \cup {"again"} /\ row[r].status = "none" => billed[r] = 0 /\ ~hdl[r].id
      BY <2>1 DEF LifeAt, Over, Serving, Arriving, Places
    <2> QED BY <2>1, <2>2, <2>3 DEF Lawful, Steps, Terminal
  <1> QED BY <1>1, <1>2

-----------------------------------------------------------------------------
(* From the rows to Settlement.                                            *)

\* What one request does to its own row, handle and bill is a step of Settlement.
LEMMA StepsRefine ==
  ASSUME TypeOK, TypeOK', NEW r \in Requests, Steps(r),
         \A q \in Requests \ {r} :
            row'[q] = row[q] /\ billed'[q] = billed[q] /\ hdl'[q].id = hdl[q].id
  PROVE  [Promise!Next]_Promise!vars
  <1> DEFINE st == [q \in Requests |-> row[q].status]
             kn == {q \in Requests : hdl[q].id}
  <1>1. /\ billed \in [Requests -> Nat] /\ billed' \in [Requests -> Nat]
        /\ hdl[r] \in Handles /\ hdl'[r] \in Handles
    BY DEF TypeOK
  <1>2. st' = [st EXCEPT ![r] = row'[r].status] /\ st[r] = row[r].status
    OBVIOUS
  <1>3. billed' = [billed EXCEPT ![r] = billed'[r]]
    BY <1>1
  <1>k. /\ (r \in kn) = hdl[r].id
        /\ (hdl'[r].id = hdl[r].id) => kn' = kn
        /\ ~hdl[r].id => kn' \in {kn, kn \cup {r}}
    BY <1>1 DEF Handles
  <1>4. CASE row'[r].status = row[r].status /\ billed'[r] = billed[r] /\ hdl'[r].id = hdl[r].id
    <2>1. st' = st
      BY <1>2, <1>4
    <2>2. billed' = billed
      BY <1>1, <1>3, <1>4
    <2> QED BY <1>k, <1>4, <2>1, <2>2 DEF Promise!vars
  <1>5. CASE /\ row[r].status = "none" /\ row'[r].status = "active" /\ ~hdl[r].id
             /\ billed[r] = 0 /\ billed'[r] = 0
    <2>1. billed' = billed
      BY <1>1, <1>3, <1>5
    <2>2. Promise!Open(r)
      BY <1>2, <1>k, <1>5, <2>1 DEF Promise!Open, Promise!Turn
    <2> QED BY <2>2 DEF Promise!Next
  <1>6. CASE /\ row[r].status = "none" /\ row'[r].status = "released" /\ hdl'[r].id = hdl[r].id
             /\ billed[r] = 0 /\ billed'[r] = 0
    <2>1. billed' = billed
      BY <1>1, <1>3, <1>6
    <2>2. Promise!Refuse(r)
      BY <1>2, <1>k, <1>6, <2>1 DEF Promise!Refuse, Promise!Turn
    <2> QED BY <2>2 DEF Promise!Next
  <1>7. CASE /\ row[r].status \in {"active", "expired"} /\ row'[r].status = "settled"
             /\ hdl[r].id /\ hdl'[r].id /\ billed[r] = 0 /\ billed'[r] = 1
    <2>1. Promise!Bill(r)
      BY <1>1, <1>2, <1>3, <1>k, <1>7 DEF Promise!Bill, Promise!Turn, Handles
    <2> QED BY <2>1 DEF Promise!Next
  <1>8. CASE /\ row'[r].status = row[r].status /\ ~hdl[r].id /\ ~hdl'[r].id
             /\ billed'[r] = billed[r] + 1
             /\ billed[r] = 0 \/ (billed[r] = 1 /\ "db" \in Faults)
    <2>1. st' = st /\ kn' = kn
      BY <1>1, <1>2, <1>k, <1>8 DEF Handles
    <2>2. Promise!BillUnledgered(r)
      BY <1>2, <1>3, <1>k, <1>8, <2>1 DEF Promise!BillUnledgered
    <2> QED BY <2>2 DEF Promise!Next
  <1>9. CASE /\ row[r].status = "active" /\ row'[r].status = "released"
             /\ hdl[r].id /\ hdl'[r].id /\ billed'[r] = billed[r]
    <2>1. billed' = billed /\ kn' = kn
      BY <1>1, <1>3, <1>k, <1>9 DEF Handles
    <2>2. Promise!Release(r)
      BY <1>2, <1>k, <1>9, <2>1 DEF Promise!Release, Promise!Turn
    <2> QED BY <2>2 DEF Promise!Next
  <1>10. CASE /\ row[r].status = "active" /\ row'[r].status = "expired"
              /\ hdl'[r].id = hdl[r].id /\ billed'[r] = billed[r]
    <2>1. billed' = billed
      BY <1>1, <1>3, <1>10
    <2>2. Promise!Expire(r)
      BY <1>2, <1>k, <1>10, <2>1 DEF Promise!Expire, Promise!Turn
    <2> QED BY <2>2 DEF Promise!Next
  <1> QED BY <1>4, <1>5, <1>6, <1>7, <1>8, <1>9, <1>10 DEF Steps

\* A step of the sweep, of the clock or of the administrator is one too.
LEMMA SweepRefines ==
  ASSUME TypeOK, TypeOK', Next, ~(\E r \in Requests : Request(r))
  PROVE  [Promise!Next]_Promise!vars
  <1> USE DEF sweepVars, history
  <1>1. /\ row \in [Requests -> Rows]
        /\ \A p \in Procs : \A x \in batch[p] : x.r \in Requests
    BY DEF TypeOK
  <1>2. CASE \E p \in Procs : \E x \in batch[p] : Reclaim(p, x)
    <2>p. PICK p \in Procs : \E x \in batch[p] : Reclaim(p, x)
      BY <1>2
    <2>1. PICK x \in batch[p] : Reclaim(p, x)
      BY <2>p
    <2>2. billed' = billed /\ hdl' = hdl /\ x.r \in Requests
      BY <1>1, <2>1 DEF Reclaim
    <2>3. \A q \in Requests \ {x.r} : row'[q] = row[q]
      BY <1>1, <2>1 DEF Reclaim
    <2>4. \/ row'[x.r] = row[x.r]
          \/ row[x.r].status = "active" /\ row'[x.r].status = "expired"
      BY <1>1, <2>1, <2>2 DEF Reclaim, Active, Rows
    <2>5. Steps(x.r)
      BY <2>2, <2>4 DEF Steps
    <2> QED BY <2>2, <2>3, <2>5, StepsRefine
  <1>3. CASE SweepPrune
    <2>1. billed' = billed /\ hdl' = hdl
      BY <1>3 DEF SweepPrune
    <2>2. PICK S \in SUBSET {r \in expired : row[r].status \in Terminal /\ pc[r] \in Over} :
            row' = [r \in Requests |-> IF r \in S THEN NoRow ELSE row[r]]
      BY <1>3 DEF SweepPrune
    <2>3. S \in SUBSET Requests /\ \A r \in S : row[r].status \in Terminal
      BY <2>2 DEF TypeOK
    <2>4. NoRow.status = "none"
      BY DEF NoRow
    <2>5. [r \in Requests |-> row'[r].status]
            = [r \in Requests |-> IF r \in S THEN "none" ELSE row[r].status]
      BY <2>2, <2>4
    <2>6. Promise!Prune(S)
      BY <2>1, <2>3, <2>5 DEF Promise!Prune, Promise!Ended, Terminal
    <2> QED BY <2>3, <2>6 DEF Promise!Next
  <1>4. CASE SweepList \/ SweepScan \/ SweepFails \/ \E c \in Counters : SweepClamp(c)
    <2>1. UNCHANGED <<row, billed, hdl>>
      BY <1>4 DEF SweepList, SweepScan, SweepFails, SweepClamp
    <2> QED BY <2>1 DEF Promise!vars
  <1>5. CASE \/ \E r \in Requests : Expire(r)
             \/ \E c \in Counters : GoQuiet(c) \/ EndWindow(c)
             \/ \E u \in Users : AssignBudget(u)
    <2>1. UNCHANGED <<row, billed, hdl>>
      BY <1>5 DEF Expire, GoQuiet, EndWindow, AssignBudget
    <2> QED BY <2>1 DEF Promise!vars
  <1> QED BY <1>2, <1>3, <1>4, <1>5 DEF Next, Sweep

\* Every step of the ledger is a step of Settlement or a stutter.
LEMMA LedgerStep ==
  ASSUME "lie" \notin Faults, TypeOK, TypeOK', LifeInv, [Next]_vars
  PROVE  [Promise!Next]_Promise!vars
  <1>1. CASE UNCHANGED vars
    BY <1>1 DEF vars, Promise!vars
  <1>2. CASE \E r \in Requests : Request(r)
    <2>1. PICK r \in Requests : Request(r)
      BY <1>2
    <2>2. \A q \in Requests \ {r} :
            row'[q] = row[q] /\ billed'[q] = billed[q] /\ hdl'[q].id = hdl[q].id
      BY <2>1, Locality DEF Local
    <2>3. Steps(r)
      BY <2>1, RequestSteps
    <2> QED BY <2>2, <2>3, StepsRefine
  <1>3. CASE Next /\ ~(\E r \in Requests : Request(r))
    BY <1>3, SweepRefines
  <1> QED BY <1>1, <1>2, <1>3

\* The ledger keeps the promise of Settlement, for any requests, ceilings and
\* budgets and every fault but a ledger commit that lands unacknowledged ("lie"): a hold
\* is opened once and given up once, and the use of a request that knows its row is
\* recorded at most once, never after its hold was released; a second recording is
\* left to a request that knows no row and whose commit reported a failure.
THEOREM LedgerImplements ==
  ASSUME "lie" \notin Faults
  PROVE  Spec => ImplementsSettlement
  <1>1. Init => Promise!Init
    BY DEF Init, Promise!Init, NoRow, NoHandle
  <1>2. TypeOK /\ TypeOK' /\ LifeInv /\ [Next]_vars => [Promise!Next]_Promise!vars
    BY LedgerStep
  <1> QED BY <1>1, <1>2, TypeCorrect, LifeCorrect, PTL
          DEF Spec, ImplementsSettlement, Promise!Spec

-----------------------------------------------------------------------------
(* Every counter carries what the requests may still take off it.  A claim *)
(* is looked at cell by cell, as a figure of the request's place, handle,  *)
(* row, ceilings taken and top-up, so that the claims before and after a   *)
(* step are two values of one operator.                                    *)

\* What a hold on the ceilings S, on the user row, and on both is on a cell.
SetAt(r, k, S, amt) == IF k[1] # UserOf[r] /\ k[1] \in S THEN amt[k[2]] ELSE 0
UserAt(r, k, amt)   == IF k[1] = UserOf[r] THEN amt[k[2]] ELSE 0
HeldAt(r, k, h) ==
  IF k[1] = UserOf[r] THEN IF h.reserved THEN h.user[k[2]] ELSE 0
  ELSE IF k[1] \in h.budgets THEN h.scoped[k[2]] ELSE 0

\* InHand, Growth, RowHeld and Claim on a cell.
HandAt(r, k, p, w, t, g) ==
  IF p \in {"ceilings", "giveback"} \/ (p = "unsure" /\ w.status = "none")
  THEN SetAt(r, k, t, Size[r])
  ELSE IF p \in {"tceil", "tgiveback"} THEN SetAt(r, k, t, g.scoped) ELSE 0
GrownAt(r, k, p, h, t, g) ==
  IF p \in {"tceil", "tgiveback"} THEN SetAt(r, k, t, g.scoped)
  ELSE IF p \in {"tload", "thold", "tback"} THEN SetAt(r, k, h.budgets, g.scoped)
  ELSE IF p \in {"tgrow", "treturn"}
       THEN IF k[1] = UserOf[r] THEN g.user[k[2]] ELSE SetAt(r, k, h.budgets, g.scoped)
       ELSE 0
RowAt(k, w) == IF w.status = "active" THEN w.held[k] ELSE 0
ClaimAt(r, k, p, h, w, t, g) ==
  IF p \in Over THEN RowAt(k, w)
  ELSE IF ~h.id THEN RowAt(k, w) + (HeldAt(r, k, h) + HandAt(r, k, p, w, t, g))
  ELSE IF w.status = "active"
       THEN MaxOf(w.held[k] + GrownAt(r, k, p, h, t, g),
                  HeldAt(r, k, h) + HandAt(r, k, p, w, t, g))
       ELSE GrownAt(r, k, p, h, t, g)

\* What a request may still take off a cell, before and after a step.
OldAt(r, k) == ClaimAt(r, k, pc[r], hdl[r], row[r], taken[r], top[r])
NewAt(r, k) == ClaimAt(r, k, pc'[r], hdl'[r], row'[r], taken'[r], top'[r])

\* The step of r takes no more off a cell than its claim on it falls, and leaves
\* no new hold unrecorded on a counter that stays quiet.
Covered(r, k) ==
  /\ reserved[k] + NewAt(r, k) <= reserved'[k] + OldAt(r, k)
  /\ k[1] \in quiet' =>
       \/ NewAt(r, k) <= RowAt(k, row'[r])
       \/ NewAt(r, k) <= OldAt(r, k) /\ RowAt(k, row[r]) <= RowAt(k, row'[r])

\* The same of a step that may give back a hold its handle goes on to name: what it
\* gives back that way is counted apart.
CoveredBut(r, k) ==
  /\ reserved[k] + doubled[k] + NewAt(r, k) <= reserved'[k] + doubled'[k] + OldAt(r, k)
  /\ k[1] \in quiet' =>
       (OldAt(r, k) <= RowAt(k, row[r]) => NewAt(r, k) <= RowAt(k, row'[r]))

\* Each axis of f is at most that of g.
Below(f, g) == \A a \in Axes : f[a] <= g[a]

\* The place of a request says what its handle, its row, its top-up and its loop
\* can look like: an arrival's handle is empty, ceilings are in hand only inside
\* a loop, a top-up is part of the handle once it was held, and the lines of an
\* active row are those of the handle.
FormAt(r) ==
  /\ pc[r] \in Arriving \cup {"unsure"} =>
       hdl[r].budgets = {} /\ ~hdl[r].reserved /\ ~hdl[r].id
  /\ pc[r] \in Serving \cup Arriving /\ ~hdl[r].reserved => hdl[r].user = Zero
  /\ pc[r] \in {"idle", "scope", "reclaim", "running", "tload", "thold", "tback", "tgrow",
                "treturn", "refused", "again"} => taken[r] = {}
  /\ pc[r] \in {"tload", "thold", "tback", "tgrow"} => Below(top[r].scoped, hdl[r].scoped)
  /\ pc[r] \in {"tceil", "tgiveback", "tload", "thold", "tback"} =>
       top[r].reserved = hdl[r].reserved
  /\ pc[r] = "tgrow" => IF top[r].reserved THEN hdl[r].reserved
                        ELSE Below(hdl[r].user, top[r].user)
  /\ pc[r] = "tgrow" /\ ~hdl[r].reserved => top[r].user = Zero
  /\ pc[r] \in Serving \ {"refused"} /\ hdl[r].id /\ Active(r) => row[r].on = hdl[r].budgets
  /\ pc[r] = "treturn" => hdl[r].id /\ ~Active(r)
FormInv == \A r \in Requests : FormAt(r)

\* Spreading amounts, cell by cell.
LEMMA SpreadAt ==
  ASSUME NEW r, NEW k \in Cells
  PROVE  /\ \A S, amt : OnCeilings(r, S, amt)[k] = SetAt(r, k, S, amt)
         /\ \A amt : OnUser(r, amt)[k] = UserAt(r, k, amt)
         /\ \A h : HeldBy(r, h)[k] = HeldAt(r, k, h)
  BY DEF OnCeilings, OnUser, HeldBy, Holding, SetAt, UserAt, HeldAt, Zero, Cells

\* A claim, cell by cell.
LEMMA ClaimIs ==
  ASSUME TypeOK, NEW r \in Requests, NEW k \in Cells
  PROVE  Claim(r)[k] = OldAt(r, k) /\ RowHeld(r)[k] = RowAt(k, row[r])
  <1>1. /\ row[r].held \in [Cells -> Nat] /\ HeldBy(r, hdl[r]) \in [Cells -> Nat]
        /\ row[r] \in Rows
    BY RecordTypes DEF TypeOK, Rows, Amounts
  <1>2. InHand(r)[k] = HandAt(r, k, pc[r], row[r], taken[r], top[r])
    BY SpreadAt DEF InHand, HandAt, Nothing
  <1>3. Growth(r)[k] = GrownAt(r, k, pc[r], hdl[r], taken[r], top[r])
    <2>1. Holding(r, TRUE, top[r].user, hdl[r].budgets, top[r].scoped)[k]
            = IF k[1] = UserOf[r] THEN top[r].user[k[2]] ELSE SetAt(r, k, hdl[r].budgets, top[r].scoped)
      BY DEF Holding, SetAt
    <2>2. /\ OnCeilings(r, taken[r], top[r].scoped)[k] = SetAt(r, k, taken[r], top[r].scoped)
          /\ OnCeilings(r, hdl[r].budgets, top[r].scoped)[k] = SetAt(r, k, hdl[r].budgets, top[r].scoped)
          /\ Nothing[k] = 0
      BY SpreadAt DEF Nothing
    <2>3. CASE pc[r] \in {"tceil", "tgiveback"}
      BY <2>2, <2>3 DEF Growth, GrownAt
    <2>4. CASE pc[r] \in {"tload", "thold", "tback"}
      BY <2>2, <2>4 DEF Growth, GrownAt
    <2>5. CASE pc[r] \in {"tgrow", "treturn"}
      BY <2>1, <2>5 DEF Growth, GrownAt
    <2>6. CASE pc[r] \notin {"tceil", "tgiveback", "tload", "thold", "tback", "tgrow", "treturn"}
      <3>1. Growth(r) = Nothing
        BY <2>6 DEF Growth
      <3> QED BY <2>2, <2>6, <3>1 DEF GrownAt
    <2> QED BY <2>3, <2>4, <2>5, <2>6
  <1>4. HeldBy(r, hdl[r])[k] = HeldAt(r, k, hdl[r])
    BY SpreadAt
  <1>5. RowHeld(r)[k] = RowAt(k, row[r]) /\ DOMAIN RowHeld(r) = Cells
    BY <1>1 DEF RowHeld, RowAt, Active, Nothing
  <1>6. Plus(RowHeld(r), Plus(HeldBy(r, hdl[r]), InHand(r)))[k]
          = RowHeld(r)[k] + (HeldBy(r, hdl[r])[k] + InHand(r)[k])
    BY <1>1, <1>5 DEF Plus
  <1>7. Larger(Plus(row[r].held, Growth(r)), Plus(HeldBy(r, hdl[r]), InHand(r)))[k]
          = MaxOf(row[r].held[k] + Growth(r)[k], HeldBy(r, hdl[r])[k] + InHand(r)[k])
    BY <1>1 DEF Plus, Larger, MaxOf
  <1>8. CASE pc[r] \in Over
    BY <1>5, <1>8 DEF Claim, OldAt, ClaimAt
  <1>9. CASE pc[r] \notin Over /\ ~hdl[r].id
    BY <1>2, <1>4, <1>5, <1>6, <1>9 DEF Claim, OldAt, ClaimAt
  <1>10. CASE pc[r] \notin Over /\ hdl[r].id /\ Active(r)
    BY <1>2, <1>3, <1>4, <1>5, <1>7, <1>10 DEF Claim, OldAt, ClaimAt, Active
  <1>11. CASE pc[r] \notin Over /\ hdl[r].id /\ ~Active(r)
    BY <1>3, <1>5, <1>11 DEF Claim, OldAt, ClaimAt, Active
  <1> QED BY <1>8, <1>9, <1>10, <1>11

\* A claim on a cell is a number.
LEMMA ClaimAtType ==
  ASSUME NEW r \in Requests, NEW k \in Cells, NEW p, NEW h \in Handles, NEW w \in Rows,
         NEW t, NEW g \in TopUps
  PROVE  /\ HeldAt(r, k, h) \in Nat /\ HandAt(r, k, p, w, t, g) \in Nat
         /\ GrownAt(r, k, p, h, t, g) \in Nat /\ RowAt(k, w) \in Nat
         /\ w.held[k] \in Nat
         /\ ClaimAt(r, k, p, h, w, t, g) \in Nat
         /\ RowAt(k, w) <= ClaimAt(r, k, p, h, w, t, g)
  <1>1. k[2] \in Axes
    BY CellPair
  <1>2. /\ Size[r][k[2]] \in Nat /\ h.user[k[2]] \in Nat /\ h.scoped[k[2]] \in Nat
        /\ g.user[k[2]] \in Nat /\ g.scoped[k[2]] \in Nat
    BY <1>1, RequestAssumption DEF Handles, TopUps, Amt
  <1>3. w.held[k] \in Nat
    BY DEF Rows, Amounts
  <1>4. \A S : SetAt(r, k, S, Size[r]) \in Nat /\ SetAt(r, k, S, g.scoped) \in Nat
    BY <1>2 DEF SetAt
  <1>5. HeldAt(r, k, h) \in Nat
    BY <1>2 DEF HeldAt
  <1>6. HandAt(r, k, p, w, t, g) \in Nat
    BY <1>4 DEF HandAt
  <1>7. GrownAt(r, k, p, h, t, g) \in Nat
    BY <1>2, <1>4 DEF GrownAt
  <1>8. RowAt(k, w) \in Nat
    BY <1>3 DEF RowAt
  <1>9. ClaimAt(r, k, p, h, w, t, g) \in Nat /\ RowAt(k, w) <= ClaimAt(r, k, p, h, w, t, g)
    BY <1>3, <1>5, <1>6, <1>7, <1>8 DEF ClaimAt, MaxOf, RowAt
  <1> QED BY <1>3, <1>5, <1>6, <1>7, <1>8, <1>9

\* The figures of a request on one cell, before and after a step.
Typed(r, k) ==
  /\ k[1] \in Counters /\ k[2] \in Axes /\ (k[1] = UserOf[r] => k[1] \notin Ceilings)
  /\ reserved[k] \in Nat /\ row[r].held[k] \in Nat
  /\ Size[r][k[2]] \in Nat
  /\ hdl[r].user[k[2]] \in Nat /\ hdl[r].scoped[k[2]] \in Nat
  /\ top[r].user[k[2]] \in Nat /\ top[r].scoped[k[2]] \in Nat
  /\ hdl[r].budgets \subseteq Ceilings /\ taken[r] \subseteq Ceilings

\* The types make the figures of a request on a cell numbers.
LEMMA TypedAt ==
  ASSUME TypeOK, NEW r \in Requests, NEW k \in Cells
  PROVE  /\ Typed(r, k)
         /\ hdl[r] \in Handles /\ row[r] \in Rows /\ top[r] \in TopUps /\ pc[r] \in Places
         /\ OldAt(r, k) \in Nat /\ RowAt(k, row[r]) \in Nat /\ RowAt(k, row[r]) <= OldAt(r, k)
  <1>1. hdl[r] \in Handles /\ row[r] \in Rows /\ top[r] \in TopUps /\ taken[r] \subseteq Ceilings
        /\ pc[r] \in Places /\ reserved \in [Cells -> Nat]
    BY DEF TypeOK, Amounts
  <1>2. k[1] \in Counters /\ k[2] \in Axes /\ UserOf[r] \notin Ceilings /\ Size[r] \in Amt
    BY CellPair, RequestAssumption, SetsAssumption
  <1>3. Typed(r, k)
    BY <1>1, <1>2 DEF Typed, Handles, TopUps, Rows, Amt, Amounts
  <1> QED BY <1>1, <1>3, ClaimAtType DEF OldAt

\* A request that arrives and holds nothing yet claims nothing.
LEMMA ArriveCovers ==
  ASSUME TypeOK, NEW r \in Requests, FormAt(r), LifeAt(r), NEW k \in Cells,
         RejectUser(r) \/ AdmitExempt(r) \/ LoadUser(r) \/ ListCeilings(r) \/ ReclaimOwn(r)
  PROVE  Covered(r, k)
  <1> USE DEF Goto, sweepVars, history
  <1>1. /\ Typed(r, k) /\ OldAt(r, k) \in Nat /\ RowAt(k, row[r]) \in Nat
        /\ pc \in [Requests -> Places] /\ hdl \in [Requests -> Handles]
    BY TypedAt DEF TypeOK
  <1>2. /\ UNCHANGED <<reserved, row, taken, top>>
        /\ pc[r] \in {"idle", "scope", "reclaim"}
        /\ pc'[r] \in {"rejected", "running", "scope", "reclaim", "ceilings"}
        /\ hdl'[r] = hdl[r] \/ hdl'[r] = NoHandle(FALSE)
    BY <1>1 DEF RejectUser, AdmitExempt, LoadUser, ListCeilings, ReclaimOwn
  <1>3. /\ hdl[r].budgets = {} /\ ~hdl[r].reserved /\ ~hdl[r].id /\ taken[r] = {}
        /\ row[r].status = "none"
    BY <1>2 DEF FormAt, LifeAt, Arriving
  <1>4. hdl'[r].budgets = {} /\ ~hdl'[r].reserved /\ ~hdl'[r].id
    BY <1>2, <1>3 DEF NoHandle
  <1>5. HeldAt(r, k, hdl'[r]) = 0 /\ HandAt(r, k, pc'[r], row'[r], taken'[r], top'[r]) = 0
        /\ RowAt(k, row'[r]) = 0
    BY <1>2, <1>3, <1>4 DEF HeldAt, HandAt, SetAt, RowAt
  <1>6. NewAt(r, k) = 0
    BY <1>4, <1>5 DEF NewAt, ClaimAt
  <1> QED BY <1>1, <1>2, <1>5, <1>6 DEF Covered, Typed

\* A conditional hold on one ceiling is in hand or, with the last of them, in
\* the handle.
LEMMA CeilingCovers ==
  ASSUME TypeOK, NEW r \in Requests, FormAt(r), LifeAt(r), NEW k \in Cells,
         NEW c \in Ceilings, HoldCeiling(r, c)
  PROVE  Covered(r, k)
  <1> USE DEF Goto, sweepVars, history
  <1>1. /\ Typed(r, k) /\ OldAt(r, k) \in Nat /\ RowAt(k, row[r]) \in Nat
        /\ pc \in [Requests -> Places] /\ hdl \in [Requests -> Handles] /\ hdl[r] \in Handles
        /\ top[r] \in TopUps /\ taken \in [Requests -> SUBSET Ceilings]
    BY TypedAt DEF TypeOK
  <1>2. /\ pc[r] \in {"ceilings", "tceil"} /\ c \notin taken[r]
        /\ UNCHANGED <<row, top>> /\ quiet' = quiet \ {c}
    BY DEF HoldCeiling, InLoop, IsNext, Todo
  <1>3. reserved'[k] = reserved[k] + SetAt(r, k, {c}, LoopAmt(r))
    <2>1. LoopAmt(r) \in Amt /\ OnCeilings(r, {c}, LoopAmt(r)) \in Amounts /\ reserved \in Amounts
      BY RecordTypes, OnType DEF TypeOK
    <2>2. reserved' = Plus(reserved, OnCeilings(r, {c}, LoopAmt(r)))
      BY DEF HoldCeiling
    <2>3. OnCeilings(r, {c}, LoopAmt(r))[k] = SetAt(r, k, {c}, LoopAmt(r))
      BY SpreadAt
    <2> QED BY <2>1, <2>2, <2>3, FigureAt
  <1>4. LoopAmt(r) = IF pc[r] = "tceil" THEN top[r].scoped ELSE Size[r]
    BY DEF LoopAmt
  <1>5. CASE ~(pc[r] = "tceil" /\ Todo(r) = {c})
    <2>1. /\ taken'[r] = taken[r] \cup {c} /\ pc'[r] = pc[r] /\ hdl'[r] = hdl[r]
          /\ row'[r] = row[r] /\ top'[r] = top[r]
      BY <1>1, <1>2, <1>5 DEF HoldCeiling
    <2>2. SetAt(r, k, taken[r] \cup {c}, LoopAmt(r))
            = SetAt(r, k, taken[r], LoopAmt(r)) + SetAt(r, k, {c}, LoopAmt(r))
      BY <1>1, <1>2, <1>4 DEF SetAt, Typed
    <2>3. HandAt(r, k, pc'[r], row'[r], taken'[r], top'[r])
            = HandAt(r, k, pc[r], row[r], taken[r], top[r]) + SetAt(r, k, {c}, LoopAmt(r))
      BY <1>2, <1>4, <2>1, <2>2 DEF HandAt
    <2>4. pc[r] = "tceil" =>
            GrownAt(r, k, pc'[r], hdl'[r], taken'[r], top'[r])
              = GrownAt(r, k, pc[r], hdl[r], taken[r], top[r]) + SetAt(r, k, {c}, LoopAmt(r))
      BY <1>2, <1>4, <2>1, <2>2 DEF GrownAt
    <2>5. pc[r] = "ceilings" => ~hdl[r].id
      BY DEF LifeAt, Arriving
    <2>6. SetAt(r, k, {c}, LoopAmt(r)) \in Nat
      BY <1>1, <1>4 DEF SetAt, Typed
    <2>7. NewAt(r, k) = OldAt(r, k) + SetAt(r, k, {c}, LoopAmt(r))
      <3>1. /\ HeldAt(r, k, hdl[r]) \in Nat /\ HandAt(r, k, pc[r], row[r], taken[r], top[r]) \in Nat
            /\ GrownAt(r, k, pc[r], hdl[r], taken[r], top[r]) \in Nat
            /\ row[r].held[k] \in Nat
        BY <1>1, ClaimAtType DEF TypeOK
      <3>2. pc[r] \notin Over
        BY <1>2 DEF Over
      <3> QED BY <1>1, <1>2, <2>1, <2>3, <2>4, <2>5, <2>6, <3>1, <3>2
           DEF NewAt, OldAt, ClaimAt, MaxOf
    <2>8. k[1] \in quiet' => SetAt(r, k, {c}, LoopAmt(r)) = 0
      BY <1>2 DEF SetAt
    <2>9. RowAt(k, row'[r]) = RowAt(k, row[r])
      BY <2>1
    <2> QED BY <1>1, <1>3, <2>6, <2>7, <2>8, <2>9 DEF Covered, Typed
  <1>6. CASE pc[r] = "tceil" /\ Todo(r) = {c}
    <2>1. /\ taken'[r] = {} /\ hdl'[r] = [hdl[r] EXCEPT !.scoped = Plus(@, top[r].scoped)]
          /\ row'[r] = row[r] /\ top'[r] = top[r]
          /\ pc'[r] = IF top[r].user # Zero THEN "tload" ELSE "tgrow"
      BY <1>1, <1>2, <1>6 DEF HoldCeiling
    <2>2. /\ hdl'[r].budgets = hdl[r].budgets /\ hdl'[r].id = hdl[r].id
          /\ hdl'[r].reserved = hdl[r].reserved /\ hdl'[r].user = hdl[r].user
          /\ hdl'[r].scoped[k[2]] = hdl[r].scoped[k[2]] + top[r].scoped[k[2]]
      BY <1>1, <2>1 DEF Handles, TopUps, Amt, Plus, Typed
    <2>3. hdl[r].budgets \subseteq taken[r] \cup {c}
      BY <1>6 DEF Todo, LoopSet
    <2>4. LoopAmt(r) = top[r].scoped
      BY <1>4, <1>6
    <2>5. /\ HandAt(r, k, pc[r], row[r], taken[r], top[r]) = SetAt(r, k, taken[r], top[r].scoped)
          /\ HandAt(r, k, pc'[r], row'[r], taken'[r], top'[r]) = 0
          /\ GrownAt(r, k, pc[r], hdl[r], taken[r], top[r]) = SetAt(r, k, taken[r], top[r].scoped)
          /\ GrownAt(r, k, pc'[r], hdl'[r], taken'[r], top'[r])
               = SetAt(r, k, hdl[r].budgets, top[r].scoped)
      <3>1. top[r].user = Zero => top[r].user[k[2]] = 0
        BY <1>1 DEF Typed, Zero
      <3>2. k[1] = UserOf[r] => SetAt(r, k, hdl[r].budgets, top[r].scoped) = 0
        BY DEF SetAt
      <3> QED BY <1>1, <1>6, <2>1, <2>2, <3>1, <3>2 DEF HandAt, GrownAt
    <2>6. SetAt(r, k, hdl[r].budgets, top[r].scoped)
            <= SetAt(r, k, taken[r], top[r].scoped) + SetAt(r, k, {c}, top[r].scoped)
      BY <1>1, <2>3 DEF SetAt, Typed
    <2>7. HeldAt(r, k, hdl'[r]) = HeldAt(r, k, hdl[r]) + SetAt(r, k, hdl[r].budgets, top[r].scoped)
      BY <1>1, <2>2 DEF HeldAt, SetAt, Typed
    <2>8. /\ HeldAt(r, k, hdl[r]) \in Nat /\ row[r].held[k] \in Nat
          /\ SetAt(r, k, hdl[r].budgets, top[r].scoped) \in Nat
          /\ SetAt(r, k, taken[r], top[r].scoped) \in Nat
          /\ SetAt(r, k, {c}, top[r].scoped) \in Nat
      BY <1>1 DEF HeldAt, SetAt, Typed
    <2>9. pc[r] \notin Over /\ pc'[r] \notin Over
      BY <1>6, <2>1 DEF Over
    <2>10. NewAt(r, k) <= OldAt(r, k) + SetAt(r, k, {c}, top[r].scoped) /\ NewAt(r, k) \in Nat
      BY <1>1, <2>1, <2>2, <2>5, <2>6, <2>7, <2>8, <2>9 DEF NewAt, OldAt, ClaimAt, MaxOf
    <2>11. k[1] \in quiet' => SetAt(r, k, {c}, top[r].scoped) = 0
      BY <1>2 DEF SetAt
    <2>12. RowAt(k, row'[r]) = RowAt(k, row[r])
      BY <2>1
    <2> QED BY <1>1, <1>3, <2>4, <2>8, <2>10, <2>11, <2>12 DEF Covered, Typed
  <1> QED BY <1>5, <1>6

\* A refused ceiling or user row leaves what is in hand in hand.
LEMMA RefuseCovers ==
  ASSUME TypeOK, TypeOK', NEW r \in Requests, NEW k \in Cells,
         RefuseUser(r) \/ \E c \in Ceilings : RefuseCeiling(r, c)
  PROVE  Covered(r, k)
  <1> USE DEF Goto, sweepVars, history
  <1>1. /\ Typed(r, k) /\ OldAt(r, k) \in Nat /\ RowAt(k, row[r]) \in Nat
        /\ pc \in [Requests -> Places] /\ reserved'[k] \in Nat
    BY TypedAt DEF TypeOK, Amounts
  <1>2. /\ UNCHANGED <<row, hdl, taken, top>>
        /\ \/ pc[r] = "ceilings" /\ pc'[r] = "giveback"
           \/ pc[r] = "tceil" /\ pc'[r] = "tgiveback"
    BY <1>1 DEF RefuseUser, RefuseCeiling, InLoop, CeilingsHeld
  <1>3. reserved[k] <= reserved'[k]
    <2>1. CASE UNCHANGED reserved
      BY <1>1, <2>1 DEF Typed
    <2>2. ASSUME NEW c \in Ceilings, reserved' = Plus(reserved, OnCeilings(r, {c}, LoopAmt(r)))
          PROVE  reserved[k] <= reserved'[k]
      <3>1. OnCeilings(r, {c}, LoopAmt(r)) \in Amounts /\ reserved \in Amounts
        BY RecordTypes, OnType DEF TypeOK
      <3> QED BY <2>2, <3>1, FigureAt
    <2> QED BY <2>1, <2>2 DEF RefuseUser, RefuseCeiling
  <1>4. NewAt(r, k) = OldAt(r, k)
    <2>1. /\ HandAt(r, k, pc'[r], row[r], taken[r], top[r]) = HandAt(r, k, pc[r], row[r], taken[r], top[r])
          /\ GrownAt(r, k, pc'[r], hdl[r], taken[r], top[r])
               = GrownAt(r, k, pc[r], hdl[r], taken[r], top[r])
      BY <1>2 DEF HandAt, GrownAt
    <2> QED BY <1>2, <2>1 DEF NewAt, OldAt, ClaimAt, Over
  <1> QED BY <1>1, <1>2, <1>3, <1>4 DEF Covered, Typed

\* What the loop gives back is what was in hand.
LEMMA GiveBackCovers ==
  ASSUME TypeOK, TypeOK', NEW r \in Requests, FormAt(r), LifeAt(r), NEW k \in Cells,
         GiveBack(r)
  PROVE  Covered(r, k)
  <1> USE DEF Goto, sweepVars, history
  <1> DEFINE amt == IF pc[r] = "tgiveback" THEN top[r].scoped ELSE Size[r]
             out == SetAt(r, k, taken[r], amt)
  <1>1. /\ Typed(r, k) /\ OldAt(r, k) \in Nat /\ RowAt(k, row[r]) \in Nat
        /\ pc \in [Requests -> Places] /\ top[r] \in TopUps
    BY TypedAt DEF TypeOK
  <1>2. /\ pc[r] \in {"giveback", "tgiveback"} /\ UNCHANGED <<row, hdl>>
        /\ pc'[r] = IF pc[r] = "giveback" THEN "rejected"
                    ELSE IF top[r].tool THEN "running" ELSE "refused"
    BY <1>1 DEF GiveBack
  <1>3. out \in Nat
    BY <1>1 DEF SetAt, Typed
  <1>4. reserved'[k] = IF reserved[k] >= out THEN reserved[k] - out ELSE 0
    <2>1. amt \in Amt /\ reserved \in Amounts
      BY <1>1, RequestAssumption DEF TopUps, TypeOK
    <2>2. reserved' = Less(reserved, OnCeilings(r, taken[r], amt))
      BY DEF GiveBack
    <2>3. OnCeilings(r, taken[r], amt)[k] = out /\ OnCeilings(r, taken[r], amt) \in Amounts
      <3> HIDE DEF amt
      <3> QED BY <2>1, SpreadAt, OnType
    <2> HIDE DEF amt, out
    <2> QED BY <2>1, <2>2, <2>3, FigureAt
  <1>5. /\ HandAt(r, k, pc[r], row[r], taken[r], top[r]) = out
        /\ pc[r] = "tgiveback" => GrownAt(r, k, pc[r], hdl[r], taken[r], top[r]) = out
        /\ HandAt(r, k, pc'[r], row'[r], taken'[r], top'[r]) = 0
        /\ GrownAt(r, k, pc'[r], hdl'[r], taken'[r], top'[r]) = 0
    BY <1>2 DEF HandAt, GrownAt
  <1>6. pc[r] = "giveback" => ~hdl[r].id /\ row[r].status = "none"
    BY DEF LifeAt, Arriving
  <1>7. HeldAt(r, k, hdl[r]) \in Nat /\ row[r].held[k] \in Nat
    BY <1>1 DEF HeldAt, Typed
  <1> HIDE DEF out
  <1>8. NewAt(r, k) \in Nat /\ NewAt(r, k) + out <= OldAt(r, k)
    BY <1>2, <1>3, <1>5, <1>6, <1>7 DEF NewAt, OldAt, ClaimAt, MaxOf, Over, RowAt
  <1>9. RowAt(k, row'[r]) = RowAt(k, row[r])
    BY <1>2
  <1> QED BY <1>1, <1>3, <1>4, <1>8, <1>9 DEF Covered, Typed

\* An admitted request's row and handle name what its loop held and the user leg.
LEMMA HoldUserCovers ==
  ASSUME TypeOK, TypeOK', NEW r \in Requests, FormAt(r), LifeAt(r), NEW k \in Cells,
         HoldUser(r)
  PROVE  Covered(r, k)
  <1> USE DEF Goto, sweepVars, history
  <1>1. /\ Typed(r, k) /\ OldAt(r, k) \in Nat /\ RowAt(k, row[r]) \in Nat
        /\ pc \in [Requests -> Places] /\ hdl \in [Requests -> Handles]
        /\ row \in [Requests -> Rows]
    BY TypedAt DEF TypeOK
  <1>2. /\ pc[r] = "ceilings" /\ pc'[r] = "running" /\ Primary[r] \subseteq taken[r]
        /\ row'[r] = AdmissionRow(r, TRUE) /\ hdl'[r] = AdmissionHandle(r, TRUE, TRUE)
    BY <1>1 DEF HoldUser, CeilingsHeld, Todo, LoopSet
  <1>3. ~hdl[r].id /\ row[r].status = "none"
    BY <1>2 DEF LifeAt, Arriving
  <1>4. reserved'[k] = reserved[k] + UserAt(r, k, Size[r])
    <2>1. OnUser(r, Size[r]) \in Amounts /\ reserved \in Amounts
      BY RequestAssumption, OnType DEF TypeOK
    <2>2. OnUser(r, Size[r])[k] = UserAt(r, k, Size[r])
      BY SpreadAt
    <2> QED BY <2>1, <2>2, FigureAt DEF HoldUser
  <1>5. /\ RowAt(k, row'[r]) = UserAt(r, k, Size[r]) + SetAt(r, k, Primary[r], Size[r])
        /\ row'[r].held[k] = RowAt(k, row'[r])
        /\ HeldAt(r, k, hdl'[r]) = RowAt(k, row'[r])
    BY <1>1, <1>2 DEF AdmissionRow, AdmissionHandle, RowAt, HeldAt, UserAt, SetAt, Holding, Typed
  <1>6. NewAt(r, k) = RowAt(k, row'[r])
    <2>1. /\ GrownAt(r, k, pc'[r], hdl'[r], taken'[r], top'[r]) = 0
          /\ HandAt(r, k, pc'[r], row'[r], taken'[r], top'[r]) = 0
      BY <1>2 DEF GrownAt, HandAt
    <2>2. row'[r].status = "active" /\ hdl'[r].id /\ pc'[r] \notin Over
      BY <1>2 DEF AdmissionRow, AdmissionHandle, Over
    <2>3. RowAt(k, row'[r]) \in Nat
      BY <1>1, <1>5 DEF UserAt, SetAt, Typed
    <2> QED BY <1>5, <2>1, <2>2, <2>3 DEF NewAt, ClaimAt, MaxOf
  <1>7. SetAt(r, k, Primary[r], Size[r]) <= OldAt(r, k)
    <2>1. SetAt(r, k, Primary[r], Size[r]) <= SetAt(r, k, taken[r], Size[r])
      BY <1>1, <1>2 DEF SetAt, Typed
    <2>2. HandAt(r, k, pc[r], row[r], taken[r], top[r]) = SetAt(r, k, taken[r], Size[r])
      BY <1>2 DEF HandAt
    <2>3. HeldAt(r, k, hdl[r]) \in Nat /\ SetAt(r, k, taken[r], Size[r]) \in Nat
          /\ SetAt(r, k, Primary[r], Size[r]) \in Nat
      BY <1>1 DEF HeldAt, SetAt, Typed
    <2>4. OldAt(r, k) = 0 + (HeldAt(r, k, hdl[r]) + SetAt(r, k, taken[r], Size[r]))
      BY <1>2, <1>3, <2>2 DEF OldAt, ClaimAt, RowAt, Over
    <2> QED BY <2>1, <2>3, <2>4
  <1>8. UserAt(r, k, Size[r]) \in Nat /\ SetAt(r, k, Primary[r], Size[r]) \in Nat
    BY <1>1 DEF UserAt, SetAt, Typed
  <1>9. RowAt(k, row'[r]) \in Nat
    BY <1>5, <1>8
  <1> QED BY <1>1, <1>4, <1>5, <1>6, <1>7, <1>8, <1>9 DEF Covered, Typed

\* A commit of the user leg that reported a failure: if it landed the row names
\* everything, and if not the loop's holds are still in hand.
LEMMA UnsureCovers ==
  ASSUME TypeOK, TypeOK', NEW r \in Requests, FormAt(r), LifeAt(r), NEW k \in Cells,
         HoldUserUnsure(r)
  PROVE  Covered(r, k)
  <1> USE DEF Goto, sweepVars, history
  <1>1. /\ Typed(r, k) /\ OldAt(r, k) \in Nat /\ RowAt(k, row[r]) \in Nat
        /\ pc \in [Requests -> Places] /\ row \in [Requests -> Rows]
    BY TypedAt DEF TypeOK
  <1>2. /\ pc[r] = "ceilings" /\ pc'[r] = "unsure" /\ Primary[r] \subseteq taken[r]
        /\ UNCHANGED <<hdl, taken, top>>
    BY <1>1 DEF HoldUserUnsure, CeilingsHeld, Todo, LoopSet
  <1>3. ~hdl[r].id /\ row[r].status = "none" /\ HeldAt(r, k, hdl[r]) = 0
    BY <1>2 DEF LifeAt, FormAt, Arriving, HeldAt
  <1>4. OldAt(r, k) = 0 + (0 + SetAt(r, k, taken[r], Size[r]))
    BY <1>2, <1>3 DEF OldAt, ClaimAt, RowAt, Over, HandAt
  <1>5. CASE UNCHANGED <<reserved, row, quiet>>
    <2>1. NewAt(r, k) = 0 + (0 + SetAt(r, k, taken[r], Size[r]))
      BY <1>2, <1>3, <1>5 DEF NewAt, ClaimAt, RowAt, Over, HandAt
    <2> QED BY <1>1, <1>4, <1>5, <2>1 DEF Covered, Typed
  <1>6. CASE /\ reserved' = Plus(reserved, OnUser(r, Size[r]))
             /\ row' = [row EXCEPT ![r] = AdmissionRow(r, TRUE)]
    <2>1. reserved'[k] = reserved[k] + UserAt(r, k, Size[r])
      <3>1. OnUser(r, Size[r]) \in Amounts /\ reserved \in Amounts
        BY RequestAssumption, OnType DEF TypeOK
      <3>2. OnUser(r, Size[r])[k] = UserAt(r, k, Size[r])
        BY SpreadAt
      <3> QED BY <1>6, <3>1, <3>2, FigureAt
    <2>2. row'[r] = AdmissionRow(r, TRUE)
      BY <1>1, <1>6
    <2>3. RowAt(k, row'[r]) = UserAt(r, k, Size[r]) + SetAt(r, k, Primary[r], Size[r])
          /\ row'[r].status = "active"
      BY <1>1, <2>2 DEF AdmissionRow, RowAt, UserAt, SetAt, Holding, Typed
    <2>4. HandAt(r, k, pc'[r], row'[r], taken'[r], top'[r]) = 0
      BY <1>2, <2>3 DEF HandAt
    <2>5. /\ UserAt(r, k, Size[r]) \in Nat /\ SetAt(r, k, Primary[r], Size[r]) \in Nat
          /\ SetAt(r, k, Primary[r], Size[r]) <= SetAt(r, k, taken[r], Size[r])
          /\ SetAt(r, k, taken[r], Size[r]) \in Nat
      BY <1>1, <1>2 DEF UserAt, SetAt, Typed
    <2>6. NewAt(r, k) = RowAt(k, row'[r]) + (0 + 0)
      BY <1>2, <1>3, <2>4 DEF NewAt, ClaimAt, Over
    <2>7. RowAt(k, row'[r]) \in Nat
      BY <2>3, <2>5
    <2> QED BY <1>1, <1>4, <2>1, <2>3, <2>5, <2>6, <2>7 DEF Covered, Typed
  <1> QED BY <1>5, <1>6 DEF HoldUserUnsure

\* Of an unsure admission the loop's holds go back if no row has them.
LEMMA ReleaseCovers ==
  ASSUME TypeOK, TypeOK', NEW r \in Requests, FormAt(r), LifeAt(r), NEW k \in Cells,
         ReleaseUnrecorded(r)
  PROVE  Covered(r, k)
  <1> USE DEF Goto, sweepVars, history
  <1>1. /\ Typed(r, k) /\ OldAt(r, k) \in Nat /\ RowAt(k, row[r]) \in Nat
        /\ RowAt(k, row[r]) <= OldAt(r, k)
        /\ pc \in [Requests -> Places] /\ row \in [Requests -> Rows]
    BY TypedAt DEF TypeOK
  <1>2. pc[r] = "unsure" /\ pc'[r] = "rejected" /\ ~hdl[r].id
    BY <1>1 DEF ReleaseUnrecorded, LifeAt
  <1>3. NewAt(r, k) = RowAt(k, row'[r])
    BY <1>2 DEF NewAt, ClaimAt, Over
  <1>4. CASE UNCHANGED <<row, reserved, quiet>>
    BY <1>1, <1>3, <1>4 DEF Covered, Typed
  <1>5. CASE /\ row[r].status = "none"
             /\ row' = [row EXCEPT ![r] = [NoRow EXCEPT !.status = "released"]]
             /\ reserved' = Less(reserved, OnCeilings(r, taken[r], Size[r]))
    <2> DEFINE out == SetAt(r, k, taken[r], Size[r])
    <2>1. RowAt(k, row'[r]) = 0
      BY <1>1, <1>5 DEF RowAt, NoRow
    <2>2. out \in Nat /\ HeldAt(r, k, hdl[r]) \in Nat
      BY <1>1 DEF SetAt, HeldAt, Typed
    <2>3. reserved'[k] = IF reserved[k] >= out THEN reserved[k] - out ELSE 0
      <3>1. OnCeilings(r, taken[r], Size[r]) \in Amounts /\ reserved \in Amounts
        BY RequestAssumption, OnType DEF TypeOK
      <3>2. OnCeilings(r, taken[r], Size[r])[k] = out
        BY SpreadAt
      <3> HIDE DEF out
      <3> QED BY <1>5, <3>1, <3>2, FigureAt
    <2>4. OldAt(r, k) = 0 + (HeldAt(r, k, hdl[r]) + out)
      BY <1>2, <1>5 DEF OldAt, ClaimAt, RowAt, HandAt, Over
    <2> HIDE DEF out
    <2> QED BY <1>1, <1>3, <2>1, <2>2, <2>3, <2>4 DEF Covered, Typed
  <1> QED BY <1>4, <1>5 DEF ReleaseUnrecorded

\* A request without a budget of its user: the handle names what the loop held,
\* and the row if it was written.
LEMMA RecordCovers ==
  ASSUME "lie" \notin Faults, TypeOK, TypeOK', NEW r \in Requests, FormAt(r), LifeAt(r),
         NEW k \in Cells, RecordHold(r)
  PROVE  Covered(r, k)
  <1> USE DEF Goto, sweepVars, history
  <1>1. /\ Typed(r, k) /\ OldAt(r, k) \in Nat /\ RowAt(k, row[r]) \in Nat
        /\ pc \in [Requests -> Places] /\ row \in [Requests -> Rows]
        /\ hdl \in [Requests -> Handles]
    BY TypedAt DEF TypeOK
  <1>2. /\ pc[r] = "ceilings" /\ pc'[r] = "running" /\ Primary[r] \subseteq taken[r]
        /\ UNCHANGED <<reserved, top>>
    BY <1>1 DEF RecordHold, CeilingsHeld, Todo, LoopSet
  <1>3. ~hdl[r].id /\ row[r].status = "none" /\ HeldAt(r, k, hdl[r]) = 0
    BY <1>2 DEF LifeAt, FormAt, Arriving, HeldAt
  <1>4. PICK outcome \in {"landed", "record"} :
          /\ row' = IF outcome = "record" THEN row
                    ELSE [row EXCEPT ![r] = AdmissionRow(r, FALSE)]
          /\ hdl' = [hdl EXCEPT ![r] = AdmissionHandle(r, FALSE, outcome = "landed")]
    BY DEF RecordHold
  <1>5. hdl'[r] = AdmissionHandle(r, FALSE, outcome = "landed")
    BY <1>1, <1>4
  <1>6. HeldAt(r, k, hdl'[r]) = SetAt(r, k, Primary[r], Size[r])
    <2>1. /\ hdl'[r].budgets = Primary[r] /\ ~hdl'[r].reserved
          /\ Primary[r] # {} => hdl'[r].scoped = Size[r]
      BY <1>5 DEF AdmissionHandle
    <2> QED BY <2>1 DEF HeldAt, SetAt
  <1>7. /\ SetAt(r, k, Primary[r], Size[r]) \in Nat /\ SetAt(r, k, taken[r], Size[r]) \in Nat
        /\ SetAt(r, k, Primary[r], Size[r]) <= SetAt(r, k, taken[r], Size[r])
    BY <1>1, <1>2 DEF SetAt, Typed
  <1>8. OldAt(r, k) = 0 + (0 + SetAt(r, k, taken[r], Size[r]))
    BY <1>2, <1>3 DEF OldAt, ClaimAt, RowAt, Over, HandAt
  <1>9. /\ HandAt(r, k, pc'[r], row'[r], taken'[r], top'[r]) = 0
        /\ GrownAt(r, k, pc'[r], hdl'[r], taken'[r], top'[r]) = 0
        /\ pc'[r] \notin Over
    BY <1>2 DEF HandAt, GrownAt, Over
  <1>10. CASE outcome = "landed"
    <2>1. row'[r] = AdmissionRow(r, FALSE)
      BY <1>1, <1>4, <1>10
    <2>2. row'[r].status = "active" /\ row'[r].held[k] = SetAt(r, k, Primary[r], Size[r])
      BY <2>1 DEF AdmissionRow, Holding, SetAt
    <2>3. hdl'[r].id
      <3>1. (outcome = "landed") = TRUE
        BY <1>10
      <3>2. hdl'[r] = AdmissionHandle(r, FALSE, TRUE)
        BY <1>5, <3>1
      <3> QED BY <3>2 DEF AdmissionHandle
    <2>4. NewAt(r, k) = SetAt(r, k, Primary[r], Size[r])
          /\ RowAt(k, row'[r]) = SetAt(r, k, Primary[r], Size[r])
      BY <1>6, <1>7, <1>9, <2>2, <2>3 DEF NewAt, ClaimAt, RowAt, MaxOf
    <2> QED BY <1>1, <1>2, <1>7, <1>8, <2>4 DEF Covered, Typed
  <1>11. CASE outcome = "record"
    <2>1. row' = row /\ ~hdl'[r].id
      <3>1. (outcome = "landed") = FALSE
        BY <1>11
      <3>2. hdl'[r] = AdmissionHandle(r, FALSE, FALSE)
        BY <1>5, <3>1
      <3> QED BY <1>4, <1>11, <3>2 DEF AdmissionHandle
    <2>2. NewAt(r, k) = 0 + (SetAt(r, k, Primary[r], Size[r]) + 0)
      BY <1>3, <1>6, <1>9, <2>1 DEF NewAt, ClaimAt, RowAt
    <2> QED BY <1>1, <1>2, <1>7, <1>8, <2>1, <2>2 DEF Covered, Typed
  <1> QED BY <1>10, <1>11

\* A step that lowers every part of a claim by what it takes off the counter.
LEMMA FallCovers ==
  ASSUME TypeOK, TypeOK', NEW r \in Requests, NEW k \in Cells, NEW d \in Nat,
         reserved'[k] >= IF reserved[k] >= d THEN reserved[k] - d ELSE 0,
         pc[r] \notin Over, pc'[r] \notin Over,
         hdl'[r].id = hdl[r].id, row'[r].status = row[r].status,
         row[r].held[k] <= row'[r].held[k],
         ~hdl[r].id => row'[r] = row[r],
         hdl[r].id /\ row[r].status = "active" =>
           row'[r].held[k] + GrownAt(r, k, pc'[r], hdl'[r], taken'[r], top'[r]) + d
             <= row[r].held[k] + GrownAt(r, k, pc[r], hdl[r], taken[r], top[r]),
         hdl[r].id /\ row[r].status # "active" =>
           GrownAt(r, k, pc'[r], hdl'[r], taken'[r], top'[r]) + d
             <= GrownAt(r, k, pc[r], hdl[r], taken[r], top[r]),
         ~hdl[r].id \/ row[r].status = "active" =>
           HeldAt(r, k, hdl'[r]) + HandAt(r, k, pc'[r], row'[r], taken'[r], top'[r]) + d
             <= HeldAt(r, k, hdl[r]) + HandAt(r, k, pc[r], row[r], taken[r], top[r])
  PROVE  Covered(r, k)
  <1>1. /\ OldAt(r, k) \in Nat /\ reserved[k] \in Nat /\ reserved'[k] \in Nat
        /\ hdl[r] \in Handles /\ row[r] \in Rows /\ top[r] \in TopUps
        /\ hdl'[r] \in Handles /\ row'[r] \in Rows /\ top'[r] \in TopUps
    BY TypedAt DEF TypeOK, Amounts
  <1>2. /\ HeldAt(r, k, hdl[r]) \in Nat /\ row[r].held[k] \in Nat
        /\ HandAt(r, k, pc[r], row[r], taken[r], top[r]) \in Nat
        /\ GrownAt(r, k, pc[r], hdl[r], taken[r], top[r]) \in Nat
        /\ RowAt(k, row[r]) \in Nat
    BY <1>1, ClaimAtType
  <1>3. /\ HeldAt(r, k, hdl'[r]) \in Nat /\ row'[r].held[k] \in Nat
        /\ HandAt(r, k, pc'[r], row'[r], taken'[r], top'[r]) \in Nat
        /\ GrownAt(r, k, pc'[r], hdl'[r], taken'[r], top'[r]) \in Nat
        /\ RowAt(k, row'[r]) \in Nat /\ NewAt(r, k) \in Nat
    BY <1>1, ClaimAtType DEF NewAt
  <1>4. NewAt(r, k) + d <= OldAt(r, k)
    <2>1. CASE ~hdl[r].id
      <3>1. RowAt(k, row'[r]) = RowAt(k, row[r])
        BY <2>1
      <3> QED BY <1>2, <1>3, <2>1, <3>1 DEF NewAt, OldAt, ClaimAt
    <2>2. CASE hdl[r].id /\ row[r].status = "active"
      BY <1>2, <1>3, <2>2 DEF NewAt, OldAt, ClaimAt, MaxOf
    <2>3. CASE hdl[r].id /\ row[r].status # "active"
      BY <1>2, <1>3, <2>3 DEF NewAt, OldAt, ClaimAt
    <2> QED BY <2>1, <2>2, <2>3
  <1>5. RowAt(k, row[r]) <= RowAt(k, row'[r])
    BY <1>2, <1>3 DEF RowAt
  <1> QED BY <1>1, <1>3, <1>4, <1>5 DEF Covered

\* The start of a top-up, a user leg that need not grow, and a refusal that is
\* left to the refund change nothing on the counters and raise no claim.
LEMMA TopUpCovers ==
  ASSUME TypeOK, TypeOK', NEW r \in Requests, FormAt(r), NEW k \in Cells,
         LoadUserAgain(r) \/ RefuseGrowth(r) \/ (\E tool \in BOOLEAN : StartTopUp(r, tool))
  PROVE  Covered(r, k)
  <1> USE DEF Goto, sweepVars, history
  <1>1. /\ Typed(r, k) /\ pc \in [Requests -> Places] /\ top \in [Requests -> TopUps]
        /\ top[r] \in TopUps /\ hdl[r] \in Handles /\ row[r].held[k] \in Nat
        /\ HeldAt(r, k, hdl[r]) \in Nat
    BY TypedAt, ClaimAtType DEF TypeOK
  <1>2. UNCHANGED <<reserved, row, hdl, taken>>
    BY DEF LoadUserAgain, RefuseGrowth, StartTopUp
  <1>3. /\ pc[r] \in {"running", "tload", "thold"}
        /\ pc'[r] \in {"tceil", "tload", "thold", "tgrow", "running", "tback", "refused"}
    BY <1>1 DEF LoadUserAgain, RefuseGrowth, StartTopUp
  <1>4. taken[r] = {}
    BY <1>3 DEF FormAt
  <1>5. /\ HandAt(r, k, pc[r], row[r], taken[r], top[r]) = 0
        /\ HandAt(r, k, pc'[r], row'[r], taken'[r], top'[r]) = 0
    BY <1>2, <1>3, <1>4 DEF HandAt, SetAt
  <1>6. GrownAt(r, k, pc'[r], hdl'[r], taken'[r], top'[r])
          <= GrownAt(r, k, pc[r], hdl[r], taken[r], top[r])
        /\ GrownAt(r, k, pc'[r], hdl'[r], taken'[r], top'[r]) \in Nat
    <2>z. Zero[k[2]] = 0
      BY <1>1 DEF Typed, Zero
    <2>1. CASE \E tool \in BOOLEAN : StartTopUp(r, tool)
      <3>1. PICK tool \in BOOLEAN : StartTopUp(r, tool)
        BY <2>1
      <3>2. pc[r] = "running" /\ pc'[r] = IF top'[r].scoped # Zero THEN "tceil" ELSE "tload"
        BY <1>1, <3>1 DEF StartTopUp
      <3> QED BY <1>2, <1>4, <2>z, <3>2 DEF GrownAt, SetAt
    <2>2. CASE RefuseGrowth(r)
      <3>1. pc[r] \in {"tload", "thold"}
            /\ ((pc'[r] = "tback" /\ top'[r] = top[r]) \/ pc'[r] = "refused")
        BY <1>1, <2>2 DEF RefuseGrowth
      <3> QED BY <1>1, <1>2, <3>1 DEF GrownAt, SetAt, Typed
    <2>3. CASE LoadUserAgain(r)
      <3>1. /\ pc[r] = "tload" /\ top'[r].scoped = top[r].scoped
            /\ \/ pc'[r] = "thold"
               \/ pc'[r] = "tgrow" /\ top'[r].user = Zero
               \/ pc'[r] = "running"
        BY <1>1, <2>3 DEF LoadUserAgain, TopUps
      <3>2. GrownAt(r, k, pc[r], hdl[r], taken[r], top[r]) = SetAt(r, k, hdl[r].budgets, top[r].scoped)
        BY <3>1 DEF GrownAt
      <3>3. SetAt(r, k, hdl[r].budgets, top[r].scoped) \in Nat
            /\ SetAt(r, k, hdl[r].budgets, top'[r].scoped) = SetAt(r, k, hdl[r].budgets, top[r].scoped)
        BY <1>1, <3>1 DEF SetAt, Typed
      <3>4. CASE pc'[r] = "thold"
        BY <1>2, <3>2, <3>3, <3>4 DEF GrownAt
      <3>5. CASE pc'[r] = "tgrow" /\ top'[r].user = Zero
        <4>1. GrownAt(r, k, pc'[r], hdl'[r], taken'[r], top'[r])
                \in {0, SetAt(r, k, hdl[r].budgets, top'[r].scoped)}
          BY <1>2, <2>z, <3>5 DEF GrownAt
        <4> QED BY <3>2, <3>3, <4>1
      <3>6. CASE pc'[r] = "running"
        <4>1. GrownAt(r, k, pc'[r], hdl'[r], taken'[r], top'[r]) = 0
          BY <3>6 DEF GrownAt
        <4> QED BY <3>2, <3>3, <4>1
      <3> QED BY <3>1, <3>4, <3>5, <3>6
    <2> QED BY <2>1, <2>2, <2>3
  <1>7. GrownAt(r, k, pc[r], hdl[r], taken[r], top[r]) \in Nat
    BY <1>1, ClaimAtType DEF TypeOK
  <1>8. pc[r] \notin Over /\ pc'[r] \notin Over
    BY <1>3 DEF Over
  <1>9. /\ hdl'[r] = hdl[r] /\ row'[r] = row[r] /\ reserved'[k] = reserved[k]
    BY <1>2
  <1>10. reserved'[k] >= IF reserved[k] >= 0 THEN reserved[k] - 0 ELSE 0
    BY <1>1, <1>9 DEF Typed
  <1> QED BY <1>1, <1>5, <1>6, <1>7, <1>8, <1>9, <1>10, FallCovers

\* The user leg grows: counter, handle and growth by the same figure.
LEMMA GrowUserCovers ==
  ASSUME TypeOK, TypeOK', NEW r \in Requests, FormAt(r), NEW k \in Cells, GrowUser(r)
  PROVE  Covered(r, k)
  <1> USE DEF Goto, sweepVars, history
  <1> DEFINE d == UserAt(r, k, top[r].user)
  <1>1. /\ Typed(r, k) /\ pc \in [Requests -> Places] /\ hdl \in [Requests -> Handles]
        /\ top[r] \in TopUps /\ hdl[r] \in Handles /\ row[r].held[k] \in Nat
        /\ HeldAt(r, k, hdl[r]) \in Nat /\ RowAt(k, row[r]) \in Nat
        /\ GrownAt(r, k, pc[r], hdl[r], taken[r], top[r]) \in Nat
    BY TypedAt, ClaimAtType DEF TypeOK
  <1>2. /\ pc[r] = "thold" /\ pc'[r] = "tgrow" /\ UNCHANGED <<row, taken, top>>
        /\ quiet' = quiet \ {UserOf[r]}
        /\ hdl'[r] = [hdl[r] EXCEPT !.user = Plus(@, top[r].user), !.reserved = TRUE]
    BY <1>1 DEF GrowUser
  <1>3. /\ hdl'[r].budgets = hdl[r].budgets /\ hdl'[r].scoped = hdl[r].scoped
        /\ hdl'[r].id = hdl[r].id /\ hdl'[r].reserved
        /\ hdl'[r].user[k[2]] = hdl[r].user[k[2]] + top[r].user[k[2]]
    BY <1>1, <1>2 DEF Handles, TopUps, Amt, Plus, Typed
  <1>4. d \in Nat
    BY <1>1 DEF UserAt, Typed
  <1>5. ~hdl[r].reserved => hdl[r].user[k[2]] = 0
    BY <1>1, <1>2 DEF FormAt, Serving, Arriving, Over, Places, Zero, Typed
  <1>6. HeldAt(r, k, hdl'[r]) = HeldAt(r, k, hdl[r]) + d
    BY <1>1, <1>3, <1>5 DEF HeldAt, UserAt, Typed
  <1>7. GrownAt(r, k, pc'[r], hdl'[r], taken'[r], top'[r])
          = GrownAt(r, k, pc[r], hdl[r], taken[r], top[r]) + d
    BY <1>1, <1>2, <1>3 DEF GrownAt, SetAt, UserAt, Typed
  <1>8. /\ HandAt(r, k, pc[r], row[r], taken[r], top[r]) = 0
        /\ HandAt(r, k, pc'[r], row'[r], taken'[r], top'[r]) = 0
        /\ pc[r] \notin Over /\ pc'[r] \notin Over
    BY <1>2 DEF HandAt, Over
  <1>9. reserved'[k] = reserved[k] + d
    <2>1. OnUser(r, top[r].user) \in Amounts /\ reserved \in Amounts
      BY <1>1, OnType DEF TypeOK, TopUps
    <2>2. OnUser(r, top[r].user)[k] = d
      BY SpreadAt
    <2>3. reserved' = Plus(reserved, OnUser(r, top[r].user))
      BY DEF GrowUser
    <2> HIDE DEF d
    <2> QED BY <2>1, <2>2, <2>3, FigureAt
  <1>10. k[1] \in quiet' => d = 0
    BY <1>2 DEF UserAt
  <1>11. row'[r] = row[r]
    BY <1>2
  <1> HIDE DEF d
  <1>12. NewAt(r, k) = OldAt(r, k) + d
    BY <1>1, <1>3, <1>4, <1>6, <1>7, <1>8, <1>11 DEF NewAt, OldAt, ClaimAt, MaxOf
  <1>13. OldAt(r, k) \in Nat
    BY TypedAt
  <1> QED BY <1>1, <1>4, <1>9, <1>10, <1>11, <1>12, <1>13 DEF Covered, Typed

\* The growth of the ceilings goes back after a refused tool call.
LEMMA GiveBackGrowthCovers ==
  ASSUME TypeOK, TypeOK', NEW r \in Requests, FormAt(r), NEW k \in Cells,
         GiveBackGrowth(r)
  PROVE  Covered(r, k)
  <1> USE DEF Goto, sweepVars, history
  <1> DEFINE d == SetAt(r, k, hdl[r].budgets, top[r].scoped)
  <1>1. /\ Typed(r, k) /\ pc \in [Requests -> Places] /\ hdl \in [Requests -> Handles]
        /\ top[r] \in TopUps /\ hdl[r] \in Handles
    BY TypedAt DEF TypeOK
  <1>2. /\ pc[r] = "tback" /\ pc'[r] = "running" /\ row'[r] = row[r]
        /\ hdl'[r] = [hdl[r] EXCEPT !.scoped = Less(@, top[r].scoped)]
    BY <1>1 DEF GiveBackGrowth
  <1>3. top[r].scoped[k[2]] <= hdl[r].scoped[k[2]]
    BY <1>1, <1>2 DEF FormAt, Below, Typed
  <1>4. /\ hdl'[r].budgets = hdl[r].budgets /\ hdl'[r].user = hdl[r].user
        /\ hdl'[r].id = hdl[r].id /\ hdl'[r].reserved = hdl[r].reserved
        /\ hdl'[r].scoped[k[2]] = hdl[r].scoped[k[2]] - top[r].scoped[k[2]]
    BY <1>1, <1>2, <1>3 DEF Handles, TopUps, Amt, Less, Typed
  <1>5. d \in Nat
    BY <1>1 DEF SetAt, Typed
  <1>6. HeldAt(r, k, hdl'[r]) + 0 + d <= HeldAt(r, k, hdl[r]) + 0
    BY <1>1, <1>4 DEF HeldAt, SetAt, Typed
  <1>7. /\ GrownAt(r, k, pc[r], hdl[r], taken[r], top[r]) = d
        /\ GrownAt(r, k, pc'[r], hdl'[r], taken'[r], top'[r]) = 0
        /\ HandAt(r, k, pc[r], row[r], taken[r], top[r]) = 0
        /\ HandAt(r, k, pc'[r], row'[r], taken'[r], top'[r]) = 0
        /\ pc[r] \notin Over /\ pc'[r] \notin Over
    BY <1>2 DEF GrownAt, HandAt, Over
  <1>8. reserved'[k] = IF reserved[k] >= d THEN reserved[k] - d ELSE 0
    <2>1. OnCeilings(r, hdl[r].budgets, top[r].scoped) \in Amounts /\ reserved \in Amounts
      BY <1>1, OnType DEF TypeOK, TopUps
    <2>2. OnCeilings(r, hdl[r].budgets, top[r].scoped)[k] = d
      BY SpreadAt
    <2>3. reserved' = Less(reserved, OnCeilings(r, hdl[r].budgets, top[r].scoped))
      BY DEF GiveBackGrowth
    <2> HIDE DEF d
    <2> QED BY <2>1, <2>2, <2>3, FigureAt
  <1> HIDE DEF d
  <1>9. /\ reserved'[k] >= IF reserved[k] >= d THEN reserved[k] - d ELSE 0
        /\ row[r].held[k] <= row'[r].held[k] /\ row'[r].status = row[r].status
        /\ row'[r].held[k] + 0 + d <= row[r].held[k] + d /\ 0 + d <= d
    BY <1>1, <1>2, <1>5, <1>8 DEF Typed
  <1> QED BY <1>2, <1>4, <1>5, <1>6, <1>7, <1>9, FallCovers

\* A failed growth of the user leg can only leave more on the counters.
LEMMA GrowFailsCovers ==
  ASSUME TypeOK, TypeOK', NEW r \in Requests, FormAt(r), NEW k \in Cells,
         GrowUserFails(r)
  PROVE  Covered(r, k)
  <1> USE DEF Goto, sweepVars, history
  <1>1. /\ Typed(r, k) /\ pc \in [Requests -> Places] /\ hdl \in [Requests -> Handles]
        /\ top[r] \in TopUps /\ hdl[r] \in Handles /\ row[r].held[k] \in Nat
        /\ HeldAt(r, k, hdl[r]) \in Nat
        /\ GrownAt(r, k, pc[r], hdl[r], taken[r], top[r]) \in Nat
    BY TypedAt, ClaimAtType DEF TypeOK
  <1>2. /\ pc[r] = "thold" /\ pc'[r] \in {"running", "refused"} /\ row'[r] = row[r]
        /\ \/ hdl'[r] = [hdl[r] EXCEPT !.scoped = Less(@, top[r].scoped)]
           \/ hdl'[r] = hdl[r]
    <2>1. CASE top[r].tool
      BY <1>1, <2>1 DEF GrowUserFails
    <2>2. CASE ~top[r].tool
      BY <1>1, <2>2 DEF GrowUserFails
    <2> QED BY <2>1, <2>2
  <1>3. /\ hdl'[r].budgets = hdl[r].budgets /\ hdl'[r].user = hdl[r].user
        /\ hdl'[r].id = hdl[r].id /\ hdl'[r].reserved = hdl[r].reserved
        /\ hdl'[r].scoped[k[2]] <= hdl[r].scoped[k[2]] /\ hdl'[r].scoped[k[2]] \in Nat
    BY <1>1, <1>2 DEF Handles, TopUps, Amt, Less, Typed
  <1>4. HeldAt(r, k, hdl'[r]) + 0 + 0 <= HeldAt(r, k, hdl[r]) + 0
    BY <1>1, <1>3 DEF HeldAt, Typed
  <1>5. /\ GrownAt(r, k, pc'[r], hdl'[r], taken'[r], top'[r]) = 0
        /\ HandAt(r, k, pc[r], row[r], taken[r], top[r]) = 0
        /\ HandAt(r, k, pc'[r], row'[r], taken'[r], top'[r]) = 0
        /\ pc[r] \notin Over /\ pc'[r] \notin Over
    BY <1>2 DEF GrownAt, HandAt, Over
  <1>6. reserved'[k] >= reserved[k] /\ reserved'[k] \in Nat
    <2>1. OnUser(r, top[r].user) \in Amounts /\ reserved \in Amounts
      BY <1>1, OnType DEF TypeOK, TopUps
    <2>2. reserved' = reserved \/ reserved' = Plus(reserved, OnUser(r, top[r].user))
      BY DEF GrowUserFails
    <2> QED BY <2>1, <2>2, FigureAt
  <1>7. /\ reserved'[k] >= IF reserved[k] >= 0 THEN reserved[k] - 0 ELSE 0
        /\ row[r].held[k] <= row'[r].held[k] /\ row'[r].status = row[r].status
        /\ row'[r].held[k] + 0 + 0 <= row[r].held[k] + GrownAt(r, k, pc[r], hdl[r], taken[r], top[r])
        /\ 0 + 0 <= GrownAt(r, k, pc[r], hdl[r], taken[r], top[r])
    BY <1>1, <1>2, <1>6 DEF Typed
  <1> QED BY <1>2, <1>3, <1>4, <1>5, <1>7, FallCovers

\* The row takes up the growth, or its commit fails and landed or did not.
LEMMA GrowRowCovers ==
  ASSUME TypeOK, TypeOK', NEW r \in Requests, FormAt(r), LifeAt(r), NEW k \in Cells,
         GrowRow(r) \/ GrowRowFails(r)
  PROVE  Covered(r, k)
  <1> USE DEF Goto, sweepVars, history
  <1> DEFINE g == GrownAt(r, k, pc[r], hdl[r], taken[r], top[r])
  <1>1. /\ Typed(r, k) /\ pc \in [Requests -> Places] /\ hdl \in [Requests -> Handles]
        /\ row \in [Requests -> Rows] /\ row[r] \in Rows
        /\ top[r] \in TopUps /\ hdl[r] \in Handles
        /\ HeldAt(r, k, hdl[r]) \in Nat /\ g \in Nat
    BY TypedAt, ClaimAtType DEF TypeOK
  <1>2. /\ pc[r] = "tgrow" /\ pc'[r] \in {"running", "refused"} /\ UNCHANGED <<reserved, taken>>
        /\ hdl[r].id => row[r].status = "active"
        /\ \/ row'[r] = row[r]
           \/ hdl[r].id /\ row'[r] = [row[r] EXCEPT !.held = Plus(@, GrowthOf(r))]
    <2>1. CASE GrowRow(r)
      BY <1>1, <2>1 DEF GrowRow, Active
    <2>2. CASE GrowRowFails(r)
      <3>1. \/ row' = row
            \/ hdl[r].id /\ row' = [row EXCEPT ![r].held = Plus(@, GrowthOf(r))]
        BY <2>2 DEF GrowRowFails
      <3>2. /\ pc[r] = "tgrow" /\ pc'[r] \in {"running", "refused"} /\ UNCHANGED <<reserved, taken>>
            /\ Active(r)
        BY <1>1, <2>2 DEF GrowRowFails
      <3> QED BY <1>1, <3>1, <3>2 DEF Active
    <2> QED BY <2>1, <2>2
  <1>3. /\ hdl'[r].budgets = hdl[r].budgets /\ hdl'[r].id = hdl[r].id
        /\ HeldAt(r, k, hdl'[r]) <= HeldAt(r, k, hdl[r]) /\ HeldAt(r, k, hdl'[r]) \in Nat
    <2>1. CASE hdl'[r] = hdl[r]
      BY <1>1, <2>1
    <2>2. CASE hdl' = [hdl EXCEPT ![r].scoped = Less(@, top[r].scoped),
                                  ![r].user   = Less(@, top[r].user),
                                  ![r].reserved = top[r].reserved]
      <3>1. /\ hdl'[r].budgets = hdl[r].budgets /\ hdl'[r].id = hdl[r].id
            /\ hdl'[r].reserved = top[r].reserved
            /\ hdl'[r].scoped = Less(hdl[r].scoped, top[r].scoped)
            /\ hdl'[r].user = Less(hdl[r].user, top[r].user)
        BY <1>1, <2>2 DEF Handles
      <3>2. /\ hdl'[r].scoped[k[2]] \in Nat /\ hdl'[r].scoped[k[2]] <= hdl[r].scoped[k[2]]
            /\ hdl'[r].user[k[2]] \in Nat /\ hdl'[r].user[k[2]] <= hdl[r].user[k[2]]
        BY <1>1, <3>1 DEF Handles, TopUps, Amt, Less, Typed
      <3>3. top[r].reserved => hdl[r].reserved
        BY <1>2 DEF FormAt
      <3> QED BY <1>1, <3>1, <3>2, <3>3 DEF HeldAt, Typed
    <2>3. hdl'[r] = hdl[r] \/ hdl' = [hdl EXCEPT ![r].scoped = Less(@, top[r].scoped),
                                  ![r].user   = Less(@, top[r].user),
                                  ![r].reserved = top[r].reserved]
      BY DEF GrowRow, GrowRowFails
    <2> QED BY <2>1, <2>2, <2>3
  <1>4. hdl[r].id => GrowthOf(r)[k] = g /\ GrowthOf(r) \in Amounts
    <2>1. hdl[r].id => row[r].on = hdl[r].budgets
      BY <1>2 DEF FormAt, Serving, Arriving, Over, Places, Active
    <2>2. g = IF k[1] = UserOf[r] THEN top[r].user[k[2]] ELSE SetAt(r, k, hdl[r].budgets, top[r].scoped)
      BY <1>2 DEF GrownAt
    <2>3. GrowthOf(r) \in Amounts
      BY RecordTypes
    <2> QED BY <2>1, <2>2, <2>3 DEF GrowthOf, Holding, SetAt
  <1> HIDE DEF g
  <1>5. /\ row'[r].status = row[r].status
        /\ row[r].held[k] <= row'[r].held[k] /\ row'[r].held[k] \in Nat
        /\ row'[r].held[k] <= row[r].held[k] + g
        /\ ~hdl[r].id => row'[r] = row[r]
    <2>1. CASE row'[r] = row[r]
      BY <1>1, <2>1 DEF Typed
    <2>2. CASE hdl[r].id /\ row'[r] = [row[r] EXCEPT !.held = Plus(@, GrowthOf(r))]
      <3>1. row'[r].status = row[r].status /\ row'[r].held = Plus(row[r].held, GrowthOf(r))
        BY <1>1, <2>2 DEF Rows
      <3>2. row[r].held \in Amounts
        BY <1>1 DEF Rows
      <3>3. row'[r].held[k] = row[r].held[k] + g
        BY <1>4, <2>2, <3>1, <3>2, FigureAt
      <3> QED BY <1>1, <2>2, <3>1, <3>3 DEF Typed
    <2> QED BY <1>2, <2>1, <2>2
  <1>6. /\ GrownAt(r, k, pc'[r], hdl'[r], taken'[r], top'[r]) = 0
        /\ HandAt(r, k, pc[r], row[r], taken[r], top[r]) = 0
        /\ HandAt(r, k, pc'[r], row'[r], taken'[r], top'[r]) = 0
        /\ pc[r] \notin Over /\ pc'[r] \notin Over
    BY <1>2 DEF GrownAt, HandAt, Over
  <1>7. /\ reserved'[k] >= IF reserved[k] >= 0 THEN reserved[k] - 0 ELSE 0
        /\ row'[r].held[k] + 0 + 0 <= row[r].held[k] + g
        /\ 0 + 0 <= g
        /\ HeldAt(r, k, hdl'[r]) + 0 + 0 <= HeldAt(r, k, hdl[r]) + 0
    BY <1>1, <1>2, <1>3, <1>5 DEF Typed
  <1> QED BY <1>3, <1>5, <1>6, <1>7, FallCovers DEF g

\* The sweep took the row first: the growth goes back, leg by leg.
LEMMA GrowLostCovers ==
  ASSUME TypeOK, TypeOK', NEW r \in Requests, FormAt(r), NEW k \in Cells,
         GrowLost(r) \/ ReturnUserGrowth(r)
  PROVE  Covered(r, k)
  <1> USE DEF Goto, sweepVars, history
  <1> DEFINE d == IF pc[r] = "tgrow" THEN SetAt(r, k, hdl[r].budgets, top[r].scoped)
                  ELSE UserAt(r, k, top[r].user)
  <1>1. /\ Typed(r, k) /\ pc \in [Requests -> Places] /\ hdl \in [Requests -> Handles]
        /\ top \in [Requests -> TopUps] /\ top[r] \in TopUps /\ hdl[r] \in Handles
    BY TypedAt DEF TypeOK
  <1>2. /\ pc[r] \in {"tgrow", "treturn"} /\ hdl[r].id /\ row[r].status # "active"
        /\ row'[r] = row[r] /\ hdl'[r].id = hdl[r].id /\ hdl'[r].budgets = hdl[r].budgets
        /\ pc'[r] \in {"treturn", "running"}
    <2>1. CASE GrowLost(r)
      BY <1>1, <2>1 DEF GrowLost, Active, Handles
    <2>2. CASE ReturnUserGrowth(r)
      BY <1>1, <2>2 DEF ReturnUserGrowth, FormAt, Active, Handles
    <2> QED BY <2>1, <2>2
  <1>3. d \in Nat
    BY <1>1 DEF SetAt, UserAt, Typed
  <1>4. GrownAt(r, k, pc'[r], hdl'[r], taken'[r], top'[r]) + d
          <= GrownAt(r, k, pc[r], hdl[r], taken[r], top[r])
    <2>z. Zero[k[2]] = 0
      BY <1>1 DEF Typed, Zero
    <2>1. CASE GrowLost(r)
      <3>1. /\ pc[r] = "tgrow" /\ top'[r].scoped = Zero /\ top'[r].user = top[r].user
            /\ pc'[r] = IF top[r].user # Zero THEN "treturn" ELSE "running"
        BY <1>1, <2>1 DEF GrowLost, TopUps
      <3>2. GrownAt(r, k, pc'[r], hdl'[r], taken'[r], top'[r]) = UserAt(r, k, top[r].user)
        BY <1>2, <2>z, <3>1 DEF GrownAt, SetAt, UserAt
      <3>3. GrownAt(r, k, pc[r], hdl[r], taken[r], top[r])
              = UserAt(r, k, top[r].user) + SetAt(r, k, hdl[r].budgets, top[r].scoped)
        BY <1>1, <3>1 DEF GrownAt, SetAt, UserAt, Typed
      <3> QED BY <1>1, <3>1, <3>2, <3>3 DEF SetAt, UserAt, Typed
    <2>2. CASE ReturnUserGrowth(r)
      <3>1. pc[r] = "treturn" /\ pc'[r] = "running"
        BY <1>1, <2>2 DEF ReturnUserGrowth
      <3> QED BY <1>1, <3>1 DEF GrownAt, SetAt, UserAt, Typed
    <2> QED BY <2>1, <2>2
  <1>5. reserved'[k] = IF reserved[k] >= d THEN reserved[k] - d ELSE 0
    <2>1. /\ OnCeilings(r, hdl[r].budgets, top[r].scoped) \in Amounts /\ reserved \in Amounts
          /\ OnUser(r, top[r].user) \in Amounts
      BY <1>1, OnType DEF TypeOK, TopUps
    <2>2. /\ OnCeilings(r, hdl[r].budgets, top[r].scoped)[k] = SetAt(r, k, hdl[r].budgets, top[r].scoped)
          /\ OnUser(r, top[r].user)[k] = UserAt(r, k, top[r].user)
      BY SpreadAt
    <2>3. CASE GrowLost(r)
      <3>1. /\ reserved' = Less(reserved, OnCeilings(r, hdl[r].budgets, top[r].scoped))
            /\ d = SetAt(r, k, hdl[r].budgets, top[r].scoped)
        BY <2>3 DEF GrowLost
      <3> HIDE DEF d
      <3> QED BY <2>1, <2>2, <3>1, FigureAt
    <2>4. CASE ReturnUserGrowth(r)
      <3>1. /\ reserved' = Less(reserved, OnUser(r, top[r].user))
            /\ d = UserAt(r, k, top[r].user)
        BY <2>4 DEF ReturnUserGrowth
      <3> HIDE DEF d
      <3> QED BY <2>1, <2>2, <3>1, FigureAt
    <2> QED BY <2>3, <2>4
  <1> HIDE DEF d
  <1>6. pc[r] \notin Over /\ pc'[r] \notin Over
    BY <1>2 DEF Over
  <1>7. /\ reserved'[k] >= IF reserved[k] >= d THEN reserved[k] - d ELSE 0
        /\ row[r].held[k] <= row'[r].held[k] /\ row'[r].status = row[r].status
    BY <1>1, <1>2, <1>3, <1>5 DEF Typed
  <1> QED BY <1>2, <1>3, <1>4, <1>6, <1>7, FallCovers

\* A move that is refused, fails, or finds its row reclaimed claims what was claimed.
LEMMA NoMoveCovers ==
  ASSUME TypeOK, NEW r \in Requests, NEW k \in Cells,
         RefuseMove(r) \/ MoveReclaimed(r) \/ MoveFails(r)
  PROVE  Covered(r, k)
  <1>1. Typed(r, k) /\ OldAt(r, k) \in Nat /\ RowAt(k, row[r]) \in Nat
        /\ hdl \in [Requests -> Handles] /\ hdl[r] \in Handles
        /\ pc \in [Requests -> Places] /\ row \in [Requests -> Rows]
    BY TypedAt DEF TypeOK
  <1>2. UNCHANGED <<reserved, taken, top>> /\ pc[r] = "running"
    BY DEF RefuseMove, MoveReclaimed, MoveFails, CanMove
  <1>3. NewAt(r, k) = OldAt(r, k) /\ RowAt(k, row'[r]) = RowAt(k, row[r])
    <2>1. CASE RefuseMove(r)
      BY <1>2, <2>1 DEF RefuseMove, NewAt, OldAt
    <2>2. CASE MoveReclaimed(r)
      <3>1. hdl[r].id /\ row[r].status # "active" /\ hdl'[r] = Retargeted(r)
        BY <1>1, <2>2 DEF MoveReclaimed, Active
      <3>2. hdl'[r].id /\ row'[r] = row[r] /\ pc'[r] = pc[r]
        BY <1>1, <2>2, <3>1 DEF MoveReclaimed, Retargeted, Handles
      <3> QED BY <1>2, <3>1, <3>2 DEF NewAt, OldAt, ClaimAt, GrownAt, Over
    <2>3. CASE MoveFails(r)
      <3>1. /\ pc'[r] = "refused" /\ hdl' = hdl
            /\ \/ row'[r] = row[r]
               \/ ~hdl[r].id /\ row[r].status = "none" /\ row'[r].status = "released"
        BY <1>1, <2>3 DEF MoveFails, Goto, NoRow
      <3>2. RowAt(k, row'[r]) = RowAt(k, row[r])
        BY <3>1 DEF RowAt
      <3>3. /\ HandAt(r, k, pc'[r], row'[r], taken'[r], top'[r]) = 0
            /\ HandAt(r, k, pc[r], row[r], taken[r], top[r]) = 0
            /\ GrownAt(r, k, pc'[r], hdl'[r], taken'[r], top'[r]) = 0
            /\ GrownAt(r, k, pc[r], hdl[r], taken[r], top[r]) = 0
            /\ pc[r] \notin Over /\ pc'[r] \notin Over
        BY <1>2, <3>1 DEF HandAt, GrownAt, Over
      <3>4. NewAt(r, k) = OldAt(r, k)
        BY <3>1, <3>2, <3>3 DEF NewAt, OldAt, ClaimAt
      <3> QED BY <3>2, <3>4
    <2> QED BY <2>1, <2>2, <2>3
  <1>4. reserved'[k] = reserved[k]
    BY <1>2
  <1> QED BY <1>1, <1>3, <1>4 DEF Covered, Typed

\* The end of a request gives back what it claims and no more.
LEMMA EndCovers ==
  ASSUME TypeOK, TypeOK', NEW r \in Requests, FormAt(r), LifeAt(r), NEW k \in Cells,
         (\E use \in Uses[r] : Settle(r, use)) \/ Refund(r) \/ Crash(r), pc'[r] # "again"
  PROVE  Covered(r, k)
  <1> USE DEF Goto, sweepVars, history
  <1>1. /\ Typed(r, k) /\ OldAt(r, k) \in Nat /\ RowAt(k, row[r]) \in Nat
        /\ RowAt(k, row[r]) <= OldAt(r, k)
        /\ pc \in [Requests -> Places] /\ row \in [Requests -> Rows] /\ row[r] \in Rows
        /\ hdl[r] \in Handles /\ HeldAt(r, k, hdl[r]) \in Nat
        /\ HandAt(r, k, pc[r], row[r], taken[r], top[r]) \in Nat
        /\ GrownAt(r, k, pc[r], hdl[r], taken[r], top[r]) \in Nat
        /\ RowAt(k, row'[r]) \in Nat
    BY TypedAt, ClaimAtType DEF TypeOK
  <1>2. pc'[r] \in Over
    BY <1>1 DEF Settle, Refund, Crash, Finish, Over
  <1>3. NewAt(r, k) = RowAt(k, row'[r])
    BY <1>2 DEF NewAt, ClaimAt
  <1>4. CASE Crash(r)
    <2>1. row' = row /\ reserved' = reserved
      BY <1>4 DEF Crash
    <2> QED BY <1>1, <1>3, <2>1 DEF Covered, Typed
  <1>5. CASE (\E use \in Uses[r] : Settle(r, use)) \/ Refund(r)
    <2> DEFINE gives == IF Claims(r) THEN HeldBy(r, hdl[r]) ELSE Nothing
               d == IF Claims(r) THEN HeldAt(r, k, hdl[r]) ELSE 0
    <2>1. /\ reserved' = Less(reserved, gives)
          /\ pc[r] \in {"running", "refused", "again"} \/ (pc[r] = "done" /\ hdl[r].id)
      BY <1>5 DEF Settle, Refund, MayFinalize
    <2>2. reserved'[k] = IF reserved[k] >= d THEN reserved[k] - d ELSE 0
      <3>1. gives \in Amounts /\ reserved \in Amounts
        BY RecordTypes, ZeroType DEF TypeOK
      <3>2. gives[k] = d
        BY SpreadAt DEF Nothing
      <3> HIDE DEF gives, d
      <3> QED BY <2>1, <3>1, <3>2, FigureAt
    <2>3. IF hdl[r].id THEN row'[r].status \in IF Claims(r) THEN {"settled", "released"}
                                               ELSE {row[r].status, "settled"}
          ELSE row'[r] = row[r]
      <3>1. CASE Refund(r)
        BY <1>1, <3>1 DEF Refund, Rows
      <3>2. ASSUME NEW use \in Uses[r], Settle(r, use)
            PROVE  IF hdl[r].id THEN row'[r].status \in IF Claims(r) THEN {"settled", "released"}
                                                     ELSE {row[r].status, "settled"}
                   ELSE row'[r] = row[r]
        BY <1>1, <3>2 DEF Settle, Rows
      <3> QED BY <1>5, <3>1, <3>2
    <2>4. RowAt(k, row'[r]) + d <= OldAt(r, k) /\ d \in Nat
      <3>1. CASE pc[r] \in {"running", "refused", "again"} /\ hdl[r].id
        <4>1. RowAt(k, row'[r]) = 0
          BY <2>3, <3>1 DEF RowAt, Claims, Active
        <4>2. pc[r] \notin Over
          BY <3>1 DEF Over
        <4>3. d \in Nat /\ (row[r].status # "active" => d = 0) /\ d <= HeldAt(r, k, hdl[r])
          BY <1>1, <3>1 DEF Claims, Active
        <4>4. row[r].held[k] \in Nat
          BY <1>1 DEF Typed
        <4> HIDE DEF d
        <4>5. d <= OldAt(r, k)
          BY <1>1, <3>1, <4>2, <4>3, <4>4 DEF OldAt, ClaimAt, MaxOf
        <4> QED BY <1>1, <4>1, <4>3, <4>5
      <3>2. CASE pc[r] \in {"running", "refused", "again"} /\ ~hdl[r].id
        <4>1. row'[r] = row[r] /\ d = HeldAt(r, k, hdl[r])
          BY <2>3, <3>2 DEF Claims
        <4>2. OldAt(r, k) = RowAt(k, row[r])
                + (HeldAt(r, k, hdl[r]) + HandAt(r, k, pc[r], row[r], taken[r], top[r]))
          BY <3>2 DEF OldAt, ClaimAt, Over
        <4> HIDE DEF d
        <4> QED BY <1>1, <4>1, <4>2
      <3>3. CASE pc[r] = "done" /\ hdl[r].id
        <4>1. row[r].status # "active"
          BY <3>3 DEF LifeAt
        <4>2. d = 0
          BY <3>3, <4>1 DEF Claims, Active
        <4>3. RowAt(k, row'[r]) = 0
          BY <2>3, <3>3, <4>1 DEF RowAt
        <4> QED BY <1>1, <4>2, <4>3
      <3> QED BY <2>1, <3>1, <3>2, <3>3
    <2> HIDE DEF d
    <2> QED BY <1>1, <1>3, <2>2, <2>4 DEF Covered, Typed
  <1> QED BY <1>4, <1>5

\* A step that keeps what was given back twice is covered as before.
LEMMA CoveredStill ==
  ASSUME TypeOK, TypeOK', NEW r \in Requests, NEW k \in Cells, Covered(r, k),
         doubled' = doubled
  PROVE  CoveredBut(r, k)
  <1>1. /\ OldAt(r, k) \in Nat /\ RowAt(k, row[r]) \in Nat
        /\ reserved[k] \in Nat /\ reserved'[k] \in Nat /\ doubled[k] \in Nat
    BY TypedAt DEF TypeOK, Amounts
  <1>2. NewAt(r, k) \in Nat /\ RowAt(k, row'[r]) \in Nat
    <2>1. hdl'[r] \in Handles /\ row'[r] \in Rows /\ top'[r] \in TopUps
      BY DEF TypeOK
    <2> QED BY <2>1, ClaimAtType DEF NewAt
  <1> QED BY <1>1, <1>2 DEF Covered, CoveredBut

\* A settlement without a row that reports a failure gives back what its handle goes
\* on to name.
LEMMA AgainCovers ==
  ASSUME TypeOK, TypeOK', NEW r \in Requests, NEW k \in Cells, NEW use \in Uses[r],
         Settle(r, use), pc'[r] = "again"
  PROVE  CoveredBut(r, k)
  <1> USE DEF Goto, sweepVars, history
  <1> DEFINE d == HeldAt(r, k, hdl[r])
  <1>1. /\ Typed(r, k) /\ OldAt(r, k) \in Nat /\ RowAt(k, row[r]) \in Nat
        /\ d \in Nat /\ pc \in [Requests -> Places] /\ doubled[k] \in Nat
    BY TypedAt, ClaimAtType DEF TypeOK, Amounts
  <1>2. /\ ~hdl[r].id /\ pc[r] \in {"running", "refused"}
        /\ UNCHANGED <<hdl, row, taken, top>>
        /\ reserved' = Less(reserved, HeldBy(r, hdl[r]))
        /\ doubled' = Plus(doubled, HeldBy(r, hdl[r]))
    BY <1>1 DEF Settle, Finish, Claims
  <1>3. /\ reserved'[k] = IF reserved[k] >= d THEN reserved[k] - d ELSE 0
        /\ doubled'[k] = doubled[k] + d
    <2>1. HeldBy(r, hdl[r]) \in Amounts /\ reserved \in Amounts /\ doubled \in Amounts
      BY RecordTypes DEF TypeOK
    <2>2. HeldBy(r, hdl[r])[k] = d
      BY SpreadAt
    <2> HIDE DEF d
    <2> QED BY <1>2, <2>1, <2>2, FigureAt
  <1>4. NewAt(r, k) = OldAt(r, k)
    <2>1. /\ HandAt(r, k, pc'[r], row'[r], taken'[r], top'[r]) = 0
          /\ HandAt(r, k, pc[r], row[r], taken[r], top[r]) = 0
          /\ pc[r] \notin Over /\ pc'[r] \notin Over
      BY <1>2 DEF HandAt, Over
    <2> QED BY <1>2, <2>1 DEF NewAt, OldAt, ClaimAt
  <1> HIDE DEF d
  <1> QED BY <1>1, <1>2, <1>3, <1>4 DEF CoveredBut, Typed

\* What a move does to one counter: the added ceilings take the whole hold, the
\* shared ones the growth, the dropped ones give theirs back.
LEMMA MoveCounter ==
  ASSUME TypeOK, NEW r \in Requests, NEW k \in Cells, MoveHolds(r)
  PROVE  LET h    == hdl[r]
             F    == Fallback[r]
             m    == MoveAmt(r)[k[2]]
             user == k[1] = UserOf[r]
         IN  /\ user => reserved'[k] = reserved[k]
             /\ ~user /\ k[1] \in F /\ k[1] \notin h.budgets => reserved'[k] = reserved[k] + m
             /\ ~user /\ k[1] \in F /\ k[1] \in h.budgets =>
                  reserved'[k] = reserved[k] + (m - h.scoped[k[2]]) /\ h.scoped[k[2]] <= m
             /\ ~user /\ k[1] \notin F /\ k[1] \in h.budgets =>
                  reserved'[k] = IF reserved[k] >= h.scoped[k[2]] THEN reserved[k] - h.scoped[k[2]] ELSE 0
             /\ ~user /\ k[1] \notin F /\ k[1] \notin h.budgets => reserved'[k] = reserved[k]
  <1> DEFINE h == hdl[r]
             F == Fallback[r]
             m == MoveAmt(r)[k[2]]
             user == k[1] = UserOf[r]
  <1>1. Typed(r, k) /\ hdl[r] \in Handles
    BY TypedAt DEF TypeOK
  <1>2. MoveAmt(r) \in Amt /\ m \in Nat /\ F \subseteq Ceilings
    BY <1>1, MoveTypes DEF Amt, Typed
  <1>3. reserved'[k] =
          LET s == reserved[k] + (SetAt(r, k, Added(r), MoveAmt(r))
                                   + SetAt(r, k, Shared(r), MoveGrowth(r)))
              d == SetAt(r, k, Dropped(r), h.scoped)
          IN  IF s >= d THEN s - d ELSE 0
    <2> DEFINE A == OnCeilings(r, Added(r), MoveAmt(r))
               S == OnCeilings(r, Shared(r), MoveGrowth(r))
               D == OnCeilings(r, Dropped(r), hdl[r].scoped)
    <2>1. /\ A \in Amounts /\ S \in Amounts /\ D \in Amounts /\ reserved \in Amounts
      BY <1>1, <1>2, OnType, MoveTypes DEF TypeOK, Handles
    <2>2. /\ A[k] = SetAt(r, k, Added(r), MoveAmt(r))
          /\ S[k] = SetAt(r, k, Shared(r), MoveGrowth(r))
          /\ D[k] = SetAt(r, k, Dropped(r), h.scoped)
      BY SpreadAt
    <2>3. reserved' = Less(Plus(reserved, Plus(A, S)), D)
      BY DEF MoveHolds
    <2> HIDE DEF A, S, D
    <2>4. Plus(A, S) \in Amounts /\ Plus(reserved, Plus(A, S)) \in Amounts
      BY <2>1, FigureOps DEF Amounts
    <2>5. Plus(A, S)[k] = A[k] + S[k]
      BY <2>1, FigureAt
    <2>6. Plus(reserved, Plus(A, S))[k] = reserved[k] + (A[k] + S[k])
      BY <2>1, <2>4, <2>5, FigureAt
    <2> QED BY <2>1, <2>2, <2>3, <2>4, <2>6, FigureAt
  <1>4. /\ Added(r) = F \ h.budgets /\ Shared(r) = F \cap h.budgets
         /\ Dropped(r) = h.budgets \ F
    BY DEF Added, Shared, Dropped
  <1>5. ASSUME k[1] \in Shared(r) PROVE MoveGrowth(r)[k[2]] = m - h.scoped[k[2]] /\ h.scoped[k[2]] <= m
    <2>1. h.budgets # {}
      BY <1>4, <1>5
    <2>2. MoveAmt(r) = [h.scoped EXCEPT !["usd"] = MaxOf(@, FallbackUsd[r])]
      BY <2>1 DEF MoveAmt
    <2>3. h.scoped \in [Axes -> Nat] /\ FallbackUsd[r] \in Nat /\ k[2] \in Axes /\ "usd" \in Axes
      BY <1>1, RequestAssumption DEF Handles, Amt, Typed, Axes
    <2>4. CASE k[2] = "usd"
      <3>1. MoveGrowth(r)[k[2]] = MoveAmt(r)["usd"] - hdl[r].scoped["usd"]
        BY <2>3, <2>4 DEF MoveGrowth, Zero
      <3>2. MoveAmt(r)["usd"] >= hdl[r].scoped["usd"]
        BY <2>2, <2>3 DEF MaxOf
      <3> QED BY <2>4, <3>1, <3>2
    <2>5. CASE k[2] # "usd"
      <3>1. MoveGrowth(r)[k[2]] = 0
        BY <2>3, <2>5 DEF MoveGrowth, Zero
      <3>2. m = h.scoped[k[2]]
        BY <2>2, <2>3, <2>5
      <3> QED BY <1>2, <3>1, <3>2
    <2> QED BY <2>4, <2>5
  <1>6. /\ user => k[1] \notin Ceilings
        /\ h.scoped[k[2]] \in Nat /\ reserved[k] \in Nat /\ h.budgets \subseteq Ceilings
    BY <1>1 DEF Typed
  <1>7. CASE user
    BY <1>2, <1>3, <1>6, <1>7 DEF SetAt
  <1>8. CASE ~user /\ k[1] \in F /\ k[1] \notin h.budgets
    BY <1>2, <1>3, <1>4, <1>6, <1>8 DEF SetAt
  <1>9. CASE ~user /\ k[1] \in F /\ k[1] \in h.budgets
    BY <1>2, <1>3, <1>4, <1>5, <1>6, <1>9 DEF SetAt
  <1>10. CASE ~user /\ k[1] \notin F /\ k[1] \in h.budgets
    BY <1>3, <1>4, <1>6, <1>10 DEF SetAt
  <1>11. CASE ~user /\ k[1] \notin F /\ k[1] \notin h.budgets
    BY <1>3, <1>4, <1>6, <1>11 DEF SetAt
  <1> QED BY <1>7, <1>8, <1>9, <1>10, <1>11

\* A move holds the new ceilings, grows the shared ones and gives back the rest,
\* and row and handle name the ceilings it ends on.
LEMMA MoveCovers ==
  ASSUME TypeOK, TypeOK', NEW r \in Requests, FormAt(r), LifeAt(r), NEW k \in Cells,
         Move(r)
  PROVE  Covered(r, k)
  <1> DEFINE h == hdl[r]
             F == Fallback[r]
             m == MoveAmt(r)[k[2]]
             user == k[1] = UserOf[r]
  <1>0. HeldBy(r, hdl[r])[k] = HeldAt(r, k, hdl[r])
    BY SpreadAt
  <1>1. /\ Typed(r, k) /\ OldAt(r, k) \in Nat /\ RowAt(k, row[r]) \in Nat
        /\ pc \in [Requests -> Places] /\ hdl \in [Requests -> Handles] /\ hdl[r] \in Handles
        /\ row \in [Requests -> Rows] /\ HeldAt(r, k, hdl[r]) \in Nat
        /\ RowAt(k, row[r]) <= OldAt(r, k)
    BY TypedAt, ClaimAtType DEF TypeOK
  <1>2. MoveAmt(r) \in Amt /\ m \in Nat /\ F \subseteq Ceilings
    BY <1>1, MoveTypes DEF Amt, Typed
  <1>3. /\ pc[r] = "running" /\ pc'[r] = "running" /\ hdl'[r] = Retargeted(r)
        /\ row'[r] = MovedRow(r) /\ (h.id => row[r].status = "active")
    BY <1>1 DEF Move, MoveHolds, CanMove, Active
  <1>4. ~h.id => row[r].status = "none"
    BY <1>3 DEF LifeAt, Serving, Arriving, Over, Places
  <1>5. /\ hdl'[r].budgets = F /\ hdl'[r].user = h.user /\ hdl'[r].reserved = h.reserved
        /\ hdl'[r].id = (h.id \/ F # {})
        /\ F # {} => hdl'[r].scoped = MoveAmt(r)
    BY <1>1, <1>3 DEF Retargeted, Handles
  <1>6. HeldAt(r, k, hdl'[r]) = IF user THEN HeldAt(r, k, h) ELSE IF k[1] \in F THEN m ELSE 0
    BY <1>5 DEF HeldAt
  <1>7. /\ GrownAt(r, k, pc[r], hdl[r], taken[r], top[r]) = 0
        /\ GrownAt(r, k, pc'[r], hdl'[r], taken'[r], top'[r]) = 0
        /\ HandAt(r, k, pc[r], row[r], taken[r], top[r]) = 0
        /\ HandAt(r, k, pc'[r], row'[r], taken'[r], top'[r]) = 0
        /\ pc[r] \notin Over /\ pc'[r] \notin Over
    BY <1>3 DEF GrownAt, HandAt, Over
  <1>8. OldAt(r, k) = IF h.id THEN MaxOf(row[r].held[k], HeldAt(r, k, h)) ELSE HeldAt(r, k, h)
    BY <1>1, <1>3, <1>4, <1>7 DEF OldAt, ClaimAt, RowAt, MaxOf, Typed
  <1>9. /\ user => reserved'[k] = reserved[k]
        /\ ~user /\ k[1] \in F /\ k[1] \notin h.budgets => reserved'[k] = reserved[k] + m
        /\ ~user /\ k[1] \in F /\ k[1] \in h.budgets =>
             reserved'[k] = reserved[k] + (m - h.scoped[k[2]]) /\ h.scoped[k[2]] <= m
        /\ ~user /\ k[1] \notin F /\ k[1] \in h.budgets =>
             reserved'[k] = IF reserved[k] >= h.scoped[k[2]] THEN reserved[k] - h.scoped[k[2]] ELSE 0
        /\ ~user /\ k[1] \notin F /\ k[1] \notin h.budgets => reserved'[k] = reserved[k]
    BY MoveCounter DEF Move
  <1>12. /\ user => HeldAt(r, k, h) = HeldAt(r, k, h) /\ k[1] \notin Ceilings
         /\ ~user => HeldAt(r, k, h) = IF k[1] \in h.budgets THEN h.scoped[k[2]] ELSE 0
         /\ h.scoped[k[2]] \in Nat /\ row[r].held[k] \in Nat /\ reserved[k] \in Nat
         /\ h.budgets \subseteq Ceilings
    BY <1>1 DEF HeldAt, Typed
  <1>13. NewAt(r, k) = IF user THEN OldAt(r, k) ELSE IF k[1] \in F THEN m ELSE 0
    <2>1. CASE h.id \/ F # {}
      <3>1. /\ row'[r].status = "active"
            /\ row'[r].held[k] = IF k[1] \in F THEN m
                                 ELSE IF ~user THEN 0
                                 ELSE IF h.id THEN row[r].held[k] ELSE HeldAt(r, k, h)
        BY <1>0, <1>3, <2>1 DEF MovedRow
      <3>2. hdl'[r].id
        BY <1>5, <2>1
      <3>3. NewAt(r, k) = MaxOf(row'[r].held[k] + 0, HeldAt(r, k, hdl'[r]) + 0)
        BY <1>7, <3>1, <3>2 DEF NewAt, ClaimAt
      <3> HIDE DEF h, F, m, user
      <3> QED BY <1>1, <1>2, <1>6, <1>8, <1>12, <3>1, <3>3 DEF MaxOf, h, F, user
    <2>2. CASE ~(h.id \/ F # {})
      <3>1. row'[r] = row[r] /\ ~hdl'[r].id /\ row[r].status = "none"
        BY <1>3, <1>4, <1>5, <2>2 DEF MovedRow
      <3>2. NewAt(r, k) = 0 + (HeldAt(r, k, hdl'[r]) + 0)
        BY <1>7, <3>1 DEF NewAt, ClaimAt, RowAt
      <3> QED BY <1>1, <1>6, <1>8, <2>2, <3>2
    <2> QED BY <2>1, <2>2
  <1>14. ~user => NewAt(r, k) <= RowAt(k, row'[r])
    <2>1. CASE h.id \/ F # {}
      <3>1. /\ row'[r].status = "active"
            /\ ~user => row'[r].held[k] = IF k[1] \in F THEN m ELSE 0
        BY <1>3, <2>1, SpreadAt DEF MovedRow
      <3> QED BY <1>2, <1>13, <3>1 DEF RowAt
    <2>2. CASE ~(h.id \/ F # {})
      <3>1. row'[r] = row[r] /\ row[r].status = "none"
        BY <1>3, <1>4, <2>2 DEF MovedRow
      <3> QED BY <1>13, <2>2, <3>1 DEF RowAt
    <2> QED BY <2>1, <2>2
  <1>15. user => RowAt(k, row[r]) <= RowAt(k, row'[r])
    <2>1. CASE h.id \/ F # {}
      <3>1. /\ row'[r].status = "active"
            /\ user => row'[r].held[k] = IF h.id THEN row[r].held[k] ELSE HeldAt(r, k, h)
        <4>1. row'[r].status = "active"
              /\ row'[r].held[k] = IF k[1] \in F THEN m
                                  ELSE IF ~user THEN 0
                                  ELSE IF h.id THEN row[r].held[k] ELSE HeldAt(r, k, h)
          BY <1>0, <1>3, <2>1 DEF MovedRow
        <4>2. user => k[1] \notin F
          BY <1>2, <1>12
        <4> HIDE DEF user, F, h, m
        <4> QED BY <4>1, <4>2
      <3> QED BY <1>1, <1>3, <1>4, <1>12, <3>1 DEF RowAt
    <2>2. CASE ~(h.id \/ F # {})
      <3>1. row'[r] = row[r]
        BY <1>3, <2>2 DEF MovedRow
      <3> QED BY <1>1, <3>1
    <2> QED BY <2>1, <2>2
  <1>16. reserved[k] + NewAt(r, k) <= reserved'[k] + OldAt(r, k)
    <2>1. CASE user
      <3>1. reserved'[k] = reserved[k]
        BY <1>9, <2>1
      <3> QED BY <1>1, <1>13, <2>1, <3>1 DEF Typed
    <2>2. CASE ~user
      <3>1. HeldAt(r, k, h) <= OldAt(r, k)
        BY <1>1, <1>8, <1>12 DEF MaxOf
      <3>2. CASE k[1] \in F /\ k[1] \notin h.budgets
        <4>1. reserved'[k] = reserved[k] + m
          BY <1>9, <2>2, <3>2
        <4> QED BY <1>1, <1>2, <1>12, <1>13, <2>2, <3>2, <4>1
      <3>3. CASE k[1] \in F /\ k[1] \in h.budgets
        <4>1. reserved'[k] = reserved[k] + (m - h.scoped[k[2]]) /\ h.scoped[k[2]] <= m
          BY <1>9, <2>2, <3>3
        <4> QED BY <1>1, <1>2, <1>12, <1>13, <2>2, <3>1, <3>3, <4>1
      <3>4. CASE k[1] \notin F /\ k[1] \in h.budgets
        <4>1. reserved'[k] = IF reserved[k] >= h.scoped[k[2]] THEN reserved[k] - h.scoped[k[2]] ELSE 0
          BY <1>9, <2>2, <3>4
        <4> QED BY <1>1, <1>12, <1>13, <2>2, <3>1, <3>4, <4>1
      <3>5. CASE k[1] \notin F /\ k[1] \notin h.budgets
        <4>1. reserved'[k] = reserved[k]
          BY <1>9, <2>2, <3>5
        <4> QED BY <1>1, <1>12, <1>13, <2>2, <3>5, <4>1
      <3> QED BY <3>2, <3>3, <3>4, <3>5
    <2> QED BY <2>1, <2>2
  <1>17. user => NewAt(r, k) <= OldAt(r, k)
    BY <1>1, <1>13
  <1> QED BY <1>14, <1>15, <1>16, <1>17 DEF Covered

\* What the old handle would give back after a move that landed and reported a
\* failure is what the move gave back, or wrote into a row of its own.
LEMMA MoveUntoldCovers ==
  ASSUME TypeOK, TypeOK', NEW r \in Requests, LifeAt(r), NEW k \in Cells, MoveUntold(r)
  PROVE  CoveredBut(r, k)
  <1> DEFINE h == hdl[r]
             F == Fallback[r]
             m == MoveAmt(r)[k[2]]
             s == hdl[r].scoped[k[2]]
             held == HeldAt(r, k, hdl[r])
             user == k[1] = UserOf[r]
             x == Doubly(r)[k]
  <1>1. /\ Typed(r, k) /\ OldAt(r, k) \in Nat /\ RowAt(k, row[r]) \in Nat
        /\ pc \in [Requests -> Places] /\ row \in [Requests -> Rows] /\ hdl[r] \in Handles
        /\ held \in Nat /\ doubled[k] \in Nat
    BY TypedAt, ClaimAtType DEF TypeOK, Amounts
  <1>2. m \in Nat /\ F \subseteq Ceilings
    BY <1>1, MoveTypes DEF Amt, Typed
  <1>3. /\ pc[r] = "running" /\ pc'[r] = "refused" /\ UNCHANGED <<hdl, taken, top>>
        /\ row'[r] = MovedRow(r) /\ (h.id => row[r].status = "active")
        /\ quiet' \cap Dropped(r) = {} /\ doubled' = Plus(doubled, Doubly(r))
    BY <1>1 DEF MoveUntold, MoveHolds, CanMove, Active, Goto
  <1>4. ~h.id => row[r].status = "none"
    BY <1>3 DEF LifeAt, Serving, Arriving, Over, Places
  <1>5. /\ GrownAt(r, k, pc[r], hdl[r], taken[r], top[r]) = 0
        /\ GrownAt(r, k, pc'[r], hdl'[r], taken'[r], top'[r]) = 0
        /\ HandAt(r, k, pc[r], row[r], taken[r], top[r]) = 0
        /\ HandAt(r, k, pc'[r], row'[r], taken'[r], top'[r]) = 0
        /\ pc[r] \notin Over /\ pc'[r] \notin Over
    BY <1>3 DEF GrownAt, HandAt, Over
  <1>6. OldAt(r, k) = IF h.id THEN MaxOf(row[r].held[k], held) ELSE held
    BY <1>1, <1>3, <1>4, <1>5 DEF OldAt, ClaimAt, RowAt, MaxOf, Typed
  <1>7. /\ user => reserved'[k] = reserved[k]
        /\ ~user /\ k[1] \in F /\ k[1] \notin h.budgets => reserved'[k] = reserved[k] + m
        /\ ~user /\ k[1] \in F /\ k[1] \in h.budgets =>
             reserved'[k] = reserved[k] + (m - s) /\ s <= m
        /\ ~user /\ k[1] \notin F /\ k[1] \in h.budgets =>
             reserved'[k] = IF reserved[k] >= s THEN reserved[k] - s ELSE 0
        /\ ~user /\ k[1] \notin F /\ k[1] \notin h.budgets => reserved'[k] = reserved[k]
    BY MoveCounter DEF MoveUntold
  <1>8. /\ user => k[1] \notin Ceilings /\ k[1] \notin F /\ k[1] \notin h.budgets
        /\ ~user => held = IF k[1] \in h.budgets THEN s ELSE 0
        /\ s \in Nat /\ row[r].held[k] \in Nat /\ reserved[k] \in Nat
    BY <1>1, <1>2 DEF HeldAt, Typed
  <1>9. /\ Doubly(r) \in Amounts /\ doubled'[k] = doubled[k] + x /\ x \in Nat
        /\ x = IF h.id \/ F = {} THEN SetAt(r, k, Dropped(r), hdl[r].scoped) ELSE held
    <2>1. Doubly(r) \in Amounts
      BY <1>1, MoveTypes
    <2>2. doubled \in Amounts
      BY DEF TypeOK
    <2>3. x = IF h.id \/ F = {} THEN SetAt(r, k, Dropped(r), hdl[r].scoped) ELSE held
      BY SpreadAt DEF Doubly
    <2>4. doubled'[k] = doubled[k] + Doubly(r)[k]
      BY <1>3, <2>1, <2>2, FigureAt
    <2> QED BY <2>1, <2>3, <2>4 DEF Amounts
  <1>10. SetAt(r, k, Dropped(r), hdl[r].scoped)
           = IF ~user /\ k[1] \notin F /\ k[1] \in h.budgets THEN s ELSE 0
    BY DEF SetAt, Dropped
  <1>11. ~user /\ k[1] \notin F /\ k[1] \in h.budgets => k[1] \notin quiet'
    BY <1>3 DEF Dropped
  <1>12. CASE h.id \/ F # {}
    <2>1. /\ row'[r].status = "active"
          /\ row'[r].held[k] = IF k[1] \in F THEN m
                               ELSE IF ~user THEN 0
                               ELSE IF h.id THEN row[r].held[k] ELSE held
      BY <1>3, <1>12, SpreadAt DEF MovedRow
    <2>2. /\ RowAt(k, row'[r]) = row'[r].held[k]
          /\ RowAt(k, row[r]) = IF h.id THEN row[r].held[k] ELSE 0
      BY <1>3, <1>4, <2>1 DEF RowAt
    <2>3. NewAt(r, k) = IF h.id THEN MaxOf(row'[r].held[k] + 0, held + 0)
                        ELSE row'[r].held[k] + (held + 0)
      BY <1>3, <1>5, <2>1, <2>2 DEF NewAt, ClaimAt
    <2> HIDE DEF h, F, m, s, held, user, x
    <2>4. reserved[k] + doubled[k] + NewAt(r, k) <= reserved'[k] + doubled'[k] + OldAt(r, k)
      <3>1. CASE h.id
        BY <1>1, <1>2, <1>6, <1>7, <1>8, <1>9, <1>10, <2>1, <2>3, <3>1 DEF MaxOf
      <3>2. CASE ~h.id
        BY <1>1, <1>2, <1>6, <1>7, <1>8, <1>9, <1>12, <2>1, <2>3, <3>2
      <3> QED BY <3>1, <3>2
    <2>5. k[1] \in quiet' /\ OldAt(r, k) <= RowAt(k, row[r]) => NewAt(r, k) <= RowAt(k, row'[r])
      <3>1. CASE h.id
        BY <1>1, <1>2, <1>6, <1>7, <1>8, <1>11, <2>1, <2>2, <2>3, <3>1 DEF MaxOf
      <3>2. CASE ~h.id
        BY <1>1, <1>2, <1>6, <1>8, <2>1, <2>2, <2>3, <3>2
      <3> QED BY <3>1, <3>2
    <2> QED BY <2>4, <2>5 DEF CoveredBut
  <1>13. CASE ~(h.id \/ F # {})
    <2>1. row'[r] = row[r]
      BY <1>3, <1>13 DEF MovedRow
    <2>2. NewAt(r, k) = OldAt(r, k)
      BY <1>3, <1>5, <1>13, <2>1 DEF NewAt, OldAt, ClaimAt
    <2> HIDE DEF h, F, m, s, held, user, x
    <2> QED BY <1>1, <1>7, <1>8, <1>9, <1>10, <1>13, <2>1, <2>2 DEF CoveredBut
  <1> QED BY <1>12, <1>13

\* No step of a request takes more off a counter than its own claim falls, but for
\* what is given back behind a handle that nothing fences.
LEMMA RequestCovers ==
  ASSUME "lie" \notin Faults, TypeOK, TypeOK', NEW r \in Requests, FormAt(r), LifeAt(r),
         NEW k \in Cells, Request(r)
  PROVE  CoveredBut(r, k)
  <1>0. CASE \/ MoveUntold(r)
             \/ \E use \in Uses[r] : Settle(r, use) /\ pc'[r] = "again"
    <2>1. CASE MoveUntold(r)
      BY <2>1, MoveUntoldCovers
    <2>2. CASE \E use \in Uses[r] : Settle(r, use) /\ pc'[r] = "again"
      <3> PICK use \in Uses[r] : Settle(r, use) /\ pc'[r] = "again"
        BY <2>2
      <3> QED BY AgainCovers
    <2> QED BY <1>0, <2>1, <2>2
  <1> SUFFICES ASSUME ~MoveUntold(r), ~ \E use \in Uses[r] : Settle(r, use) /\ pc'[r] = "again"
               PROVE  CoveredBut(r, k)
    BY <1>0
  <1>d. doubled' = doubled
    <2>1. CASE \E use \in Uses[r] : Settle(r, use)
      <3> PICK use \in Uses[r] : Settle(r, use)
        BY <2>1
      <3>1. pc'[r] # "again"
        OBVIOUS
      <3>2. pc \in [Requests -> Places]
        BY DEF TypeOK
      <3> QED BY <3>1, <3>2 DEF Settle, Finish, Goto
    <2>2. CASE ~ \E use \in Uses[r] : Settle(r, use)
      BY <2>2 DEF Request, RejectUser, AdmitExempt, LoadUser, ListCeilings, ReclaimOwn, HoldCeiling,
           RefuseCeiling, GiveBack, HoldUser, RefuseUser, HoldUserUnsure, ReleaseUnrecorded,
           RecordHold, StartTopUp, LoadUserAgain, GrowUser, RefuseGrowth, GiveBackGrowth,
           GrowUserFails, GrowRow, GrowRowFails, GrowLost, ReturnUserGrowth, Move, MoveFails,
           RefuseMove, MoveReclaimed, Refund, Crash, history
    <2> QED BY <2>1, <2>2
  <1> SUFFICES Covered(r, k)
    BY <1>d, CoveredStill
  <1>1. CASE RejectUser(r) \/ AdmitExempt(r) \/ LoadUser(r) \/ ListCeilings(r) \/ ReclaimOwn(r)
    BY <1>1, ArriveCovers
  <1>2. CASE \E c \in Ceilings : HoldCeiling(r, c)
    BY <1>2, CeilingCovers
  <1>3. CASE RefuseUser(r) \/ \E c \in Ceilings : RefuseCeiling(r, c)
    BY <1>3, RefuseCovers
  <1>4. CASE GiveBack(r)
    BY <1>4, GiveBackCovers
  <1>5. CASE HoldUser(r)
    BY <1>5, HoldUserCovers
  <1>6. CASE HoldUserUnsure(r)
    BY <1>6, UnsureCovers
  <1>7. CASE ReleaseUnrecorded(r)
    BY <1>7, ReleaseCovers
  <1>8. CASE RecordHold(r)
    BY <1>8, RecordCovers
  <1>9. CASE LoadUserAgain(r) \/ RefuseGrowth(r) \/ (\E tool \in BOOLEAN : StartTopUp(r, tool))
    BY <1>9, TopUpCovers
  <1>10. CASE GrowUser(r)
    BY <1>10, GrowUserCovers
  <1>11. CASE GiveBackGrowth(r)
    BY <1>11, GiveBackGrowthCovers
  <1>12. CASE GrowUserFails(r)
    BY <1>12, GrowFailsCovers
  <1>13. CASE GrowRow(r) \/ GrowRowFails(r)
    BY <1>13, GrowRowCovers
  <1>14. CASE GrowLost(r) \/ ReturnUserGrowth(r)
    BY <1>14, GrowLostCovers
  <1>15. CASE Move(r)
    BY <1>15, MoveCovers
  <1>16. CASE RefuseMove(r) \/ MoveReclaimed(r) \/ MoveFails(r)
    BY <1>16, NoMoveCovers
  <1>17. CASE (\E use \in Uses[r] : Settle(r, use)) \/ Refund(r) \/ Crash(r)
    <2>1. pc'[r] # "again"
      BY <1>17 DEF Refund, Crash, Finish, Goto, TypeOK
    <2> QED BY <1>17, <2>1, EndCovers
  <1> QED BY <1>1, <1>2, <1>3, <1>4, <1>5, <1>6, <1>7, <1>8, <1>9, <1>10, <1>11, <1>12, <1>13,
             <1>14, <1>15, <1>16, <1>17 DEF Request
-----------------------------------------------------------------------------
(* The form of a request's records.                                        *)

\* A step of a request keeps the form of its records.
LEMMA RequestForm ==
  ASSUME "lie" \notin Faults, TypeOK, NEW r \in Requests, FormAt(r), LifeAt(r), Request(r)
  PROVE  FormAt(r)'
  <1> USE DEF sweepVars, history, Goto, FormAt, Arriving, Serving, Places, Over, Active
  <1>1. /\ hdl[r] \in Handles /\ row[r] \in Rows /\ top[r] \in TopUps
        /\ pc[r] \in Places /\ taken[r] \subseteq Ceilings
    BY DEF TypeOK
  <1>2. /\ pc \in [Requests -> Places] /\ hdl \in [Requests -> Handles]
        /\ row \in [Requests -> Rows] /\ top \in [Requests -> TopUps]
        /\ taken \in [Requests -> SUBSET Ceilings]
    BY DEF TypeOK
  <1>3. CASE RejectUser(r)
    BY <1>3, <1>1, <1>2 DEF RejectUser
  <1>4. CASE AdmitExempt(r)
    BY <1>4, <1>1, <1>2 DEF AdmitExempt, NoHandle
  <1>5. CASE LoadUser(r)
    BY <1>5, <1>1, <1>2 DEF LoadUser
  <1>6. CASE ListCeilings(r)
    BY <1>6, <1>1, <1>2 DEF ListCeilings
  <1>7. CASE ReclaimOwn(r)
    BY <1>7, <1>1, <1>2 DEF ReclaimOwn
  <1>8. CASE \E c \in Ceilings : HoldCeiling(r, c)
    <2> PICK c \in Ceilings : HoldCeiling(r, c)
      BY <1>8
    <2>1. pc[r] \in {"ceilings", "tceil"} /\ UNCHANGED <<row, top>>
      BY DEF HoldCeiling, InLoop
    <2>2. CASE ~(pc[r] = "tceil" /\ Todo(r) = {c})
      BY <1>1, <1>2, <2>1, <2>2 DEF HoldCeiling
    <2>3. CASE pc[r] = "tceil" /\ Todo(r) = {c}
      <3>1. /\ taken'[r] = {} /\ hdl'[r] = [hdl[r] EXCEPT !.scoped = Plus(@, top[r].scoped)]
            /\ row'[r] = row[r] /\ top'[r] = top[r]
            /\ pc'[r] = IF top[r].user # Zero THEN "tload" ELSE "tgrow"
        BY <1>1, <1>2, <2>1, <2>3 DEF HoldCeiling
      <3>2. /\ hdl'[r].budgets = hdl[r].budgets /\ hdl'[r].id = hdl[r].id
            /\ hdl'[r].reserved = hdl[r].reserved /\ hdl'[r].user = hdl[r].user
            /\ hdl'[r].scoped = Plus(hdl[r].scoped, top[r].scoped)
        BY <1>1, <3>1 DEF Handles
      <3>3. Below(top[r].scoped, Plus(hdl[r].scoped, top[r].scoped))
        BY <1>1 DEF Below, Plus, Handles, TopUps, Amt
      <3>4. hdl[r].user = Zero => Below(hdl[r].user, top[r].user)
        BY <1>1 DEF Below, Zero, TopUps, Amt
      <3> QED BY <1>1, <2>3, <3>1, <3>2, <3>3, <3>4
    <2> QED BY <2>2, <2>3
  <1>9. CASE \E c \in Ceilings : RefuseCeiling(r, c)
    BY <1>9, <1>1, <1>2 DEF RefuseCeiling, InLoop
  <1>10. CASE GiveBack(r)
    BY <1>10, <1>1, <1>2 DEF GiveBack
  <1>11. CASE HoldUser(r)
    BY <1>11, <1>1, <1>2 DEF HoldUser, AdmissionRow, AdmissionHandle, CeilingsHeld
  <1>12. CASE RefuseUser(r)
    BY <1>12, <1>1, <1>2 DEF RefuseUser, CeilingsHeld
  <1>13. CASE HoldUserUnsure(r)
    <2>1. pc[r] = "ceilings" /\ pc'[r] = "unsure" /\ UNCHANGED hdl
      BY <1>13, <1>2 DEF HoldUserUnsure, CeilingsHeld
    <2> QED BY <2>1
  <1>14. CASE ReleaseUnrecorded(r)
    <2>1. pc'[r] = "rejected"
      BY <1>14, <1>2 DEF ReleaseUnrecorded
    <2> QED BY <2>1
  <1>15. CASE RecordHold(r)
    <2>1. /\ pc'[r] = "running" /\ taken'[r] = {}
          /\ hdl'[r].budgets = Primary[r] /\ ~hdl'[r].reserved /\ hdl'[r].user = Zero
      BY <1>15, <1>2 DEF RecordHold, AdmissionHandle
    <2>2. row'[r] = row[r] \/ row'[r] = AdmissionRow(r, FALSE)
      BY <1>15, <1>2 DEF RecordHold
    <2>3. row[r].status = "none"
      BY <1>15 DEF RecordHold, CeilingsHeld, LifeAt
    <2> QED BY <2>1, <2>2, <2>3 DEF AdmissionRow
  <1>16. CASE \E tool \in BOOLEAN : StartTopUp(r, tool)
    <2> PICK tool \in BOOLEAN : StartTopUp(r, tool)
      BY <1>16
    <2>1. /\ pc[r] = "running" /\ pc'[r] \in {"tceil", "tload"} /\ UNCHANGED <<row, hdl, taken>>
          /\ top'[r].reserved = hdl[r].reserved
      BY <1>1, <1>2 DEF StartTopUp
    <2>2. pc'[r] = "tload" => top'[r].scoped = Zero
      BY <1>1, <1>2 DEF StartTopUp
    <2>3. pc'[r] = "tload" => Below(top'[r].scoped, hdl'[r].scoped)
      BY <1>1, <2>1, <2>2 DEF Below, Zero, Handles, Amt
    <2> QED BY <2>1, <2>3
  <1>17. CASE LoadUserAgain(r)
    <2>1. /\ pc[r] = "tload" /\ pc'[r] \in {"thold", "tgrow", "running"}
          /\ UNCHANGED <<row, hdl, taken>>
          /\ top'[r].reserved = top[r].reserved /\ top'[r].scoped = top[r].scoped
          /\ pc'[r] = "tgrow" => top'[r].user = Zero
      BY <1>17, <1>1, <1>2 DEF LoadUserAgain, TopUps
    <2>2. hdl[r].user = Zero => Below(hdl[r].user, Zero)
      BY DEF Below, Zero
    <2> QED BY <1>1, <2>1, <2>2
  <1>18. CASE GrowUser(r)
    <2>1. /\ pc[r] = "thold" /\ pc'[r] = "tgrow" /\ UNCHANGED <<row, top, taken>>
          /\ hdl'[r].user = Plus(hdl[r].user, top[r].user) /\ hdl'[r].reserved
          /\ hdl'[r].scoped = hdl[r].scoped /\ hdl'[r].budgets = hdl[r].budgets
          /\ hdl'[r].id = hdl[r].id
      BY <1>18, <1>1, <1>2 DEF GrowUser, Handles
    <2>2. hdl[r].user = Zero => Below(Plus(hdl[r].user, top[r].user), top[r].user)
      BY <1>1 DEF Below, Plus, Zero, TopUps, Amt
    <2> QED BY <1>1, <2>1, <2>2
  <1>19. CASE RefuseGrowth(r)
    BY <1>19, <1>1, <1>2 DEF RefuseGrowth
  <1>20. CASE GiveBackGrowth(r)
    BY <1>20, <1>1, <1>2 DEF GiveBackGrowth, Handles
  <1>21. CASE GrowUserFails(r)
    BY <1>21, <1>1, <1>2 DEF GrowUserFails, Handles
  <1>22. CASE GrowRow(r)
    BY <1>22, <1>1, <1>2 DEF GrowRow, Rows
  <1>23. CASE GrowRowFails(r)
    <2>1. /\ pc[r] = "tgrow" /\ UNCHANGED taken
          /\ row'[r].on = row[r].on /\ row'[r].status = row[r].status
      BY <1>23, <1>1, <1>2 DEF GrowRowFails, Rows
    <2>2. CASE top[r].tool
      <3>1. /\ pc'[r] = "running" /\ hdl'[r].budgets = hdl[r].budgets /\ hdl'[r].id = hdl[r].id
            /\ hdl'[r].user = Less(hdl[r].user, top[r].user)
            /\ hdl'[r].reserved = top[r].reserved
        <4>1. hdl' = [hdl EXCEPT ![r].scoped = Less(@, top[r].scoped),
                                 ![r].user   = Less(@, top[r].user),
                                 ![r].reserved = top[r].reserved]
              /\ pc' = [pc EXCEPT ![r] = "running"]
          BY <1>23, <2>2 DEF GrowRowFails
        <4> QED BY <1>1, <1>2, <4>1 DEF Handles
      <3>2. Below(hdl[r].user, top[r].user) => Less(hdl[r].user, top[r].user) = Zero
        BY <1>1 DEF Below, Less, Zero, Handles, TopUps, Amt
      <3> QED BY <1>1, <2>1, <3>1, <3>2
    <2>3. CASE ~top[r].tool
      <3>1. pc'[r] = "refused" /\ hdl'[r] = hdl[r]
        BY <1>23, <1>1, <1>2, <2>3 DEF GrowRowFails
      <3> QED BY <1>1, <2>1, <3>1
    <2> QED BY <2>2, <2>3
  <1>24. CASE GrowLost(r)
    BY <1>24, <1>1, <1>2 DEF GrowLost, Handles
  <1>25. CASE ReturnUserGrowth(r)
    <2>1. /\ pc[r] = "treturn" /\ pc'[r] = "running" /\ UNCHANGED <<row, taken>>
          /\ hdl'[r].user = Less(hdl[r].user, top[r].user)
          /\ hdl'[r].reserved = hdl[r].reserved
          /\ hdl'[r].scoped = hdl[r].scoped /\ hdl'[r].budgets = hdl[r].budgets
          /\ hdl'[r].id = hdl[r].id
      BY <1>25, <1>1, <1>2 DEF ReturnUserGrowth, Handles
    <2>2. hdl[r].user = Zero => Less(hdl[r].user, top[r].user) = Zero
      BY <1>1 DEF Less, Zero, TopUps, Amt
    <2> QED BY <1>1, <2>1, <2>2
  <1>26. CASE Move(r)
    <2>1. pc[r] = "running" /\ UNCHANGED <<pc, taken, top>> /\ hdl'[r] = Retargeted(r)
          /\ row'[r] = MovedRow(r)
      BY <1>26, <1>1, <1>2 DEF Move, MoveHolds, CanMove
    <2>2. /\ hdl'[r].budgets = Fallback[r] /\ hdl'[r].user = hdl[r].user
          /\ hdl'[r].reserved = hdl[r].reserved /\ hdl'[r].id = (hdl[r].id \/ Fallback[r] # {})
      BY <1>1, <2>1 DEF Retargeted, Handles
    <2>3. hdl[r].id \/ Fallback[r] # {} => row'[r].on = Fallback[r]
      BY <2>1 DEF MovedRow
    <2> QED BY <1>1, <2>1, <2>2, <2>3
  <1>27. CASE RefuseMove(r)
    BY <1>27, <1>1, <1>2 DEF RefuseMove
  <1>28. CASE MoveReclaimed(r)
    BY <1>28, <1>1, <1>2 DEF MoveReclaimed, CanMove, Retargeted, Handles
  <1>29. CASE \E use \in Uses[r] : Settle(r, use)
    <2> PICK use \in Uses[r] : Settle(r, use)
      BY <1>29
    <2>1. /\ UNCHANGED <<hdl, taken, top>>
          /\ \/ pc'[r] = "done"
             \/ pc'[r] = "again" /\ ~hdl[r].id /\ pc[r] \in {"running", "refused"}
      BY <1>2 DEF Settle, Finish
    <2> QED BY <2>1
  <1>30. CASE Refund(r)
    BY <1>30, <1>1, <1>2 DEF Refund, Finish
  <1>31. CASE Crash(r)
    BY <1>31, <1>1, <1>2 DEF Crash
  <1>32. CASE MoveUntold(r) \/ MoveFails(r)
    <2>1. pc[r] = "running" /\ pc'[r] = "refused" /\ UNCHANGED <<hdl, taken>>
      BY <1>32, <1>2 DEF MoveUntold, MoveFails, MoveHolds, CanMove
    <2> QED BY <2>1
  <1> QED BY <1>3, <1>4, <1>5, <1>6, <1>7, <1>8, <1>9, <1>10, <1>11, <1>12, <1>13, <1>14, <1>15,
             <1>16, <1>17, <1>18, <1>19, <1>20, <1>21, <1>22, <1>23, <1>24, <1>25, <1>26, <1>27,
             <1>28, <1>29, <1>30, <1>31, <1>32 DEF Request

\* Records that do not change keep their form; so do those of a row that expires
\* or is pruned.
LEMMA SweepForm ==
  ASSUME TypeOK, FormInv, NEW q \in Requests, UNCHANGED <<pc, hdl, taken, top>>,
         \/ row'[q] = row[q]
         \/ row'[q].status # "active"
  PROVE  FormAt(q)'
  BY DEF FormInv, FormAt, Active

-----------------------------------------------------------------------------
(* What a sweep listed. The row of a listed request is one its handle names, *)
(* and the user leg of it has only grown since.                             *)

ListAt(x) ==
  /\ pc[x.r] \notin Arriving
  /\ pc[x.r] \in Serving \ {"refused", "again"} => hdl[x.r].id
  /\ Active(x.r) => \A a \in Axes : x.user[a] <= row[x.r].held[<<UserOf[x.r], a>>]
ListInv == \A p \in Procs : \A x \in batch[p] : ListAt(x)

\* What a step of a request that is past its admission does to its own row.
Grows(r) ==
  /\ pc'[r] \notin Arriving
  /\ pc'[r] \in Serving \ {"refused", "again"} => hdl'[r].id
  /\ row'[r].status = "active" =>
       /\ row[r].status = "active"
       /\ \A a \in Axes : row[r].held[<<UserOf[r], a>>] <= row'[r].held[<<UserOf[r], a>>]

\* Once admitted, a request's own steps keep its handle and only grow the user leg
\* of its active row.
LEMMA RequestGrows ==
  ASSUME "lie" \notin Faults, TypeOK, NEW r \in Requests, Request(r), LifeAt(r),
         pc[r] \notin Arriving, pc[r] \in Serving \ {"refused", "again"} => hdl[r].id
  PROVE  Grows(r)
  <1> USE DEF sweepVars, history, Goto, Arriving, Serving, Places, Over, Active
  <1>1. /\ hdl[r] \in Handles /\ row[r] \in Rows /\ top[r] \in TopUps
        /\ pc[r] \in Places /\ taken[r] \subseteq Ceilings
    BY DEF TypeOK
  <1>2. /\ pc \in [Requests -> Places] /\ hdl \in [Requests -> Handles]
        /\ row \in [Requests -> Rows]
    BY DEF TypeOK
  <1>3. \A a \in Axes : row[r].held[<<UserOf[r], a>>] \in Nat /\ <<UserOf[r], a>> \in Cells
    BY <1>1, RequestAssumption DEF Rows, Amounts, Cells, Counters
  <1>4. CASE row'[r] = row[r]
    <2>1. pc'[r] \notin Arriving /\ (pc'[r] \in Serving \ {"refused", "again"} => hdl'[r].id)
      <3>1. CASE RejectUser(r) \/ AdmitExempt(r) \/ LoadUser(r) \/ ListCeilings(r) \/ ReclaimOwn(r)
        BY <3>1, <1>2 DEF RejectUser, AdmitExempt, LoadUser, ListCeilings, ReclaimOwn
      <3>2. CASE \E c \in Ceilings : HoldCeiling(r, c) \/ RefuseCeiling(r, c)
        BY <3>2, <1>1, <1>2 DEF HoldCeiling, RefuseCeiling, InLoop, Handles
      <3>3. CASE GiveBack(r) \/ HoldUser(r) \/ RefuseUser(r) \/ HoldUserUnsure(r) \/ RecordHold(r)
        BY <3>3, <1>1, <1>2 DEF GiveBack, HoldUser, RefuseUser, HoldUserUnsure, RecordHold, CeilingsHeld
      <3>4. CASE ReleaseUnrecorded(r) \/ LoadUserAgain(r) \/ RefuseGrowth(r)
        BY <3>4, <1>1, <1>2 DEF ReleaseUnrecorded, LoadUserAgain, RefuseGrowth
      <3>5. CASE \E tool \in BOOLEAN : StartTopUp(r, tool)
        BY <3>5, <1>1, <1>2 DEF StartTopUp
      <3>6. CASE GrowUser(r) \/ GiveBackGrowth(r) \/ GrowUserFails(r) \/ GrowRow(r)
        <4>1. pc[r] \in Serving \ {"refused", "again"} /\ pc'[r] \notin Arriving
          BY <3>6, <1>1, <1>2 DEF GrowUser, GiveBackGrowth, GrowUserFails, GrowRow
        <4>2. hdl'[r].id = hdl[r].id
          <5>1. CASE GrowUser(r)
            BY <5>1, <1>1, <1>2 DEF GrowUser, Handles
          <5>2. CASE GiveBackGrowth(r) \/ GrowUserFails(r) \/ GrowRow(r)
            <6>1. hdl' = hdl \/ hdl' = [hdl EXCEPT ![r].scoped = Less(@, top[r].scoped)]
              BY <5>2 DEF GiveBackGrowth, GrowUserFails, GrowRow
            <6> QED BY <1>1, <1>2, <6>1 DEF Handles
          <5> QED BY <3>6, <5>1, <5>2
        <4> QED BY <4>1, <4>2
      <3>7. CASE GrowRowFails(r)
        BY <3>7, <1>1, <1>2 DEF GrowRowFails, Handles
      <3>8. CASE GrowLost(r) \/ ReturnUserGrowth(r)
        BY <3>8, <1>1, <1>2 DEF GrowLost, ReturnUserGrowth, Handles
      <3>9. CASE Move(r) \/ RefuseMove(r) \/ MoveReclaimed(r)
        <4>1. pc[r] = "running" /\ pc'[r] = "running" /\ (hdl'[r] = hdl[r] \/ hdl'[r] = Retargeted(r))
          BY <3>9, <1>1, <1>2 DEF Move, MoveHolds, RefuseMove, MoveReclaimed, CanMove
        <4>2. hdl[r].id /\ (hdl'[r] = Retargeted(r) => hdl'[r].id)
          BY <1>1, <4>1 DEF Retargeted, Handles
        <4> QED BY <4>1, <4>2
      <3>10. CASE (\E use \in Uses[r] : Settle(r, use)) \/ Refund(r) \/ Crash(r)
        <4>1. pc'[r] \in {"done", "dead", "again"}
          BY <3>10, <1>1, <1>2 DEF Settle, Refund, Crash, Finish
        <4> QED BY <4>1
      <3>11. CASE MoveUntold(r) \/ MoveFails(r)
        <4>1. pc'[r] = "refused"
          BY <3>11, <1>2 DEF MoveUntold, MoveFails
        <4> QED BY <4>1
      <3> QED BY <3>1, <3>2, <3>3, <3>4, <3>5, <3>6, <3>7, <3>8, <3>9, <3>10,
                 <3>11 DEF Request
    <2> QED BY <1>3, <1>4, <2>1 DEF Grows
  <1>5. CASE row'[r] # row[r]
    <2>1. CASE HoldUser(r) \/ HoldUserUnsure(r) \/ RecordHold(r)
      BY <2>1 DEF HoldUser, HoldUserUnsure, RecordHold, CeilingsHeld
    <2>2. CASE ReleaseUnrecorded(r)
      <3>1. pc'[r] = "rejected" /\ row'[r].status = "released"
        BY <1>1, <1>2, <1>5, <2>2 DEF ReleaseUnrecorded, NoRow
      <3> QED BY <3>1 DEF Grows
    <2>3. CASE GrowRow(r) \/ GrowRowFails(r)
      <3>1. row' = row \/ (row' = [row EXCEPT ![r].held = Plus(@, GrowthOf(r))] /\ Active(r) /\ hdl[r].id)
        BY <1>2, <2>3 DEF GrowRow, GrowRowFails
      <3>2. Active(r) /\ hdl[r].id /\ row'[r].held = Plus(row[r].held, GrowthOf(r))
        BY <1>1, <1>2, <1>5, <3>1 DEF Rows
      <3>3. pc'[r] \in {"running", "refused"}
        BY <1>2, <2>3 DEF GrowRow, GrowRowFails
      <3>4. hdl'[r].id
        <4>1. hdl' = hdl \/ hdl' = [hdl EXCEPT ![r].scoped = Less(@, top[r].scoped),
                                ![r].user   = Less(@, top[r].user),
                                ![r].reserved = top[r].reserved]
          BY <2>3 DEF GrowRow, GrowRowFails
        <4> QED BY <1>1, <1>2, <3>2, <4>1 DEF Handles
      <3>5. ASSUME NEW a \in Axes
            PROVE  row[r].held[<<UserOf[r], a>>] <= row'[r].held[<<UserOf[r], a>>]
        <4>1. GrowthOf(r) \in Amounts /\ row[r].held \in Amounts
          BY <1>1, RecordTypes DEF Rows, GrowthOf
        <4> QED BY <1>3, <3>2, <4>1, FigureAt
      <3> QED BY <3>2, <3>3, <3>4, <3>5 DEF Grows
    <2>4. CASE Move(r) \/ MoveUntold(r)
      <3>1. /\ pc[r] = "running" /\ pc'[r] \in {"running", "refused"} /\ row'[r] = MovedRow(r)
            /\ hdl[r].id /\ Active(r) /\ (hdl'[r] = hdl[r] \/ hdl'[r] = Retargeted(r))
        BY <1>1, <1>2, <2>4 DEF Move, MoveUntold, MoveHolds, CanMove
      <3>2. hdl'[r].id
        BY <1>1, <3>1 DEF Retargeted, Handles
      <3>3. UserOf[r] \notin Fallback[r]
        BY RequestAssumption, SetsAssumption
      <3>4. \A a \in Axes : row'[r].held[<<UserOf[r], a>>] = row[r].held[<<UserOf[r], a>>]
        BY <1>3, <3>1, <3>3 DEF MovedRow
      <3> QED BY <1>3, <3>1, <3>2, <3>4 DEF Grows
    <2>5. CASE (\E use \in Uses[r] : Settle(r, use)) \/ Refund(r)
      <3>1. pc'[r] \in {"done", "again"} /\ row'[r].status # "active"
        <4>1. /\ \/ pc' = [pc EXCEPT ![r] = "done"]
                 \/ pc' = [pc EXCEPT ![r] = "again"]
              /\ \/ row' = [row EXCEPT ![r].status = "settled"]
                 \/ row' = [row EXCEPT ![r].status = "released"]
                 \/ row' = row
          BY <2>5 DEF Settle, Refund, Finish
        <4> QED BY <1>1, <1>2, <1>5, <4>1 DEF Rows
      <3> QED BY <3>1 DEF Grows
    <2>6. CASE row' = row
      BY <1>5, <2>6
    <2>8. ~MoveFails(r)
      BY <1>5 DEF MoveFails, CanMove
    <2>7. \/ HoldUser(r) \/ HoldUserUnsure(r) \/ RecordHold(r) \/ ReleaseUnrecorded(r)
          \/ GrowRow(r) \/ GrowRowFails(r) \/ Move(r) \/ MoveUntold(r) \/ MoveFails(r)
          \/ (\E use \in Uses[r] : Settle(r, use)) \/ Refund(r) \/ row' = row
      BY DEF Request, RejectUser, AdmitExempt, LoadUser, ListCeilings, ReclaimOwn, HoldCeiling,
             RefuseCeiling, GiveBack, RefuseUser, StartTopUp, LoadUserAgain, GrowUser, RefuseGrowth,
             GiveBackGrowth, GrowUserFails, GrowLost, ReturnUserGrowth, RefuseMove, MoveReclaimed,
             Crash
    <2> QED BY <2>1, <2>2, <2>3, <2>4, <2>5, <2>6, <2>7, <2>8
  <1> QED BY <1>4, <1>5

\* A step of the sweep or of the clock leaves a row alone, lets an active one
\* expire, or prunes one of a request that is over.
LEMMA SweepRows ==
  ASSUME TypeOK, Next, ~(\E r \in Requests : Request(r)), NEW q \in Requests
  PROVE  \/ row'[q] = row[q]
         \/ /\ row[q].status = "active" /\ row'[q].status = "expired"
            /\ \E p \in Procs : \E x \in batch[p] : x.r = q /\ Reclaim(p, x)
         \/ /\ row[q].status \in Terminal /\ pc[q] \in Over
            /\ row'[q].status = "none"
  <1> USE DEF sweepVars, history
  <1>1. /\ row[q] \in Rows /\ row \in [Requests -> Rows]
        /\ \A p \in Procs : \A x \in batch[p] : x.r \in Requests
    BY DEF TypeOK
  <1>2. CASE \E p \in Procs : \E x \in batch[p] : Reclaim(p, x)
    <2>p. PICK p \in Procs : \E x \in batch[p] : Reclaim(p, x)
      BY <1>2
    <2>1. PICK x \in batch[p] : Reclaim(p, x)
      BY <2>p
    <2>2. \/ row'[q] = row[q]
          \/ row[q].status = "active" /\ row'[q].status = "expired" /\ x.r = q
      BY <2>1, <1>1 DEF Reclaim, Active, Rows
    <2> QED BY <2>1, <2>2
  <1>3. CASE SweepPrune
    <2>1. PICK S \in SUBSET {r \in expired : row[r].status \in Terminal /\ pc[r] \in Over} :
            row' = [r \in Requests |-> IF r \in S THEN NoRow ELSE row[r]]
      BY <1>3 DEF SweepPrune
    <2> QED BY <2>1 DEF NoRow
  <1>4. CASE SweepList \/ SweepScan \/ SweepFails \/ \E c \in Counters : SweepClamp(c)
    BY <1>1, <1>4 DEF SweepList, SweepScan, SweepFails, SweepClamp
  <1>5. CASE \/ \E r \in Requests : Expire(r)
             \/ \E c \in Counters : GoQuiet(c) \/ EndWindow(c)
             \/ \E u \in Users : AssignBudget(u)
    BY <1>1, <1>5 DEF Expire, GoQuiet, EndWindow, AssignBudget
  <1> QED BY <1>2, <1>3, <1>4, <1>5 DEF Next, Sweep

\* What a step of a request adds to the lists of rows to reclaim.
LEMMA RequestLists ==
  ASSUME TypeOK, NEW r \in Requests, Request(r), NEW p \in Procs, NEW x \in batch'[p]
  PROVE  \/ x \in batch[p]
         \/ x \in Listed(Requests) /\ pc[r] \in Arriving
  <1> USE DEF sweepVars, history, Goto
  <1>1. batch \in [Procs -> SUBSET [r : Requests, user : Amt]] /\ r \in Procs
    BY DEF TypeOK, Procs
  <1>2. CASE ReclaimOwn(r)
    <2>1. pc[r] = "reclaim" /\ batch' = [batch EXCEPT ![r] = Listed({q \in Requests : UserOf[q] = UserOf[r]})]
      BY <1>2 DEF ReclaimOwn
    <2>2. Listed({q \in Requests : UserOf[q] = UserOf[r]}) \subseteq Listed(Requests)
      BY DEF Listed
    <2> QED BY <1>1, <2>1, <2>2 DEF Arriving
  <1>3. CASE Crash(r)
    BY <1>1, <1>3 DEF Crash
  <1>4. CASE ~ReclaimOwn(r) /\ ~Crash(r)
    <2>1. batch' = batch
      BY <1>4 DEF Request, RejectUser, AdmitExempt, LoadUser, ListCeilings, HoldCeiling,
             RefuseCeiling, GiveBack, HoldUser, RefuseUser, HoldUserUnsure, ReleaseUnrecorded, RecordHold,
             StartTopUp, LoadUserAgain, GrowUser, RefuseGrowth, GiveBackGrowth, GrowUserFails, GrowRow,
             GrowRowFails, GrowLost, ReturnUserGrowth, Move, MoveUntold, MoveFails,
             MoveHolds, RefuseMove, MoveReclaimed, Settle, Refund
    <2> QED BY <2>1
  <1> QED BY <1>2, <1>3, <1>4

\* A row that is listed now is as the list says.
LEMMA ListedNow ==
  ASSUME TypeOK, LifeInv, NEW x \in Listed(Requests)
  PROVE  x.r \in Requests /\ Active(x.r) /\ ListAt(x)
  <1>1. PICK q \in Requests :
          Active(q) /\ x = [r |-> q, user |-> [a \in Axes |-> row[q].held[<<UserOf[q], a>>]]]
    BY DEF Listed
  <1>2. row[q] \in Rows /\ LifeAt(q)
    BY DEF TypeOK, LifeInv
  <1>3. \A a \in Axes : row[q].held[<<UserOf[q], a>>] \in Nat
    BY <1>2, RequestAssumption DEF Rows, Amounts, Cells, Counters
  <1>4. x.r = q /\ \A a \in Axes : x.user[a] = row[q].held[<<UserOf[q], a>>]
    BY <1>1
  <1>5. \A a \in Axes : x.user[a] <= row[q].held[<<UserOf[q], a>>]
    BY <1>3, <1>4
  <1>6. pc[q] \notin Arriving /\ (pc[q] \in Serving \ {"refused", "again"} => hdl[q].id)
    BY <1>1, <1>2 DEF LifeAt, Active
  <1> QED BY <1>1, <1>4, <1>5, <1>6 DEF ListAt

\* The lists stay true to the rows.
LEMMA ListStep ==
  ASSUME "lie" \notin Faults, TypeOK, LifeInv, ListInv, Next
  PROVE  ListInv'
  <1> SUFFICES ASSUME NEW p \in Procs, NEW x \in batch'[p] PROVE ListAt(x)'
    BY DEF ListInv
  <1>0. \A d \in Procs : \A y \in batch[d] : y.r \in Requests /\ y.user \in Amt /\ ListAt(y)
    BY DEF TypeOK, ListInv
  <1>1. CASE \E r \in Requests : Request(r)
    <2> PICK r \in Requests : Request(r)
      BY <1>1
    <2>1. \/ x \in batch[p]
          \/ x \in Listed(Requests) /\ pc[r] \in Arriving
      BY RequestLists
    <2>2. x.r \in Requests /\ ListAt(x) /\ (x.r = r => pc[r] \notin Arriving)
      BY <1>0, <2>1, ListedNow DEF ListAt
    <2>3. CASE x.r # r
      <3>1. UNCHANGED Local(x.r)
        BY <2>2, <2>3, Locality
      <3> QED BY <2>2, <3>1 DEF Local, ListAt, Active
    <2>4. CASE x.r = r
      <3>1. x \in batch[p]
        <4>1. x \in Listed(Requests) => LifeAt(r) /\ Active(r)
          BY <2>4, ListedNow DEF LifeInv
        <4> QED BY <2>1, <4>1 DEF LifeAt, Active
      <3>2. Grows(r)
        BY <2>2, <2>4, RequestGrows DEF LifeInv, ListAt
      <3>3. ASSUME Active(r)', NEW a \in Axes
            PROVE  x.user[a] <= row'[r].held[<<UserOf[r], a>>]
        <4>1. /\ x.user[a] <= row[r].held[<<UserOf[r], a>>]
              /\ row[r].held[<<UserOf[r], a>>] <= row'[r].held[<<UserOf[r], a>>]
          BY <2>2, <2>4, <3>2, <3>3 DEF ListAt, Grows, Active
        <4>2. x.user[a] \in Nat /\ row[r].held[<<UserOf[r], a>>] \in Nat
              /\ row'[r].held[<<UserOf[r], a>>] \in Nat
          <5>1. TypeOK'
            BY RequestType
          <5>2. row[r] \in Rows /\ row'[r] \in Rows
            BY <5>1 DEF TypeOK
          <5>3. <<UserOf[r], a>> \in Cells
            BY RequestAssumption DEF Cells, Counters
          <5> QED BY <1>0, <3>1, <5>2, <5>3 DEF Rows, Amounts, Amt
        <4> QED BY <4>1, <4>2
      <3> QED BY <2>4, <3>2, <3>3 DEF ListAt, Grows
    <2> QED BY <2>3, <2>4
  <1>2. CASE ~(\E r \in Requests : Request(r))
    <2>1. UNCHANGED <<pc, hdl>>
      BY <1>2 DEF Next, Expire, Reclaim, Sweep, SweepList, SweepScan, SweepPrune, SweepFails, SweepClamp,
                  GoQuiet, EndWindow, AssignBudget
    <2>2. x \in batch[p] \/ x \in Listed(Requests)
      <3>1. batch \in [Procs -> SUBSET [r : Requests, user : Amt]]
        BY DEF TypeOK
      <3>2. batch' = batch \/ (\E d \in Procs : \E y : batch' = [batch EXCEPT ![d] = @ \ {y}])
            \/ batch' = [batch EXCEPT ![Sweeper] = Listed(Requests)]
            \/ batch' = [batch EXCEPT ![Sweeper] = {}]
        BY <1>2 DEF Next, Expire, Reclaim, Sweep, SweepList, SweepScan, SweepPrune, SweepFails, SweepClamp,
                  GoQuiet, EndWindow, AssignBudget, sweepVars
      <3> QED BY <3>1, <3>2
    <2>3. x.r \in Requests /\ ListAt(x)
      BY <1>0, <2>2, ListedNow
    <2>4. row'[x.r] = row[x.r] \/ row'[x.r].status # "active"
      BY <1>2, <2>3, SweepRows
    <2> QED BY <2>1, <2>3, <2>4 DEF ListAt, Active
  <1> QED BY <1>1, <1>2

-----------------------------------------------------------------------------
(* The counters.                                                           *)

\* Every counter carries what the requests may still take off it, less what was
\* given back behind a handle that nothing fences, and on a counter that went quiet
\* all of what may be taken off is recorded.
CoverInv == \A k \in Cells :
              Total([r \in Requests |-> OldAt(r, k)]) <= reserved[k] + doubled[k]
QuietInv == \A k \in Cells : k[1] \in quiet =>
              \A r \in Requests : OldAt(r, k) <= RowAt(k, row[r])

\* A claim is at most the sum of the claims.
LEMMA PartOfTotal ==
  ASSUME NEW f \in [Requests -> Nat], NEW r \in Requests
  PROVE  f[r] <= Total(f)
  <1>1. [f EXCEPT ![r] = 0] \in [Requests -> Nat]
    OBVIOUS
  <1>2. Total([f EXCEPT ![r] = 0]) \in Nat
    BY <1>1, TotalType
  <1>3. Total(f) = f[r] + Total([f EXCEPT ![r] = 0])
    BY TotalSplit
  <1> HIDE DEF Total
  <1> QED BY <1>2, <1>3

\* The claims are numbers, before and after a step.
LEMMA ClaimTypes ==
  ASSUME TypeOK, TypeOK', NEW k \in Cells
  PROVE  /\ [r \in Requests |-> OldAt(r, k)] \in [Requests -> Nat]
         /\ [r \in Requests |-> NewAt(r, k)] \in [Requests -> Nat]
         /\ reserved[k] \in Nat /\ reserved'[k] \in Nat
         /\ doubled[k] \in Nat /\ doubled'[k] \in Nat
         /\ \A r \in Requests : RowAt(k, row[r]) \in Nat /\ RowAt(k, row'[r]) \in Nat
  <1>1. \A r \in Requests : hdl[r] \in Handles /\ row[r] \in Rows /\ top[r] \in TopUps
    BY DEF TypeOK
  <1>2. \A r \in Requests : hdl'[r] \in Handles /\ row'[r] \in Rows /\ top'[r] \in TopUps
    BY DEF TypeOK
  <1>3. \A r \in Requests : OldAt(r, k) \in Nat /\ RowAt(k, row[r]) \in Nat
    BY <1>1, ClaimAtType DEF OldAt
  <1>4. \A r \in Requests : NewAt(r, k) \in Nat /\ RowAt(k, row'[r]) \in Nat
    BY <1>2, ClaimAtType DEF NewAt
  <1> QED BY <1>3, <1>4 DEF TypeOK, Amounts

\* A step that moves the claim of one request and covers it keeps the counters
\* covered.
LEMMA CoverStep ==
  ASSUME TypeOK, TypeOK', CoverInv, QuietInv, NEW r \in Requests,
         quiet' \subseteq quiet,
         \A k \in Cells : CoveredBut(r, k),
         \A q \in Requests \ {r} : \A k \in Cells :
           NewAt(q, k) = OldAt(q, k) /\ RowAt(k, row'[q]) = RowAt(k, row[q])
  PROVE  CoverInv' /\ QuietInv'
  <1>1. ASSUME NEW k \in Cells
        PROVE  Total([q \in Requests |-> NewAt(q, k)]) <= reserved'[k] + doubled'[k]
    <2> DEFINE f == [q \in Requests |-> OldAt(q, k)]
               g == [q \in Requests |-> NewAt(q, k)]
    <2>1. f \in [Requests -> Nat] /\ g \in [Requests -> Nat]
          /\ reserved[k] \in Nat /\ reserved'[k] \in Nat
          /\ doubled[k] \in Nat /\ doubled'[k] \in Nat
      BY ClaimTypes
    <2>2. \A q \in Requests \ {r} : g[q] = f[q]
      OBVIOUS
    <2>3. f[r] = OldAt(r, k) /\ g[r] = NewAt(r, k) /\ f[r] \in Nat /\ g[r] \in Nat
      BY <2>1
    <2>4. Total(f) <= reserved[k] + doubled[k]
      BY DEF CoverInv
    <2>5. reserved[k] + doubled[k] + g[r] <= reserved'[k] + doubled'[k] + f[r]
      BY <2>3 DEF CoveredBut
    <2> HIDE DEF f, g
    <2>6. Total(g) + f[r] = Total(f) + g[r]
      BY <2>1, <2>2, TotalChange
    <2>7. Total(f) \in Nat /\ Total(g) \in Nat
      BY <2>1, TotalType
    <2>8. Total(g) <= reserved'[k] + doubled'[k]
      BY <2>1, <2>3, <2>4, <2>5, <2>6, <2>7
    <2> QED BY <2>8 DEF g
  <1>2. CoverInv'
    BY <1>1 DEF CoverInv, OldAt, NewAt
  <1>3. ASSUME NEW k \in Cells, k[1] \in quiet', NEW q \in Requests
        PROVE  NewAt(q, k) <= RowAt(k, row'[q])
    <2>1. k[1] \in quiet
      BY <1>3
    <2>2. OldAt(q, k) <= RowAt(k, row[q])
      BY <2>1 DEF QuietInv
    <2>3. CASE q # r
      BY <2>2, <2>3
    <2>4. CASE q = r
      <3>1. NewAt(r, k) <= RowAt(k, row'[r])
        BY <1>3, <2>2, <2>4 DEF CoveredBut
      <3> QED BY <2>4, <3>1
    <2> QED BY <2>3, <2>4
  <1>4. QuietInv'
    BY <1>3 DEF QuietInv, OldAt, NewAt
  <1> QED BY <1>2, <1>4

\* A step of a request writes no counter without ending its quiet.
LEMMA RequestQuiet ==
  ASSUME NEW r \in Requests, Request(r)
  PROVE  quiet' \subseteq quiet
  BY DEF Request, RejectUser, AdmitExempt, LoadUser, ListCeilings, HoldCeiling, ReclaimOwn, Crash,
         RefuseCeiling, GiveBack, HoldUser, RefuseUser, HoldUserUnsure, ReleaseUnrecorded, RecordHold,
         StartTopUp, LoadUserAgain, GrowUser, RefuseGrowth, GiveBackGrowth, GrowUserFails, GrowRow,
         GrowRowFails, GrowLost, ReturnUserGrowth, Move, MoveUntold, MoveFails,
             MoveHolds, RefuseMove, MoveReclaimed, Settle, Refund

\* A step of a request keeps the counters covered.
LEMMA RequestHolds ==
  ASSUME "lie" \notin Faults, TypeOK, LifeInv, FormInv, CoverInv, QuietInv,
         NEW r \in Requests, Request(r)
  PROVE  CoverInv' /\ QuietInv'
  <1>1. TypeOK'
    BY RequestType
  <1>2. ASSUME NEW k \in Cells PROVE CoveredBut(r, k)
    <2>1. FormAt(r) /\ LifeAt(r)
      BY DEF FormInv, LifeInv
    <2> QED BY <1>1, <2>1, RequestCovers
  <1>3. ASSUME NEW q \in Requests \ {r}, NEW k \in Cells
        PROVE  NewAt(q, k) = OldAt(q, k) /\ RowAt(k, row'[q]) = RowAt(k, row[q])
    <2>1. UNCHANGED Local(q)
      BY Locality
    <2> QED BY <2>1 DEF Local, NewAt, OldAt
  <1>4. quiet' \subseteq quiet
    BY RequestQuiet
  <1> QED BY <1>1, <1>2, <1>3, <1>4, CoverStep

\* What a sweep gives back is no more than what the row it claims holds.
LEMMA ReclaimHolds ==
  ASSUME TypeOK, LifeInv, FormInv, ListInv, CoverInv, QuietInv,
         NEW p \in Procs, NEW x \in batch[p], Reclaim(p, x), TypeOK'
  PROVE  CoverInv' /\ QuietInv'
  <1> DEFINE r == x.r
             gives == [k \in Cells |-> IF k[1] = UserOf[r] THEN x.user[k[2]] ELSE row[r].held[k]]
  <1>1. /\ r \in Requests /\ x.user \in Amt /\ row \in [Requests -> Rows] /\ reserved \in Amounts
        /\ row[r] \in Rows /\ hdl[r] \in Handles /\ top[r] \in TopUps
    BY DEF TypeOK
  <1>2. UNCHANGED <<pc, hdl, taken, top, doubled>> /\ quiet' \subseteq quiet
    BY DEF Reclaim, history
  <1>3. ASSUME NEW q \in Requests \ {r}, NEW k \in Cells
        PROVE  NewAt(q, k) = OldAt(q, k) /\ RowAt(k, row'[q]) = RowAt(k, row[q])
    <2>1. row'[q] = row[q]
      BY <1>1 DEF Reclaim
    <2> QED BY <1>2, <2>1 DEF NewAt, OldAt
  <1>4. ASSUME NEW k \in Cells PROVE Covered(r, k)
    <2>1. CASE ~Active(r)
      <3>1. row' = row /\ reserved' = reserved
        BY <2>1 DEF Reclaim
      <3>2. NewAt(r, k) = OldAt(r, k)
        BY <1>2, <3>1 DEF NewAt, OldAt
      <3>3. reserved[k] \in Nat /\ OldAt(r, k) \in Nat /\ RowAt(k, row[r]) \in Nat
        BY <1>1, TypedAt DEF Amounts
      <3> QED BY <3>1, <3>2, <3>3 DEF Covered
    <2>2. CASE Active(r)
      <3>1. row' = [row EXCEPT ![r].status = "expired"] /\ reserved' = Less(reserved, gives)
        BY <2>2 DEF Reclaim
      <3>2. row'[r].status = "expired" /\ row[r].status = "active"
        BY <1>1, <2>2, <3>1 DEF Rows, Active
      <3>3. /\ row[r].held[k] \in Nat /\ reserved[k] \in Nat /\ k[2] \in Axes
            /\ HeldAt(r, k, hdl[r]) \in Nat /\ HandAt(r, k, pc[r], row[r], taken[r], top[r]) \in Nat
            /\ GrownAt(r, k, pc[r], hdl[r], taken[r], top[r]) \in Nat
        BY <1>1, ClaimAtType, CellPair DEF Amounts
      <3>4. gives \in Amounts /\ gives[k] <= row[r].held[k] /\ gives[k] \in Nat
        <4>1. \A d \in Cells : d[2] \in Axes /\ row[r].held[d] \in Nat
          BY <1>1, CellPair DEF Rows, Amounts
        <4>2. gives \in Amounts
          BY <1>1, <4>1 DEF Amounts, Amt
        <4>3. x.user[k[2]] <= row[r].held[<<UserOf[r], k[2]>>]
          BY <2>2, <3>3 DEF ListInv, ListAt
        <4>4. k = <<k[1], k[2]>>
          BY CellPair
        <4>5. k[1] = UserOf[r] => x.user[k[2]] <= row[r].held[k]
          BY <4>3, <4>4
        <4> QED BY <3>3, <4>2, <4>5 DEF Amounts
      <3> HIDE DEF gives
      <3>5. reserved'[k] = IF reserved[k] >= gives[k] THEN reserved[k] - gives[k] ELSE 0
        BY <1>1, <3>1, <3>4, FigureAt
      <3>6. RowAt(k, row'[r]) = 0 /\ RowAt(k, row[r]) = row[r].held[k]
        BY <3>2 DEF RowAt
      <3>7. row[r].held[k] + NewAt(r, k) <= OldAt(r, k) /\ NewAt(r, k) \in Nat /\ OldAt(r, k) \in Nat
        <4>1. CASE pc[r] \in Over
          <5>1. OldAt(r, k) = row[r].held[k] /\ NewAt(r, k) = 0
            BY <1>2, <3>6, <4>1 DEF OldAt, NewAt, ClaimAt
          <5> QED BY <3>3, <5>1
        <4>2. CASE pc[r] \notin Over /\ hdl[r].id
          <5>1. OldAt(r, k) = MaxOf(row[r].held[k] + GrownAt(r, k, pc[r], hdl[r], taken[r], top[r]),
                  HeldAt(r, k, hdl[r]) + HandAt(r, k, pc[r], row[r], taken[r], top[r]))
            BY <3>2, <4>2 DEF OldAt, ClaimAt
          <5>2. NewAt(r, k) = GrownAt(r, k, pc[r], hdl[r], taken[r], top[r])
            BY <1>2, <3>2, <4>2 DEF NewAt, ClaimAt
          <5> QED BY <3>3, <5>1, <5>2 DEF MaxOf
        <4>3. CASE pc[r] \notin Over /\ ~hdl[r].id
          <5>1. pc[r] \in Places /\ ListAt(x) /\ FormAt(r)
            BY <1>1 DEF TypeOK, ListInv, FormInv
          <5>2. pc[r] \in {"unsure", "refused", "again"}
            BY <4>3, <5>1 DEF ListAt, Serving
          <5>3. HandAt(r, k, pc[r], row[r], taken[r], top[r]) = 0
                /\ HandAt(r, k, pc[r], row'[r], taken[r], top[r]) = 0
            BY <3>2, <5>2 DEF HandAt
          <5>4. /\ OldAt(r, k) = row[r].held[k] + (HeldAt(r, k, hdl[r]) + 0)
                /\ NewAt(r, k) = 0 + (HeldAt(r, k, hdl[r]) + 0)
            BY <1>2, <3>6, <4>3, <5>3 DEF OldAt, NewAt, ClaimAt
          <5> QED BY <3>3, <5>4
        <4> QED BY <4>1, <4>2, <4>3
      <3>8. reserved[k] + NewAt(r, k) <= reserved'[k] + OldAt(r, k)
        BY <3>3, <3>4, <3>5, <3>7
      <3>9. k[1] \in quiet' => NewAt(r, k) <= RowAt(k, row'[r])
        <4>1. k[1] \in quiet' => OldAt(r, k) <= row[r].held[k]
          BY <1>1, <1>2, <3>6 DEF QuietInv
        <4> QED BY <3>3, <3>6, <3>7, <4>1
      <3> QED BY <3>8, <3>9 DEF Covered
    <2> QED BY <2>1, <2>2
  <1>5. \A k \in Cells : CoveredBut(r, k)
    BY <1>1, <1>2, <1>4, CoveredStill
  <1> HIDE DEF r
  <1> QED BY <1>1, <1>2, <1>3, <1>5, CoverStep

\* A step that moves no claim and no counter keeps the counters covered.
LEMMA StillHolds ==
  ASSUME TypeOK, TypeOK', CoverInv, QuietInv,
         doubled' = doubled, \A k \in Cells : reserved'[k] = reserved[k],
         \A k \in Cells : \A q \in Requests :
           NewAt(q, k) = OldAt(q, k) /\ RowAt(k, row'[q]) = RowAt(k, row[q]),
         \A k \in Cells : k[1] \in quiet' \ quiet =>
           \A q \in Requests : OldAt(q, k) <= RowAt(k, row[q])
  PROVE  CoverInv' /\ QuietInv'
  <1>1. ASSUME NEW k \in Cells
        PROVE  Total([q \in Requests |-> NewAt(q, k)]) <= reserved'[k] + doubled'[k]
    <2>1. [q \in Requests |-> NewAt(q, k)] = [q \in Requests |-> OldAt(q, k)]
      OBVIOUS
    <2> QED BY <2>1 DEF CoverInv
  <1>2. CoverInv'
    BY <1>1 DEF CoverInv, OldAt, NewAt
  <1>3. ASSUME NEW k \in Cells, k[1] \in quiet', NEW q \in Requests
        PROVE  NewAt(q, k) <= RowAt(k, row'[q])
    BY <1>3 DEF QuietInv
  <1>4. QuietInv'
    BY <1>3 DEF QuietInv, OldAt, NewAt
  <1> QED BY <1>2, <1>4

\* The orphan pass brings a quiet counter down to the active rows, which record
\* every claim on it.
LEMMA ClampHolds ==
  ASSUME TypeOK, TypeOK', CoverInv, QuietInv, NEW c \in Counters, SweepClamp(c)
  PROVE  CoverInv' /\ QuietInv'
  <1>1. UNCHANGED <<pc, hdl, row, taken, top, doubled>> /\ quiet' \subseteq quiet
    BY DEF SweepClamp, history
  <1>2. \A k \in Cells : \A q \in Requests :
          NewAt(q, k) = OldAt(q, k) /\ RowAt(k, row'[q]) = RowAt(k, row[q])
    BY <1>1 DEF NewAt, OldAt
  <1>3. ASSUME NEW k \in Cells
        PROVE  Total([q \in Requests |-> NewAt(q, k)]) <= reserved'[k] + doubled'[k]
    <2> DEFINE f == [q \in Requests |-> OldAt(q, k)]
               g == [q \in Requests |-> RowHeld(q)[k]]
    <2>1. [q \in Requests |-> NewAt(q, k)] = f
      BY <1>2
    <2>2. /\ Total(f) <= reserved[k] + doubled[k] /\ doubled'[k] = doubled[k]
          /\ reserved[k] \in Nat /\ doubled[k] \in Nat
      BY <1>1, ClaimTypes DEF CoverInv
    <2>3. k[1] \in quiet => Total(f) <= RecordedOn(k)
      <3> SUFFICES ASSUME k[1] \in quiet PROVE Total(f) <= RecordedOn(k)
        OBVIOUS
      <3>1. \A q \in Requests : RowHeld(q)[k] = RowAt(k, row[q])
        BY ClaimIs
      <3>2. f \in [Requests -> Nat] /\ g \in [Requests -> Nat]
        BY <3>1, ClaimTypes
      <3>3. \A q \in Requests : f[q] <= g[q]
        BY <3>1 DEF QuietInv
      <3>4. RecordedOn(k) = Total(g)
        BY DEF RecordedOn
      <3> HIDE DEF f, g
      <3> QED BY <3>2, <3>3, <3>4, TotalMonotone
    <2>6. RecordedOn(k) \in Nat /\ Total(f) \in Nat
      <3>1. f \in [Requests -> Nat] /\ g \in [Requests -> Nat]
        BY ClaimTypes, ClaimIs
      <3> HIDE DEF f, g
      <3>2. Total(f) \in Nat /\ Total(g) \in Nat
        BY <3>1, TotalType
      <3> QED BY <3>2 DEF RecordedOn, g
    <2> HIDE DEF f, g
    <2>4. CASE c \in quiet
      <3>1. reserved'[k] = IF k[1] = c /\ reserved[k] > RecordedOn(k) THEN RecordedOn(k) ELSE reserved[k]
        BY <2>4 DEF SweepClamp
      <3> QED BY <2>1, <2>2, <2>3, <2>4, <2>6, <3>1
    <2>5. CASE c \notin quiet
      <3>1. reserved' = reserved
        BY <2>5 DEF SweepClamp
      <3> QED BY <2>1, <2>2, <3>1
    <2> QED BY <2>4, <2>5
  <1>4. CoverInv'
    BY <1>3 DEF CoverInv, OldAt, NewAt
  <1>5. QuietInv'
    BY <1>1, <1>2 DEF QuietInv, OldAt, NewAt
  <1> QED BY <1>4, <1>5

\* Pruning takes rows that claim nothing any more.
LEMMA PruneHolds ==
  ASSUME TypeOK, TypeOK', CoverInv, QuietInv, SweepPrune
  PROVE  CoverInv' /\ QuietInv'
  <1>1. UNCHANGED <<reserved, quiet, pc, hdl, taken, top, doubled>>
    BY DEF SweepPrune, history
  <1>2. ASSUME NEW q \in Requests
        PROVE  \/ row'[q] = row[q]
               \/ row[q].status \in Terminal /\ pc[q] \in Over /\ row'[q].status = "none"
    <2>1. PICK S \in SUBSET {r \in expired : row[r].status \in Terminal /\ pc[r] \in Over} :
            row' = [r \in Requests |-> IF r \in S THEN NoRow ELSE row[r]]
      BY DEF SweepPrune
    <2> QED BY <2>1 DEF NoRow
  <1>3. ASSUME NEW k \in Cells, NEW q \in Requests
        PROVE  NewAt(q, k) = OldAt(q, k) /\ RowAt(k, row'[q]) = RowAt(k, row[q])
    <2>1. CASE row'[q] = row[q]
      BY <1>1, <2>1 DEF NewAt, OldAt
    <2>2. CASE row[q].status \in Terminal /\ pc[q] \in Over /\ row'[q].status = "none"
      BY <1>1, <2>2 DEF NewAt, OldAt, ClaimAt, RowAt, Terminal
    <2> QED BY <1>2, <2>1, <2>2
  <1> QED BY <1>1, <1>3, StillHolds

\* A counter goes quiet only when all its holds are recorded; nothing else that
\* time, administration or a listing does concerns the holds.
LEMMA ClockHolds ==
  ASSUME "stall" \notin Faults, TypeOK, TypeOK', CoverInv, QuietInv,
         \/ SweepList \/ SweepScan \/ SweepFails
         \/ \E r \in Requests : Expire(r)
         \/ \E c \in Counters : GoQuiet(c) \/ EndWindow(c)
         \/ \E u \in Users : AssignBudget(u)
  PROVE  CoverInv' /\ QuietInv'
  <1>1. UNCHANGED <<reserved, row, pc, hdl, taken, top, doubled>>
    BY DEF SweepList, SweepScan, SweepFails, Expire, GoQuiet, EndWindow, AssignBudget, history
  <1>2. ASSUME NEW k \in Cells, k[1] \in quiet' \ quiet, NEW q \in Requests
        PROVE  OldAt(q, k) <= RowAt(k, row[q])
    <2>1. PICK c \in Counters : GoQuiet(c)
      BY <1>2 DEF SweepList, SweepScan, SweepFails, Expire, EndWindow, AssignBudget
    <2>2. k[1] = c /\ RecordedAt(q, c)
      BY <1>2, <2>1 DEF GoQuiet
    <2>3. k = <<c, k[2]>> /\ k[2] \in Axes
      BY <2>2, CellPair
    <2>4. Claim(q)[k] <= RowHeld(q)[k]
      BY <2>2, <2>3 DEF RecordedAt
    <2> QED BY <2>4, ClaimIs
  <1>3. \A k \in Cells : \A q \in Requests :
          NewAt(q, k) = OldAt(q, k) /\ RowAt(k, row'[q]) = RowAt(k, row[q])
    BY <1>1 DEF NewAt, OldAt
  <1> QED BY <1>1, <1>2, <1>3, StillHolds

\* Nothing is held or listed at the start.
LEMMA HoldsInit ==
  ASSUME Init
  PROVE  FormInv /\ ListInv /\ CoverInv /\ QuietInv
  <1>1. FormInv
    BY DEF Init, FormInv, FormAt, NoHandle, NoTopUp, NoRow, Active, Arriving, Serving, Over
  <1>2. ListInv
    BY DEF Init, ListInv
  <1>3. QuietInv
    BY DEF Init, QuietInv
  <1>4. ASSUME NEW k \in Cells
        PROVE  Total([r \in Requests |-> OldAt(r, k)]) <= reserved[k] + doubled[k]
    <2>1. \A r \in Requests : OldAt(r, k) = 0
      BY DEF Init, OldAt, ClaimAt, RowAt, HeldAt, HandAt, SetAt, NoHandle, NoRow, Over
    <2>2. [r \in Requests |-> OldAt(r, k)] = [r \in Requests |-> 0]
      BY <2>1
    <2>3. Units([r \in Requests |-> 0]) = {}
      BY DEF Units, Unit
    <2>4. Total([r \in Requests |-> 0]) = 0
      BY <2>3, TotalType, FS_EmptySet
    <2>5. reserved[k] = 0 /\ doubled[k] = 0
      BY DEF Init, Nothing
    <2> QED BY <2>2, <2>4, <2>5
  <1>5. CoverInv
    BY <1>4 DEF CoverInv
  <1> QED BY <1>1, <1>2, <1>3, <1>5

\* Every step keeps the form of the records, the lists and the cover.
LEMMA HoldsStep ==
  ASSUME "lie" \notin Faults, "stall" \notin Faults, TypeOK, TypeOK', LifeInv,
         FormInv, ListInv, CoverInv, QuietInv, [Next]_vars
  PROVE  FormInv' /\ ListInv' /\ CoverInv' /\ QuietInv'
  <1>1. CASE UNCHANGED vars
    <2>1. FormInv' /\ ListInv'
      BY <1>1 DEF vars, FormInv, FormAt, ListInv, ListAt, Active
    <2>2. CoverInv' /\ QuietInv'
      BY <1>1 DEF vars, CoverInv, QuietInv, OldAt
    <2> QED BY <2>1, <2>2
  <1>2. CASE \E r \in Requests : Request(r)
    <2> PICK r \in Requests : Request(r)
      BY <1>2
    <2>1. FormAt(r)'
      BY RequestForm DEF FormInv, LifeInv
    <2>2. ASSUME NEW q \in Requests, q # r PROVE FormAt(q)'
      <3>1. UNCHANGED Local(q)
        BY <2>2, Locality
      <3> QED BY <3>1 DEF Local, FormInv, FormAt, Active
    <2>3. ListInv'
      BY ListStep DEF Next
    <2>4. CoverInv' /\ QuietInv'
      BY RequestHolds
    <2> QED BY <2>1, <2>2, <2>3, <2>4 DEF FormInv
  <1>3. CASE Next /\ ~(\E r \in Requests : Request(r))
    <2>1. UNCHANGED <<pc, hdl, taken, top>>
      BY <1>3 DEF Next, Expire, Reclaim, Sweep, SweepList, SweepScan, SweepPrune, SweepFails, SweepClamp,
                  GoQuiet, EndWindow, AssignBudget
    <2>2. ASSUME NEW q \in Requests PROVE FormAt(q)'
      <3>1. row'[q] = row[q] \/ row'[q].status # "active"
        BY <1>3, SweepRows
      <3> QED BY <2>1, <3>1, SweepForm
    <2>3. ListInv'
      BY <1>3, ListStep
    <2>4. CoverInv' /\ QuietInv'
      <3>1. CASE \E p \in Procs : \E x \in batch[p] : Reclaim(p, x)
        BY <3>1, ReclaimHolds
      <3>2. CASE \E c \in Counters : SweepClamp(c)
        BY <3>2, ClampHolds
      <3>3. CASE SweepPrune
        BY <3>3, PruneHolds
      <3>4. CASE \/ SweepList \/ SweepScan \/ SweepFails
                 \/ \E r \in Requests : Expire(r)
                 \/ \E c \in Counters : GoQuiet(c) \/ EndWindow(c)
                 \/ \E u \in Users : AssignBudget(u)
        BY <3>4, ClockHolds
      <3> QED BY <1>3, <3>1, <3>2, <3>3, <3>4 DEF Next, Sweep
    <2> QED BY <2>2, <2>3, <2>4 DEF FormInv
  <1> QED BY <1>1, <1>2, <1>3

\* Whatever the interleaving of admissions, top-ups, moves, settlements, refunds,
\* crashes, failed commits, expiries and sweeps, a counter carries at least what
\* the requests may still take off it, less what a reported failure made them give
\* back behind a handle without a fence (a settlement that landed without a row, a
\* move nobody could tell of): no other release gives back another request's hold.
\* A ledger commit that lands unacknowledged ("lie") and a request that sits on an
\* unrecorded hold for a whole TTL ("stall") break it.
THEOREM HoldsCorrect ==
  ASSUME "lie" \notin Faults, "stall" \notin Faults
  PROVE  Spec => []HoldsCovered
  <1> DEFINE Inv == FormInv /\ ListInv /\ CoverInv /\ QuietInv
  <1>1. Init => Inv
    BY HoldsInit
  <1>2. TypeOK /\ TypeOK' /\ LifeInv /\ Inv /\ [Next]_vars => Inv'
    BY HoldsStep
  <1>3. TypeOK /\ Inv => HoldsCovered
    <2> SUFFICES ASSUME TypeOK, CoverInv, NEW k \in Cells
                 PROVE  ClaimedOn(k) <= reserved[k] + doubled[k]
      BY DEF HoldsCovered
    <2>1. [r \in Requests |-> Claim(r)[k]] = [r \in Requests |-> OldAt(r, k)]
      BY ClaimIs
    <2> QED BY <2>1 DEF ClaimedOn, CoverInv
  <1> HIDE DEF Inv
  <1> QED BY <1>1, <1>2, <1>3, TypeCorrect, LifeCorrect, PTL DEF Spec

\* Only a commit that landed and reported a failure makes a request give back a
\* hold its handle still names.
LEMMA TakenOnce ==
  ASSUME "db" \notin Faults
  PROVE  Spec => [](doubled = Nothing)
  <1> DEFINE Inv == doubled = Nothing
  <1>1. Init => Inv
    BY DEF Init
  <1>2. Inv /\ [Next]_vars => Inv'
    <2> SUFFICES ASSUME [Next]_vars PROVE doubled' = doubled
      BY DEF Nothing
    <2>1. CASE UNCHANGED vars
      BY <2>1 DEF vars
    <2>2. CASE \E r \in Requests : Request(r)
      <3> PICK r \in Requests : Request(r)
        BY <2>2
      <3>1. CASE \E use \in Uses[r] : Settle(r, use)
        BY <3>1 DEF Settle
      <3>2. CASE ~ \E use \in Uses[r] : Settle(r, use)
        BY <3>2 DEF Request, RejectUser, AdmitExempt, LoadUser, ListCeilings, ReclaimOwn, HoldCeiling,
           RefuseCeiling, GiveBack, HoldUser, RefuseUser, HoldUserUnsure, ReleaseUnrecorded,
           RecordHold, StartTopUp, LoadUserAgain, GrowUser, RefuseGrowth, GiveBackGrowth,
           GrowUserFails, GrowRow, GrowRowFails, GrowLost, ReturnUserGrowth, Move, MoveUntold,
           MoveFails, RefuseMove, MoveReclaimed, Refund, Crash, history
      <3> QED BY <3>1, <3>2
    <2>3. CASE Next /\ ~ \E r \in Requests : Request(r)
      BY <2>3 DEF Next, Expire, Reclaim, Sweep, SweepList, SweepScan, SweepPrune, SweepFails,
                  SweepClamp, GoQuiet, EndWindow, AssignBudget, history
    <2> QED BY <2>1, <2>2, <2>3
  <1>3. Spec => []Inv
    <2> HIDE DEF Inv
    <2> QED BY <1>1, <1>2, PTL DEF Spec
  <1> QED BY <1>3

\* What some requests claim is at most what all of them do.
LEMMA PartOfClaims ==
  ASSUME TypeOK, HoldsCovered, NEW k \in Cells, NEW f \in [Requests -> Nat],
         \A r \in Requests : f[r] <= Claim(r)[k]
  PROVE  Total(f) <= reserved[k] + doubled[k]
  <1> DEFINE g == [r \in Requests |-> Claim(r)[k]]
  <1>1. \A r \in Requests : Claim(r)[k] \in Nat
    BY ClaimIs, TypedAt
  <1>2. g \in [Requests -> Nat] /\ \A r \in Requests : f[r] <= g[r]
    BY <1>1
  <1>3. Total(g) <= reserved[k] + doubled[k] /\ reserved[k] \in Nat /\ doubled[k] \in Nat
    BY DEF HoldsCovered, ClaimedOn, TypeOK, Amounts
  <1> HIDE DEF g
  <1>4. Total(f) <= Total(g) /\ Total(f) \in Nat /\ Total(g) \in Nat
    BY <1>2, TotalMonotone, TotalType
  <1> QED BY <1>3, <1>4

\* The active rows of a counter never add up to more than the counter and what
\* reported failures took off it twice; without database failures that is what the
\* comment of _held_handle says of the ledger.
THEOREM LedgerCorrect ==
  ASSUME "lie" \notin Faults, "stall" \notin Faults
  PROVE  /\ Spec => [](\A k \in Cells : RecordedOn(k) <= reserved[k] + doubled[k])
         /\ "db" \notin Faults => (Spec => []LedgerBacked)
  <1> DEFINE Backs == \A k \in Cells : RecordedOn(k) <= reserved[k] + doubled[k]
  <1>1. TypeOK /\ HoldsCovered => Backs
    <2> SUFFICES ASSUME TypeOK, HoldsCovered, NEW k \in Cells
                 PROVE  RecordedOn(k) <= reserved[k] + doubled[k]
      OBVIOUS
    <2> DEFINE f == [r \in Requests |-> RowHeld(r)[k]]
    <2>1. \A r \in Requests : RowHeld(r)[k] \in Nat /\ RowHeld(r)[k] <= Claim(r)[k]
      BY ClaimIs, TypedAt
    <2>2. f \in [Requests -> Nat] /\ \A r \in Requests : f[r] <= Claim(r)[k]
      BY <2>1
    <2> HIDE DEF f
    <2>3. Total(f) <= reserved[k] + doubled[k]
      BY <2>2, PartOfClaims
    <2> QED BY <2>3 DEF RecordedOn, f
  <1>2. TypeOK /\ Backs /\ doubled = Nothing => LedgerBacked
    <2> SUFFICES ASSUME TypeOK, Backs, doubled = Nothing, NEW k \in Cells
                 PROVE  RecordedOn(k) <= reserved[k]
      BY DEF LedgerBacked
    <2>1. reserved[k] \in Nat /\ doubled[k] = 0
      BY DEF TypeOK, Amounts, Nothing
    <2>2. RecordedOn(k) <= reserved[k] + doubled[k]
      OBVIOUS
    <2> QED BY <2>1, <2>2
  <1> HIDE DEF Backs
  <1>3. Spec => []Backs
    BY <1>1, HoldsCorrect, TypeCorrect, PTL
  <1>4. ASSUME "db" \notin Faults PROVE Spec => []LedgerBacked
    BY <1>2, <1>3, <1>4, TakenOnce, TypeCorrect, PTL
  <1> QED BY <1>3, <1>4 DEF Backs

\* Without database failures a running request finds all that it holds on the
\* counters, whatever other requests, their settlements and the sweeps gave back:
\* what reconcile_reservation and try_terminate say of every request.
THEOREM RunningCorrect ==
  ASSUME Faults \cap {"db", "lie", "stall"} = {}
  PROVE  Spec => []RunningHeld
  <1>1. TypeOK /\ HoldsCovered /\ doubled = Nothing => RunningHeld
    <2> SUFFICES ASSUME TypeOK, HoldsCovered, doubled = Nothing, NEW k \in Cells
                 PROVE  Total([r \in Requests |-> IF pc[r] = "running" THEN Claim(r)[k] ELSE 0])
                          <= reserved[k]
      BY DEF RunningHeld
    <2> DEFINE f == [r \in Requests |-> IF pc[r] = "running" THEN Claim(r)[k] ELSE 0]
    <2>1. \A r \in Requests : Claim(r)[k] \in Nat
      BY ClaimIs, TypedAt
    <2>2. f \in [Requests -> Nat] /\ \A r \in Requests : f[r] <= Claim(r)[k]
      BY <2>1
    <2> HIDE DEF f
    <2>3. Total(f) <= reserved[k] + doubled[k]
      BY <2>2, PartOfClaims
    <2>4. reserved[k] \in Nat /\ doubled[k] = 0
      BY DEF TypeOK, Amounts, Nothing
    <2>5. Total(f) <= reserved[k]
      BY <2>3, <2>4
    <2> QED BY <2>5 DEF f
  <1>2. "lie" \notin Faults /\ "stall" \notin Faults /\ "db" \notin Faults
    OBVIOUS
  <1>3. Spec => []HoldsCovered
    BY <1>2, HoldsCorrect
  <1>4. Spec => [](doubled = Nothing)
    BY <1>2, TakenOnce
  <1> QED BY <1>1, <1>3, <1>4, TypeCorrect, PTL

-----------------------------------------------------------------------------
(* The row and the handle.                                                 *)

\* What the row holds and what grew since is what the handle and the loop hold;
\* a refused growth stays in the handle for the refund.
Matches(r, k, p, h, w, t, g) ==
  p \in Serving /\ h.id /\ w.status = "active" =>
    IF p = "refused" THEN w.held[k] <= HeldAt(r, k, h)
    ELSE w.held[k] + GrownAt(r, k, p, h, t, g) = HeldAt(r, k, h) + HandAt(r, k, p, w, t, g)
OldMatch(r, k) == Matches(r, k, pc[r], hdl[r], row[r], taken[r], top[r])
NewMatch(r, k) == Matches(r, k, pc'[r], hdl'[r], row'[r], taken'[r], top'[r])
MatchInv == \A r \in Requests : \A k \in Cells : OldMatch(r, k)

\* A step that adds the same to both sides keeps the match.
LEMMA MatchMoves ==
  ASSUME TypeOK, TypeOK', NEW r \in Requests, NEW k \in Cells, NEW d \in Int, OldMatch(r, k),
         pc[r] \in Serving \ {"refused"}, pc'[r] \in Serving \ {"refused"},
         hdl'[r].id => hdl[r].id, row'[r].status = row[r].status,
         row'[r].held[k] + GrownAt(r, k, pc'[r], hdl'[r], taken'[r], top'[r])
           = row[r].held[k] + GrownAt(r, k, pc[r], hdl[r], taken[r], top[r]) + d,
         HeldAt(r, k, hdl'[r]) + HandAt(r, k, pc'[r], row'[r], taken'[r], top'[r])
           = HeldAt(r, k, hdl[r]) + HandAt(r, k, pc[r], row[r], taken[r], top[r]) + d
  PROVE  NewMatch(r, k)
  BY DEF OldMatch, NewMatch, Matches

\* The ceiling loop.
LEMMA LoopMatches ==
  ASSUME TypeOK, TypeOK', NEW r \in Requests, FormAt(r), LifeAt(r), NEW k \in Cells,
         OldMatch(r, k),
         (\E c \in Ceilings : HoldCeiling(r, c) \/ RefuseCeiling(r, c)) \/ GiveBack(r)
  PROVE  NewMatch(r, k)
  <1> USE DEF Goto, sweepVars, history
  <1>1. /\ Typed(r, k) /\ pc \in [Requests -> Places] /\ hdl \in [Requests -> Handles]
        /\ hdl[r] \in Handles /\ top[r] \in TopUps /\ row[r].held[k] \in Nat
        /\ HeldAt(r, k, hdl[r]) \in Nat
        /\ GrownAt(r, k, pc[r], hdl[r], taken[r], top[r]) \in Nat
    BY TypedAt, ClaimAtType DEF TypeOK
  <1>2. /\ pc[r] \in {"ceilings", "tceil", "giveback", "tgiveback"} /\ row' = row
    BY DEF HoldCeiling, RefuseCeiling, GiveBack, InLoop
  <1>3. CASE pc[r] \in {"ceilings", "giveback"}
    <2>1. pc'[r] \in {"ceilings", "giveback", "rejected"}
      BY <1>1, <1>3 DEF HoldCeiling, RefuseCeiling, GiveBack
    <2> QED BY <2>1 DEF NewMatch, Matches, Serving, Arriving, Over
  <1>4. CASE pc[r] \in {"tceil", "tgiveback"}
    <2> DEFINE out == SetAt(r, k, taken[r], top[r].scoped)
    <2>1. /\ GrownAt(r, k, pc[r], hdl[r], taken[r], top[r]) = out
          /\ HandAt(r, k, pc[r], row[r], taken[r], top[r]) = out
          /\ out \in Nat
      BY <1>1, <1>4 DEF GrownAt, HandAt, SetAt, Typed
    <2> HIDE DEF out
    <2>2. hdl[r].id /\ row[r].status = "active" => row[r].held[k] = HeldAt(r, k, hdl[r])
      BY <1>1, <1>4, <2>1 DEF OldMatch, Matches, Serving, Arriving, Over, Places
    <2>3. CASE pc'[r] \in {"tceil", "tgiveback"} /\ hdl'[r] = hdl[r]
      <3>1. GrownAt(r, k, pc'[r], hdl'[r], taken'[r], top'[r])
              = HandAt(r, k, pc'[r], row'[r], taken'[r], top'[r])
        BY <2>3 DEF GrownAt, HandAt
      <3>2. pc'[r] # "refused"
        BY <2>3
      <3> QED BY <1>2, <2>2, <2>3, <3>1, <3>2 DEF NewMatch, Matches
    <2>4. CASE pc'[r] \in {"running", "refused"} /\ hdl'[r] = hdl[r]
      <3>1. /\ GrownAt(r, k, pc'[r], hdl'[r], taken'[r], top'[r]) = 0
            /\ HandAt(r, k, pc'[r], row'[r], taken'[r], top'[r]) = 0
        BY <2>4 DEF GrownAt, HandAt
      <3> QED BY <1>1, <1>2, <2>2, <2>4, <3>1 DEF NewMatch, Matches
    <2>5. CASE \E c \in Ceilings : HoldCeiling(r, c) /\ Todo(r) = {c}
      <3>1. /\ hdl'[r] = [hdl[r] EXCEPT !.scoped = Plus(@, top[r].scoped)]
            /\ top'[r] = top[r] /\ pc'[r] = IF top[r].user # Zero THEN "tload" ELSE "tgrow"
        BY <1>1, <1>4, <2>5 DEF HoldCeiling, InLoop
      <3>2. /\ hdl'[r].budgets = hdl[r].budgets /\ hdl'[r].id = hdl[r].id
            /\ hdl'[r].reserved = hdl[r].reserved /\ hdl'[r].user = hdl[r].user
            /\ hdl'[r].scoped[k[2]] = hdl[r].scoped[k[2]] + top[r].scoped[k[2]]
        BY <1>1, <3>1 DEF Handles, TopUps, Amt, Plus, Typed
      <3>3. HeldAt(r, k, hdl'[r]) = HeldAt(r, k, hdl[r]) + SetAt(r, k, hdl[r].budgets, top[r].scoped)
        BY <1>1, <3>2 DEF HeldAt, SetAt, Typed
      <3>4. /\ HandAt(r, k, pc'[r], row'[r], taken'[r], top'[r]) = 0 /\ pc'[r] # "refused"
            /\ GrownAt(r, k, pc'[r], hdl'[r], taken'[r], top'[r])
                 = SetAt(r, k, hdl[r].budgets, top[r].scoped)
        <4>1. top[r].user = Zero => top[r].user[k[2]] = 0
          BY <1>1 DEF Typed, Zero
        <4>2. k[1] = UserOf[r] => SetAt(r, k, hdl[r].budgets, top[r].scoped) = 0
          BY DEF SetAt
        <4> QED BY <3>1, <3>2, <4>1, <4>2 DEF HandAt, GrownAt
      <3>5. SetAt(r, k, hdl[r].budgets, top[r].scoped) \in Nat
        BY <1>1 DEF SetAt, Typed
      <3> QED BY <1>1, <1>2, <2>2, <3>2, <3>3, <3>4, <3>5 DEF NewMatch, Matches
    <2>6. \/ pc'[r] \in {"tceil", "tgiveback"} /\ hdl'[r] = hdl[r]
          \/ pc'[r] \in {"running", "refused"} /\ hdl'[r] = hdl[r]
          \/ \E c \in Ceilings : HoldCeiling(r, c) /\ Todo(r) = {c}
      BY <1>1, <1>4 DEF HoldCeiling, RefuseCeiling, GiveBack, InLoop
    <2> QED BY <2>3, <2>4, <2>5, <2>6
  <1> QED BY <1>2, <1>3, <1>4

\* Admission: row and handle are written with the same figures.
LEMMA AdmitMatches ==
  ASSUME "lie" \notin Faults, TypeOK, TypeOK', NEW r \in Requests, LifeAt(r), NEW k \in Cells,
         HoldUser(r) \/ RecordHold(r)
  PROVE  NewMatch(r, k)
  <1> USE DEF Goto, sweepVars, history
  <1>1. /\ Typed(r, k) /\ pc \in [Requests -> Places] /\ hdl \in [Requests -> Handles]
        /\ row \in [Requests -> Rows]
    BY TypedAt DEF TypeOK
  <1>2. pc[r] = "ceilings" /\ pc'[r] = "running"
    BY <1>1 DEF HoldUser, RecordHold, CeilingsHeld
  <1>3. /\ GrownAt(r, k, pc'[r], hdl'[r], taken'[r], top'[r]) = 0
        /\ HandAt(r, k, pc'[r], row'[r], taken'[r], top'[r]) = 0
    BY <1>2 DEF GrownAt, HandAt
  <1>4. row[r].status = "none"
    BY <1>2 DEF LifeAt, Arriving
  <1>5. row'[r].status = "active" => row'[r].held[k] = HeldAt(r, k, hdl'[r])
    <2>1. CASE HoldUser(r)
      <3>1. row'[r] = AdmissionRow(r, TRUE) /\ hdl'[r] = AdmissionHandle(r, TRUE, TRUE)
        BY <1>1, <2>1 DEF HoldUser
      <3> QED BY <1>1, <3>1 DEF AdmissionRow, AdmissionHandle, HeldAt, Holding, Typed
    <2>2. CASE RecordHold(r)
      <3>1. row'[r] = row[r] \/ row'[r] = AdmissionRow(r, FALSE)
        BY <1>1, <2>2 DEF RecordHold
      <3>2. /\ hdl'[r].budgets = Primary[r] /\ ~hdl'[r].reserved
            /\ Primary[r] # {} => hdl'[r].scoped = Size[r]
        BY <1>1, <2>2 DEF RecordHold, AdmissionHandle
      <3>3. row'[r] = AdmissionRow(r, FALSE) =>
              row'[r].held[k] = IF k[1] = UserOf[r] THEN 0
                                ELSE IF k[1] \in Primary[r] THEN Size[r][k[2]] ELSE 0
        BY DEF AdmissionRow, Holding
      <3> QED BY <1>4, <3>1, <3>2, <3>3 DEF HeldAt
    <2> QED BY <2>1, <2>2
  <1>6. row'[r].held[k] \in Nat
    BY <1>1 DEF TypeOK, Rows, Amounts
  <1> QED BY <1>2, <1>3, <1>5, <1>6 DEF NewMatch, Matches

\* Top-ups: the growth enters the handle and the counters first, the row last.
LEMMA TopUpMatches ==
  ASSUME TypeOK, TypeOK', NEW r \in Requests, FormAt(r), NEW k \in Cells, OldMatch(r, k),
         \/ \E tool \in BOOLEAN : StartTopUp(r, tool)
         \/ LoadUserAgain(r) \/ RefuseGrowth(r) \/ GrowUser(r) \/ GiveBackGrowth(r)
  PROVE  NewMatch(r, k)
  <1> USE DEF Goto, sweepVars, history
  <1>1. /\ Typed(r, k) /\ pc \in [Requests -> Places] /\ top \in [Requests -> TopUps]
        /\ hdl \in [Requests -> Handles] /\ top[r] \in TopUps /\ hdl[r] \in Handles
        /\ row[r].held[k] \in Nat /\ HeldAt(r, k, hdl[r]) \in Nat
        /\ Zero[k[2]] = 0
    BY TypedAt, ClaimAtType DEF TypeOK, Zero, Typed
  <1> DEFINE d == SetAt(r, k, hdl[r].budgets, top[r].scoped)
             u == UserAt(r, k, top[r].user)
  <1>2. d \in Nat /\ u \in Nat /\ (k[1] = UserOf[r] => d = 0)
    BY <1>1 DEF SetAt, UserAt, Typed
  <1>3. \A q \in {"running", "tload", "thold", "tback", "tgrow"} : q \in Serving /\ q # "refused"
    BY DEF Serving, Arriving, Over, Places
  <1>4. CASE \E tool \in BOOLEAN : StartTopUp(r, tool)
    <2> PICK tool \in BOOLEAN : StartTopUp(r, tool)
      BY <1>4
    <2>1. /\ pc[r] = "running" /\ pc'[r] = IF top'[r].scoped # Zero THEN "tceil" ELSE "tload"
          /\ UNCHANGED <<row, hdl, taken>> /\ taken[r] = {}
      BY <1>1 DEF StartTopUp, FormAt
    <2>2. /\ GrownAt(r, k, pc'[r], hdl'[r], taken'[r], top'[r]) = 0
          /\ HandAt(r, k, pc'[r], row'[r], taken'[r], top'[r]) = 0
          /\ GrownAt(r, k, pc[r], hdl[r], taken[r], top[r]) = 0
          /\ HandAt(r, k, pc[r], row[r], taken[r], top[r]) = 0
      BY <1>1, <2>1 DEF GrownAt, HandAt, SetAt
    <2>3. pc'[r] # "refused" /\ pc[r] # "refused" /\ pc[r] \in Serving
      BY <1>3, <2>1
    <2> QED BY <2>1, <2>2, <2>3 DEF NewMatch, OldMatch, Matches
  <1>5. CASE LoadUserAgain(r) \/ RefuseGrowth(r)
    <2>1. /\ pc[r] \in {"tload", "thold"} /\ UNCHANGED <<row, hdl, taken>>
          /\ \/ pc'[r] \in {"thold", "tback"} /\ top'[r].scoped = top[r].scoped
             \/ pc'[r] = "tgrow" /\ top'[r].scoped = top[r].scoped /\ top'[r].user = Zero
             \/ pc'[r] = "running" /\ top[r].scoped = Zero
             \/ pc'[r] = "refused"
      <3>1. CASE LoadUserAgain(r)
        BY <1>1, <3>1 DEF LoadUserAgain, TopUps
      <3>2. CASE RefuseGrowth(r)
        BY <1>1, <3>2 DEF RefuseGrowth
      <3> QED BY <1>5, <3>1, <3>2
    <2>2. /\ GrownAt(r, k, pc[r], hdl[r], taken[r], top[r]) = d
          /\ HandAt(r, k, pc[r], row[r], taken[r], top[r]) = 0
      BY <2>1 DEF GrownAt, HandAt
    <2>3. hdl[r].id /\ row[r].status = "active" => row[r].held[k] + d = HeldAt(r, k, hdl[r]) + 0
      BY <1>3, <2>1, <2>2 DEF OldMatch, Matches
    <2>4. /\ HandAt(r, k, pc'[r], row'[r], taken'[r], top'[r]) = 0
          /\ pc'[r] # "refused" => GrownAt(r, k, pc'[r], hdl'[r], taken'[r], top'[r]) = d
      <3>1. top[r].scoped = Zero => d = 0
        BY <1>1 DEF SetAt
      <3>2. top'[r].scoped = top[r].scoped => SetAt(r, k, hdl[r].budgets, top'[r].scoped) = d
        OBVIOUS
      <3> HIDE DEF d
      <3>3. CASE pc'[r] = "tgrow" /\ top'[r].scoped = top[r].scoped /\ top'[r].user = Zero
        BY <1>1, <1>2, <2>1, <3>2, <3>3 DEF GrownAt, HandAt
      <3>4. CASE pc'[r] \in {"thold", "tback"} /\ top'[r].scoped = top[r].scoped
        BY <2>1, <3>2, <3>4 DEF GrownAt, HandAt
      <3>5. CASE pc'[r] = "running" /\ top[r].scoped = Zero
        BY <3>1, <3>5 DEF GrownAt, HandAt
      <3>6. CASE pc'[r] = "refused"
        BY <3>6 DEF HandAt
      <3> QED BY <2>1, <3>3, <3>4, <3>5, <3>6
    <2>5. row'[r] = row[r] /\ hdl'[r] = hdl[r]
      BY <2>1
    <2> HIDE DEF d
    <2> QED BY <1>1, <1>2, <2>3, <2>4, <2>5 DEF NewMatch, Matches
  <1>6. CASE GrowUser(r)
    <2>1. /\ pc[r] = "thold" /\ pc'[r] = "tgrow" /\ UNCHANGED <<row, taken, top>>
          /\ hdl'[r] = [hdl[r] EXCEPT !.user = Plus(@, top[r].user), !.reserved = TRUE]
      BY <1>1, <1>6 DEF GrowUser
    <2>2. /\ hdl'[r].budgets = hdl[r].budgets /\ hdl'[r].scoped = hdl[r].scoped
          /\ hdl'[r].id = hdl[r].id /\ hdl'[r].reserved
          /\ hdl'[r].user[k[2]] = hdl[r].user[k[2]] + top[r].user[k[2]]
      BY <1>1, <2>1 DEF Handles, TopUps, Amt, Plus, Typed
    <2>3. ~hdl[r].reserved => hdl[r].user[k[2]] = 0
      BY <1>1, <2>1 DEF FormAt, Serving, Arriving, Over, Places
    <2>4. HeldAt(r, k, hdl'[r]) = HeldAt(r, k, hdl[r]) + u
      BY <1>1, <2>2, <2>3 DEF HeldAt, UserAt, Typed
    <2>5. GrownAt(r, k, pc'[r], hdl'[r], taken'[r], top'[r]) = d + u
          /\ GrownAt(r, k, pc[r], hdl[r], taken[r], top[r]) = d
      BY <1>1, <2>1, <2>2 DEF GrownAt, SetAt, UserAt, Typed
    <2>6. /\ HandAt(r, k, pc[r], row[r], taken[r], top[r]) = 0
          /\ HandAt(r, k, pc'[r], row'[r], taken'[r], top'[r]) = 0
      BY <2>1 DEF HandAt
    <2>7. row'[r] = row[r] /\ pc[r] \in Serving \ {"refused"} /\ pc'[r] \in Serving \ {"refused"}
      BY <1>3, <2>1
    <2> HIDE DEF d, u
    <2> QED BY <1>1, <1>2, <2>2, <2>4, <2>5, <2>6, <2>7, MatchMoves
  <1>7. CASE GiveBackGrowth(r)
    <2>1. /\ pc[r] = "tback" /\ pc'[r] = "running" /\ row'[r] = row[r]
          /\ hdl'[r] = [hdl[r] EXCEPT !.scoped = Less(@, top[r].scoped)]
      BY <1>1, <1>7 DEF GiveBackGrowth
    <2>2. top[r].scoped[k[2]] <= hdl[r].scoped[k[2]]
      BY <1>1, <2>1 DEF FormAt, Below, Typed
    <2>3. /\ hdl'[r].budgets = hdl[r].budgets /\ hdl'[r].user = hdl[r].user
          /\ hdl'[r].id = hdl[r].id /\ hdl'[r].reserved = hdl[r].reserved
          /\ hdl'[r].scoped[k[2]] = hdl[r].scoped[k[2]] - top[r].scoped[k[2]]
      BY <1>1, <2>1, <2>2 DEF Handles, TopUps, Amt, Less, Typed
    <2>4. HeldAt(r, k, hdl'[r]) = HeldAt(r, k, hdl[r]) - d
      BY <1>1, <2>3 DEF HeldAt, SetAt, Typed
    <2>5. /\ GrownAt(r, k, pc[r], hdl[r], taken[r], top[r]) = d
          /\ GrownAt(r, k, pc'[r], hdl'[r], taken'[r], top'[r]) = 0
          /\ HandAt(r, k, pc[r], row[r], taken[r], top[r]) = 0
          /\ HandAt(r, k, pc'[r], row'[r], taken'[r], top'[r]) = 0
      BY <2>1 DEF GrownAt, HandAt
    <2>6. pc[r] \in Serving \ {"refused"} /\ pc'[r] \in Serving \ {"refused"}
      BY <1>3, <2>1
    <2> HIDE DEF d, u
    <2>7. row'[r].held[k] + 0 = row[r].held[k] + d + (0 - d)
          /\ HeldAt(r, k, hdl'[r]) + 0 = HeldAt(r, k, hdl[r]) + 0 + (0 - d) /\ 0 - d \in Int
      BY <1>1, <1>2, <2>1, <2>4
    <2> QED BY <2>1, <2>3, <2>5, <2>6, <2>7, MatchMoves
  <1> QED BY <1>4, <1>5, <1>6, <1>7

\* The growth is folded into the row, line by line.
LEMMA GrowRowMatches ==
  ASSUME TypeOK, TypeOK', NEW r \in Requests, FormAt(r), NEW k \in Cells, OldMatch(r, k), GrowRow(r)
  PROVE  NewMatch(r, k)
  <1> USE DEF Goto, sweepVars, history
  <1>1. /\ Typed(r, k) /\ pc \in [Requests -> Places] /\ row \in [Requests -> Rows] /\ row[r] \in Rows
        /\ row[r].held[k] \in Nat /\ HeldAt(r, k, hdl[r]) \in Nat
        /\ GrownAt(r, k, pc[r], hdl[r], taken[r], top[r]) \in Nat
    BY TypedAt, ClaimAtType DEF TypeOK
  <1>2. pc[r] = "tgrow" /\ pc'[r] = "running" /\ hdl' = hdl
    BY <1>1 DEF GrowRow
  <1>3. /\ GrownAt(r, k, pc'[r], hdl'[r], taken'[r], top'[r]) = 0
        /\ HandAt(r, k, pc'[r], row'[r], taken'[r], top'[r]) = 0
        /\ HandAt(r, k, pc[r], row[r], taken[r], top[r]) = 0
    BY <1>2 DEF GrownAt, HandAt
  <1>4. CASE ~hdl[r].id
    BY <1>2, <1>4 DEF NewMatch, Matches
  <1>5. CASE hdl[r].id
    <2>1. Active(r) /\ row' = [row EXCEPT ![r].held = Plus(@, GrowthOf(r))]
      BY <1>5 DEF GrowRow
    <2>2. row'[r].held = Plus(row[r].held, GrowthOf(r)) /\ row'[r].status = row[r].status
      BY <1>1, <2>1 DEF Rows
    <2>3. row[r].on = hdl[r].budgets
      BY <1>2, <1>5, <2>1 DEF FormAt, Serving, Arriving, Over, Places
    <2>4. GrowthOf(r)[k] = GrownAt(r, k, pc[r], hdl[r], taken[r], top[r])
      BY <1>2, <2>3 DEF GrowthOf, Holding, GrownAt, SetAt
    <2>5. GrowthOf(r) \in Amounts /\ row[r].held \in Amounts
      BY <1>1, RecordTypes DEF Rows
    <2>6. row'[r].held[k] = row[r].held[k] + GrownAt(r, k, pc[r], hdl[r], taken[r], top[r])
      BY <2>2, <2>4, <2>5, FigureAt
    <2>7. row[r].held[k] + GrownAt(r, k, pc[r], hdl[r], taken[r], top[r]) = HeldAt(r, k, hdl[r]) + 0
      BY <1>2, <1>3, <1>5, <2>1 DEF OldMatch, Matches, Active, Serving, Arriving, Over, Places
    <2>8. row'[r].held[k] + 0 = HeldAt(r, k, hdl'[r]) + 0
      BY <1>1, <1>2, <2>6, <2>7
    <2> QED BY <1>2, <1>3, <2>8 DEF NewMatch, Matches
  <1> QED BY <1>4, <1>5

\* A move writes the lines of the row and the handle with the same figures.
LEMMA MoveMatches ==
  ASSUME TypeOK, TypeOK', NEW r \in Requests, LifeAt(r), NEW k \in Cells, OldMatch(r, k), Move(r)
  PROVE  NewMatch(r, k)
  <1> DEFINE h == hdl[r]
             F == Fallback[r]
             m == MoveAmt(r)[k[2]]
             user == k[1] = UserOf[r]
  <1>1. /\ Typed(r, k) /\ pc \in [Requests -> Places] /\ hdl \in [Requests -> Handles] /\ hdl[r] \in Handles
        /\ row \in [Requests -> Rows] /\ HeldAt(r, k, hdl[r]) \in Nat /\ row[r].held[k] \in Nat
    BY TypedAt, ClaimAtType DEF TypeOK
  <1>2. m \in Nat /\ F \subseteq Ceilings
    BY <1>1, MoveTypes DEF Amt, Typed
  <1>3. /\ pc[r] = "running" /\ pc'[r] = "running" /\ hdl'[r] = Retargeted(r)
        /\ row'[r] = MovedRow(r) /\ (h.id => row[r].status = "active")
    BY <1>1 DEF Move, MoveHolds, CanMove, Active
  <1>4. /\ hdl'[r].budgets = F /\ hdl'[r].user = h.user /\ hdl'[r].reserved = h.reserved
        /\ hdl'[r].id = (h.id \/ F # {})
        /\ F # {} => hdl'[r].scoped = MoveAmt(r)
    BY <1>1, <1>3 DEF Retargeted, Handles
  <1>5. HeldAt(r, k, hdl'[r]) = IF user THEN HeldAt(r, k, h) ELSE IF k[1] \in F THEN m ELSE 0
    BY <1>4 DEF HeldAt
  <1>6. /\ GrownAt(r, k, pc[r], hdl[r], taken[r], top[r]) = 0
        /\ GrownAt(r, k, pc'[r], hdl'[r], taken'[r], top'[r]) = 0
        /\ HandAt(r, k, pc[r], row[r], taken[r], top[r]) = 0
        /\ HandAt(r, k, pc'[r], row'[r], taken'[r], top'[r]) = 0
        /\ pc[r] \in Serving /\ pc[r] # "refused" /\ pc'[r] # "refused"
    BY <1>3 DEF GrownAt, HandAt, Serving, Arriving, Over, Places
  <1>7. h.id => row[r].held[k] = HeldAt(r, k, h)
    BY <1>1, <1>3, <1>6 DEF OldMatch, Matches
  <1>8. user => k[1] \notin F
    BY <1>1, <1>2 DEF Typed
  <1>9. h.id \/ F # {} => row'[r].held[k] = HeldAt(r, k, hdl'[r])
    <2>1. h.id \/ F # {} =>
            row'[r].held[k] = IF k[1] \in F THEN m
                              ELSE IF ~user THEN 0
                              ELSE IF h.id THEN row[r].held[k] ELSE HeldAt(r, k, h)
      BY <1>3, SpreadAt DEF MovedRow
    <2> HIDE DEF user, F, h, m
    <2> QED BY <1>5, <1>7, <1>8, <2>1 DEF h
  <1>10. HeldAt(r, k, hdl'[r]) \in Nat
    BY <1>1, <1>2, <1>5
  <1> QED BY <1>4, <1>6, <1>9, <1>10 DEF NewMatch, Matches

\* Every step of a request keeps its row and its handle matched.
LEMMA RequestMatches ==
  ASSUME Faults \cap {"db", "lie"} = {}, TypeOK, TypeOK', NEW r \in Requests, FormAt(r), LifeAt(r),
         NEW k \in Cells, OldMatch(r, k), Request(r)
  PROVE  NewMatch(r, k)
  <1> USE DEF Goto, sweepVars, history
  <1>1. /\ pc \in [Requests -> Places] /\ hdl \in [Requests -> Handles] /\ hdl[r] \in Handles
        /\ row \in [Requests -> Rows]
    BY DEF TypeOK
  <1>2. CASE RejectUser(r) \/ AdmitExempt(r) \/ LoadUser(r) \/ ListCeilings(r) \/ ReclaimOwn(r)
    <2>1. /\ pc[r] \in {"idle", "scope", "reclaim"} /\ (hdl'[r] = hdl[r] \/ hdl'[r] = NoHandle(FALSE))
      BY <1>1, <1>2 DEF RejectUser, AdmitExempt, LoadUser, ListCeilings, ReclaimOwn
    <2>2. ~hdl'[r].id
      BY <2>1 DEF LifeAt, Arriving, NoHandle
    <2> QED BY <2>2 DEF NewMatch, Matches
  <1>3. CASE \E c \in Ceilings : HoldCeiling(r, c) \/ RefuseCeiling(r, c)
    BY <1>3, LoopMatches
  <1>4. CASE GiveBack(r)
    BY <1>4, LoopMatches
  <1>5. CASE HoldUser(r) \/ RecordHold(r)
    BY <1>5, AdmitMatches
  <1>6. CASE RefuseUser(r) \/ HoldUserUnsure(r) \/ ReleaseUnrecorded(r) \/ Crash(r)
    <2>1. pc'[r] \in {"giveback", "unsure", "rejected", "dead"}
      BY <1>1, <1>6 DEF RefuseUser, HoldUserUnsure, ReleaseUnrecorded, Crash
    <2> QED BY <2>1 DEF NewMatch, Matches, Serving, Arriving, Over
  <1>7. CASE \/ \E tool \in BOOLEAN : StartTopUp(r, tool)
             \/ LoadUserAgain(r) \/ RefuseGrowth(r) \/ GrowUser(r) \/ GiveBackGrowth(r)
    BY <1>7, TopUpMatches
  <1>8. CASE GrowRow(r)
    BY <1>8, GrowRowMatches
  <1>9. CASE GrowUserFails(r) \/ GrowRowFails(r) \/ MoveUntold(r) \/ MoveFails(r)
    BY <1>9 DEF GrowUserFails, GrowRowFails, MoveUntold, MoveFails
  <1>10. CASE GrowLost(r) \/ ReturnUserGrowth(r) \/ MoveReclaimed(r)
    <2>1. row' = row /\ row[r].status # "active"
      BY <1>10 DEF GrowLost, ReturnUserGrowth, MoveReclaimed, FormAt, Active
    <2> QED BY <2>1 DEF NewMatch, Matches
  <1>11. CASE Move(r)
    BY <1>11, MoveMatches
  <1>12. CASE RefuseMove(r)
    BY <1>12 DEF RefuseMove, NewMatch, OldMatch
  <1>13. CASE (\E use \in Uses[r] : Settle(r, use)) \/ Refund(r)
    <2>1. pc'[r] = "done"
      BY <1>1, <1>13 DEF Settle, Refund, Finish
    <2> QED BY <2>1 DEF NewMatch, Matches, Serving, Over
  <1> QED BY <1>2, <1>3, <1>4, <1>5, <1>6, <1>7, <1>8, <1>9, <1>10, <1>11, <1>12, <1>13 DEF Request

\* No step separates a row from its handle.
LEMMA MatchStep ==
  ASSUME Faults \cap {"db", "lie"} = {}, TypeOK, TypeOK', LifeInv, FormInv, MatchInv, [Next]_vars
  PROVE  FormInv' /\ MatchInv'
  <1> SUFFICES FormInv' /\ (\A q \in Requests : \A k \in Cells : NewMatch(q, k))
    BY DEF MatchInv, OldMatch, NewMatch
  <1>1. CASE UNCHANGED vars
    <2>1. FormInv'
      BY <1>1 DEF vars, FormInv, FormAt, Active
    <2> QED BY <1>1, <2>1 DEF vars, MatchInv, OldMatch, NewMatch
  <1>2. CASE \E r \in Requests : Request(r)
    <2> PICK r \in Requests : Request(r)
      BY <1>2
    <2>1. FormAt(r) /\ LifeAt(r) /\ \A k \in Cells : OldMatch(r, k)
      BY DEF FormInv, LifeInv, MatchInv
    <2>2. FormAt(r)' /\ \A k \in Cells : NewMatch(r, k)
      <3>1. "lie" \notin Faults
        OBVIOUS
      <3> QED BY <2>1, <3>1, RequestForm, RequestMatches
    <2>3. ASSUME NEW q \in Requests, q # r PROVE FormAt(q)' /\ \A k \in Cells : NewMatch(q, k)
      <3>1. UNCHANGED Local(q)
        BY <2>3, Locality
      <3>2. FormAt(q)'
        BY <3>1 DEF Local, FormInv, FormAt, Active
      <3> QED BY <3>1, <3>2 DEF Local, MatchInv, OldMatch, NewMatch
    <2> QED BY <2>2, <2>3 DEF FormInv
  <1>3. CASE Next /\ ~(\E r \in Requests : Request(r))
    <2>1. UNCHANGED <<pc, hdl, taken, top>>
      BY <1>3 DEF Next, Expire, Reclaim, Sweep, SweepList, SweepScan, SweepPrune, SweepFails, SweepClamp,
                  GoQuiet, EndWindow, AssignBudget
    <2>2. ASSUME NEW q \in Requests PROVE FormAt(q)' /\ \A k \in Cells : NewMatch(q, k)
      <3>1. row'[q] = row[q] \/ row'[q].status # "active"
        BY <1>3, SweepRows
      <3>2. FormAt(q)'
        BY <2>1, <3>1, SweepForm
      <3> QED BY <2>1, <3>1, <3>2 DEF MatchInv, OldMatch, NewMatch, Matches
    <2> QED BY <2>2 DEF FormInv
  <1> QED BY <1>1, <1>2, <1>3

\* Nothing matches at the start but nothing.
LEMMA MatchInit ==
  ASSUME Init
  PROVE  FormInv /\ MatchInv
  <1>1. MatchInv
    BY DEF Init, MatchInv, OldMatch, Matches, NoHandle
  <1> QED BY <1>1, HoldsInit

\* As long as no statement or commit of a reservation fails, what the ledger row
\* of a running request records is what its handle would give back, through
\* top-ups, refused top-ups, moves, crashes and expiries: it does not matter
\* whether the request or the sweep finalizes it.
THEOREM MatchCorrect ==
  ASSUME Faults \cap {"db", "lie"} = {}
  PROVE  Spec => []HandleMatchesRow
  <1>1. Init => FormInv /\ MatchInv
    BY MatchInit
  <1>2. TypeOK /\ TypeOK' /\ LifeInv /\ (FormInv /\ MatchInv) /\ [Next]_vars => (FormInv /\ MatchInv)'
    BY MatchStep
  <1>3. TypeOK /\ MatchInv => HandleMatchesRow
    <2> SUFFICES ASSUME TypeOK, MatchInv, NEW r \in Requests,
                        pc[r] = "running", hdl[r].id, Active(r)
                 PROVE  HeldBy(r, hdl[r]) = row[r].held
      BY DEF HandleMatchesRow
    <2>1. HeldBy(r, hdl[r]) \in [Cells -> Nat] /\ row[r].held \in [Cells -> Nat]
      BY RecordTypes DEF TypeOK, Rows, Amounts
    <2>2. ASSUME NEW k \in Cells PROVE HeldBy(r, hdl[r])[k] = row[r].held[k]
      <3>1. /\ GrownAt(r, k, pc[r], hdl[r], taken[r], top[r]) = 0
            /\ HandAt(r, k, pc[r], row[r], taken[r], top[r]) = 0
        BY DEF GrownAt, HandAt
      <3>2. row[r].held[k] + 0 = HeldAt(r, k, hdl[r]) + 0
        BY <3>1 DEF MatchInv, OldMatch, Matches, Active, Serving, Arriving, Over, Places
      <3>3. HeldAt(r, k, hdl[r]) = HeldBy(r, hdl[r])[k]
        BY SpreadAt
      <3> QED BY <2>1, <3>2, <3>3
    <2> QED BY <2>1, <2>2
  <1>4. "lie" \notin Faults
    OBVIOUS
  <1>5. Spec => []LifeInv
    BY <1>4, LifeCorrect
  <1> QED BY <1>1, <1>2, <1>3, <1>5, TypeCorrect, PTL DEF Spec

-----------------------------------------------------------------------------
(* Nothing is stranded.  Without failures, crashes and expiries no row ever *)
(* expires, so every claim is what the handle and the loop hold.            *)

\* Every request that is over has finalized its row, a loop has taken only
\* ceilings that the handle names when it ends, and a refused request whose handle
\* names no row has none.
CalmAt(r) ==
  /\ row[r].status # "expired" /\ pc[r] # "unsure"
  /\ pc[r] \in Over => row[r].status # "active"
  /\ pc[r] \in {"ceilings", "giveback"} => taken[r] \subseteq Primary[r]
  /\ pc[r] \in {"tceil", "tgiveback"} => taken[r] \subseteq hdl[r].budgets
  /\ pc[r] = "refused" /\ ~hdl[r].id => row[r].status = "none"
CalmInv ==
  /\ expired = {} /\ \A p \in Procs : batch[p] = {}
  /\ \A r \in Requests : CalmAt(r)

\* What the handle and the loop of a request hold on a cell.
OwnAt(r, k, p, h, w, t, g) ==
  IF p \in Over THEN 0 ELSE HeldAt(r, k, h) + HandAt(r, k, p, w, t, g)
OldOwn(r, k) == OwnAt(r, k, pc[r], hdl[r], row[r], taken[r], top[r])
NewOwn(r, k) == OwnAt(r, k, pc'[r], hdl'[r], row'[r], taken'[r], top'[r])

\* While the row matches the handle, the claim is what the request holds.
LEMMA ClaimOwn ==
  ASSUME NEW r \in Requests, NEW k \in Cells, NEW p \in Places, NEW h \in Handles, NEW w \in Rows,
         NEW t, NEW g \in TopUps, Matches(r, k, p, h, w, t, g), p # "unsure",
         p \in Over => w.status # "active",
         p \in Arriving => w.status = "none" /\ ~h.id,
         p \in Serving /\ h.id => w.status = "active",
         p \in Serving /\ ~h.id => w.status = "none"
  PROVE  ClaimAt(r, k, p, h, w, t, g) = OwnAt(r, k, p, h, w, t, g)
  <1>1. /\ HeldAt(r, k, h) \in Nat /\ HandAt(r, k, p, w, t, g) \in Nat
        /\ GrownAt(r, k, p, h, t, g) \in Nat /\ w.held[k] \in Nat
    BY ClaimAtType
  <1>2. p \in Over \/ p \in Arriving \/ p \in Serving
    BY DEF Serving
  <1>3. CASE p \in Over
    BY <1>3 DEF ClaimAt, OwnAt, RowAt
  <1>4. CASE p \notin Over /\ ~h.id
    <2>1. w.status = "none"
      BY <1>2, <1>4
    <2> QED BY <1>1, <1>4, <2>1 DEF ClaimAt, OwnAt, RowAt
  <1>5. CASE p \notin Over /\ h.id
    <2>1. w.status = "active" /\ p \in Serving
      BY <1>2, <1>5
    <2>2. p = "refused" => GrownAt(r, k, p, h, t, g) = 0
      BY DEF GrownAt
    <2> QED BY <1>1, <1>5, <2>1, <2>2 DEF ClaimAt, OwnAt, Matches, MaxOf
  <1> QED BY <1>3, <1>4, <1>5

\* A step of a request keeps it calm.
LEMMA RequestCalm ==
  ASSUME Faults \cap {"db", "lie", "crash"} = {}, TypeOK, NEW r \in Requests, LifeAt(r), FormAt(r),
         CalmAt(r), Request(r)
  PROVE  CalmAt(r)'
  <1> USE DEF sweepVars, history, Goto, CalmAt, Over
  <1>1. /\ hdl[r] \in Handles /\ row[r] \in Rows /\ pc[r] \in Places /\ taken[r] \subseteq Ceilings
    BY DEF TypeOK
  <1>2. /\ pc \in [Requests -> Places] /\ hdl \in [Requests -> Handles]
        /\ row \in [Requests -> Rows] /\ taken \in [Requests -> SUBSET Ceilings]
    BY DEF TypeOK
  <1>3. CASE RejectUser(r) \/ AdmitExempt(r) \/ LoadUser(r) \/ ListCeilings(r) \/ ReclaimOwn(r)
    <2>1. /\ UNCHANGED <<row, taken>> /\ pc[r] \in {"idle", "scope", "reclaim"}
          /\ pc'[r] \in {"rejected", "running", "scope", "reclaim", "ceilings"}
      BY <1>2, <1>3 DEF RejectUser, AdmitExempt, LoadUser, ListCeilings, ReclaimOwn
    <2>2. taken[r] = {} /\ row[r].status = "none"
      BY <2>1 DEF FormAt, LifeAt, Arriving
    <2> QED BY <2>1, <2>2
  <1>4. CASE \E c \in Ceilings : HoldCeiling(r, c)
    <2> PICK c \in Ceilings : HoldCeiling(r, c)
      BY <1>4
    <2>1. /\ row' = row /\ pc[r] \in {"ceilings", "tceil"} /\ c \in LoopSet(r)
          /\ \/ pc'[r] = pc[r] /\ hdl'[r] = hdl[r] /\ taken'[r] = taken[r] \cup {c}
             \/ pc'[r] \in {"tload", "tgrow"}
      BY <1>1, <1>2 DEF HoldCeiling, InLoop, IsNext, Todo
    <2> QED BY <2>1 DEF LoopSet
  <1>5. CASE \E c \in Ceilings : RefuseCeiling(r, c)
    BY <1>2, <1>5 DEF RefuseCeiling, InLoop
  <1>6. CASE GiveBack(r)
    <2>1. /\ row' = row /\ pc[r] \in {"giveback", "tgiveback"}
          /\ pc'[r] \in {"rejected", "running", "refused"}
          /\ pc[r] = "tgiveback" => pc'[r] # "rejected"
      BY <1>2, <1>6 DEF GiveBack
    <2>2. pc[r] = "giveback" => row[r].status = "none"
      BY DEF LifeAt, Arriving
    <2>3. pc[r] = "tgiveback" /\ ~hdl[r].id => row[r].status = "none"
      BY DEF LifeAt, Arriving, Serving, Places
    <2>4. hdl' = hdl
      BY <1>6 DEF GiveBack
    <2> QED BY <2>1, <2>2, <2>3, <2>4
  <1>7. CASE HoldUser(r)
    BY <1>2, <1>7 DEF HoldUser, AdmissionRow
  <1>8. CASE RefuseUser(r)
    BY <1>2, <1>8 DEF RefuseUser, CeilingsHeld
  <1>9. CASE \/ HoldUserUnsure(r) \/ ReleaseUnrecorded(r) \/ GrowUserFails(r) \/ GrowRowFails(r)
             \/ MoveUntold(r) \/ MoveFails(r) \/ Crash(r)
    BY <1>9 DEF HoldUserUnsure, ReleaseUnrecorded, GrowUserFails, GrowRowFails, MoveUntold, MoveFails,
                Crash
  <1>10. CASE RecordHold(r)
    <2>1. pc'[r] = "running" /\ (row'[r] = row[r] \/ row'[r] = AdmissionRow(r, FALSE))
      BY <1>2, <1>10 DEF RecordHold
    <2> QED BY <2>1 DEF AdmissionRow
  <1>11. CASE \E tool \in BOOLEAN : StartTopUp(r, tool)
    <2>1. row' = row /\ taken' = taken /\ pc[r] = "running" /\ pc'[r] \in {"tceil", "tload"}
      BY <1>2, <1>11 DEF StartTopUp
    <2> QED BY <2>1 DEF FormAt
  <1>12. CASE \/ LoadUserAgain(r) \/ RefuseGrowth(r) \/ GrowUser(r) \/ GiveBackGrowth(r)
              \/ GrowLost(r) \/ ReturnUserGrowth(r) \/ RefuseMove(r) \/ MoveReclaimed(r)
    <2>1. row' = row
          /\ pc'[r] \in {"thold", "tgrow", "running", "tback", "refused", "treturn"}
      BY <1>2, <1>12 DEF LoadUserAgain, RefuseGrowth, GrowUser, GiveBackGrowth, GrowLost,
                         ReturnUserGrowth, RefuseMove, MoveReclaimed, CanMove
    <2>2. pc'[r] = "refused" => pc[r] \in {"tload", "thold"} /\ hdl' = hdl
      BY <1>2, <1>12 DEF LoadUserAgain, RefuseGrowth, GrowUser, GiveBackGrowth, GrowLost,
                         ReturnUserGrowth, RefuseMove, MoveReclaimed, CanMove
    <2>3. pc[r] \in {"tload", "thold"} /\ ~hdl[r].id => row[r].status = "none"
      BY DEF LifeAt, Arriving, Serving, Places
    <2> QED BY <2>1, <2>2, <2>3
  <1>13. CASE GrowRow(r)
    BY <1>1, <1>2, <1>13 DEF GrowRow, Rows
  <1>14. CASE Move(r)
    <2>1. pc'[r] = "running" /\ row'[r] = MovedRow(r)
      BY <1>2, <1>14 DEF Move, MoveHolds, CanMove
    <2> QED BY <2>1 DEF MovedRow
  <1>15. CASE (\E use \in Uses[r] : Settle(r, use)) \/ Refund(r)
    <2>1. pc[r] \in {"running", "refused"} \/ (pc[r] = "done" /\ hdl[r].id)
      BY <1>15 DEF Settle, Refund, MayFinalize, LifeAt
    <2>2. /\ pc'[r] = "done"
          /\ \/ row'[r].status \in {"settled", "released"}
             \/ row'[r] = row[r] /\ ~(hdl[r].id /\ row[r].status = "active")
      <3>1. CASE Refund(r)
        BY <1>1, <1>2, <3>1 DEF Refund, Finish, Claims, Active, Rows
      <3>2. ASSUME NEW use \in Uses[r], Settle(r, use)
            PROVE  /\ pc'[r] = "done"
                   /\ \/ row'[r].status \in {"settled", "released"}
                      \/ row'[r] = row[r] /\ ~(hdl[r].id /\ row[r].status = "active")
        BY <1>1, <1>2, <3>2 DEF Settle, Finish, Claims, Active, Rows
      <3> QED BY <1>15, <3>1, <3>2
    <2>3. ~hdl[r].id => row[r].status = "none"
      BY <2>1 DEF LifeAt, Serving, Arriving, Places, CalmAt
    <2> QED BY <2>2, <2>3
  <1> QED BY <1>3, <1>4, <1>5, <1>6, <1>7, <1>8, <1>9, <1>10, <1>11, <1>12, <1>13, <1>14, <1>15
          DEF Request

\* A step takes no more onto a counter, and leaves no more on it, than the request
\* holds after it.
Backed(r, k) == reserved'[k] + OldOwn(r, k) <= reserved[k] + NewOwn(r, k)

\* What a request holds is a number, before and after a step.
LEMMA OwnTypes ==
  ASSUME TypeOK, TypeOK', NEW r \in Requests, NEW k \in Cells
  PROVE  /\ OldOwn(r, k) \in Nat /\ NewOwn(r, k) \in Nat
         /\ reserved[k] \in Nat /\ reserved'[k] \in Nat
         /\ HeldAt(r, k, hdl[r]) \in Nat /\ HeldAt(r, k, hdl'[r]) \in Nat
  <1>1. hdl[r] \in Handles /\ row[r] \in Rows /\ top[r] \in TopUps
    BY DEF TypeOK
  <1>2. hdl'[r] \in Handles /\ row'[r] \in Rows /\ top'[r] \in TopUps
    BY DEF TypeOK
  <1>3. OldOwn(r, k) \in Nat /\ HeldAt(r, k, hdl[r]) \in Nat
    <2>1. HeldAt(r, k, hdl[r]) \in Nat /\ HandAt(r, k, pc[r], row[r], taken[r], top[r]) \in Nat
      BY <1>1, ClaimAtType
    <2> QED BY <2>1 DEF OldOwn, OwnAt
  <1>4. NewOwn(r, k) \in Nat /\ HeldAt(r, k, hdl'[r]) \in Nat
    <2>1. HeldAt(r, k, hdl'[r]) \in Nat /\ HandAt(r, k, pc'[r], row'[r], taken'[r], top'[r]) \in Nat
      BY <1>2, ClaimAtType
    <2> QED BY <2>1 DEF NewOwn, OwnAt
  <1> QED BY <1>3, <1>4 DEF TypeOK, Amounts

\* A release that is not clamped, and a hold.
LEMMA GiveOwn ==
  ASSUME TypeOK, TypeOK', NEW r \in Requests, NEW k \in Cells, NEW d \in Nat,
         OldOwn(r, k) <= reserved[k], OldOwn(r, k) <= NewOwn(r, k) + d,
         reserved'[k] = IF reserved[k] >= d THEN reserved[k] - d ELSE 0
  PROVE  Backed(r, k)
  BY OwnTypes DEF Backed

\* Taking as much on a cell as the claim grows keeps it backed.
LEMMA TakeOwn ==
  ASSUME TypeOK, TypeOK', NEW r \in Requests, NEW k \in Cells, NEW d \in Nat,
         OldOwn(r, k) + d <= NewOwn(r, k), reserved'[k] = reserved[k] + d
  PROVE  Backed(r, k)
  BY OwnTypes DEF Backed

\* The ceiling loop takes and gives back only what it holds in hand.
LEMMA LoopBacked ==
  ASSUME Faults \cap {"db", "lie"} = {}, TypeOK, TypeOK', NEW r \in Requests, FormAt(r), CalmAt(r),
         NEW k \in Cells, OldOwn(r, k) <= reserved[k],
         (\E c \in Ceilings : HoldCeiling(r, c) \/ RefuseCeiling(r, c)) \/ GiveBack(r) \/ RefuseUser(r)
  PROVE  Backed(r, k)
  <1> USE DEF Goto, sweepVars, history
  <1>1. /\ Typed(r, k) /\ pc \in [Requests -> Places] /\ hdl \in [Requests -> Handles]
        /\ hdl[r] \in Handles /\ top[r] \in TopUps /\ taken \in [Requests -> SUBSET Ceilings]
        /\ HeldAt(r, k, hdl[r]) \in Nat
    BY TypedAt, ClaimAtType DEF TypeOK
  <1> DEFINE amt == IF pc[r] \in {"tceil", "tgiveback"} THEN top[r].scoped ELSE Size[r]
             out == SetAt(r, k, taken[r], amt)
  <1>2. /\ pc[r] \in {"ceilings", "tceil", "giveback", "tgiveback"} /\ row' = row
        /\ out \in Nat /\ amt \in Amt /\ amt[k[2]] \in Nat
    BY <1>1, RequestAssumption
       DEF HoldCeiling, RefuseCeiling, GiveBack, RefuseUser, InLoop, CeilingsHeld, SetAt, Typed, TopUps
  <1>3. OldOwn(r, k) = HeldAt(r, k, hdl[r]) + out
    BY <1>2 DEF OldOwn, OwnAt, HandAt, Over
  <1>4. CASE RefuseUser(r) \/ \E c \in Ceilings : RefuseCeiling(r, c)
    <2>1. /\ UNCHANGED <<reserved, hdl, taken, top>>
          /\ \/ pc[r] = "ceilings" /\ pc'[r] = "giveback"
             \/ pc[r] = "tceil" /\ pc'[r] = "tgiveback"
      BY <1>1, <1>4 DEF RefuseUser, RefuseCeiling, InLoop, CeilingsHeld
    <2>2. NewOwn(r, k) = HeldAt(r, k, hdl[r]) + out
      BY <1>2, <2>1 DEF NewOwn, OwnAt, HandAt, Over
    <2> QED BY <1>1, <1>3, <2>1, <2>2, OwnTypes DEF Backed
  <1>5. CASE GiveBack(r)
    <2>1. /\ pc[r] \in {"giveback", "tgiveback"} /\ UNCHANGED hdl
          /\ reserved' = Less(reserved, OnCeilings(r, taken[r], amt))
          /\ pc'[r] \in IF pc[r] = "giveback" THEN {"rejected"} ELSE {"running", "refused"}
      BY <1>1, <1>5 DEF GiveBack
    <2>2. pc[r] = "giveback" => HeldAt(r, k, hdl[r]) = 0
      BY DEF FormAt, Arriving, HeldAt
    <2>3. NewOwn(r, k) = IF pc[r] = "giveback" THEN 0 ELSE HeldAt(r, k, hdl[r]) + 0
      BY <2>1 DEF NewOwn, OwnAt, HandAt, Over
    <2>4. OnCeilings(r, taken[r], amt)[k] = out /\ OnCeilings(r, taken[r], amt) \in Amounts
          /\ reserved \in Amounts
      <3> HIDE DEF amt
      <3>1. OnCeilings(r, taken[r], amt)[k] = out
        BY SpreadAt
      <3>2. OnCeilings(r, taken[r], amt) \in Amounts /\ reserved \in Amounts
        BY <1>1, <1>2, OnType DEF TypeOK
      <3> QED BY <3>1, <3>2
    <2> HIDE DEF amt, out
    <2>5. reserved'[k] = IF reserved[k] >= out THEN reserved[k] - out ELSE 0
      BY <2>1, <2>4, FigureAt
    <2>6. OldOwn(r, k) <= NewOwn(r, k) + out
      BY <1>1, <1>2, <1>3, <2>2, <2>3
    <2> QED BY <1>2, <2>5, <2>6, GiveOwn
  <1>6. ASSUME NEW c \in Ceilings, HoldCeiling(r, c)
        PROVE  Backed(r, k)
    <2> DEFINE one == SetAt(r, k, {c}, amt)
    <2>1. /\ pc[r] \in {"ceilings", "tceil"} /\ c \in LoopSet(r) /\ c \notin taken[r] /\ top' = top
          /\ LoopAmt(r) = amt
      BY <1>6 DEF HoldCeiling, InLoop, IsNext, Todo, LoopAmt
    <2>2. reserved'[k] = reserved[k] + one
      <3>1. reserved' = Plus(reserved, OnCeilings(r, {c}, LoopAmt(r)))
        BY <1>6 DEF HoldCeiling
      <3>2. OnCeilings(r, {c}, amt) \in Amounts /\ OnCeilings(r, {c}, amt)[k] = one
            /\ reserved \in Amounts
        <4> HIDE DEF amt
        <4>1. OnCeilings(r, {c}, amt)[k] = one
          BY SpreadAt
        <4>2. OnCeilings(r, {c}, amt) \in Amounts /\ reserved \in Amounts
          BY <1>2, OnType DEF TypeOK
        <4> QED BY <4>1, <4>2
      <3> HIDE DEF amt, one
      <3> QED BY <2>1, <3>1, <3>2, FigureAt
    <2>3. one \in Nat
      BY <1>2 DEF SetAt
    <2>4. CASE ~(pc[r] = "tceil" /\ Todo(r) = {c})
      <3>1. taken'[r] = taken[r] \cup {c} /\ pc'[r] = pc[r] /\ hdl'[r] = hdl[r]
        BY <1>1, <1>6, <2>4 DEF HoldCeiling
      <3>2. SetAt(r, k, taken[r] \cup {c}, amt) = out + one
        BY <1>1, <1>2, <2>1 DEF SetAt
      <3>3. NewOwn(r, k) = HeldAt(r, k, hdl[r]) + SetAt(r, k, taken[r] \cup {c}, amt)
        BY <1>2, <2>1, <3>1 DEF NewOwn, OwnAt, HandAt, Over
      <3> HIDE DEF one, out
      <3> QED BY <1>1, <1>2, <1>3, <2>2, <2>3, <3>2, <3>3, TakeOwn
    <2>5. CASE pc[r] = "tceil" /\ Todo(r) = {c}
      <3>1. /\ hdl'[r] = [hdl[r] EXCEPT !.scoped = Plus(@, top[r].scoped)]
            /\ pc'[r] \in {"tload", "tgrow"}
        BY <1>1, <1>6, <2>5 DEF HoldCeiling
      <3>2. /\ hdl'[r].budgets = hdl[r].budgets
            /\ hdl'[r].reserved = hdl[r].reserved /\ hdl'[r].user = hdl[r].user
            /\ hdl'[r].scoped[k[2]] = hdl[r].scoped[k[2]] + top[r].scoped[k[2]]
        BY <1>1, <3>1 DEF Handles, TopUps, Amt, Plus, Typed
      <3>3. HeldAt(r, k, hdl'[r]) = HeldAt(r, k, hdl[r]) + SetAt(r, k, hdl[r].budgets, amt)
        BY <1>1, <2>5, <3>2 DEF HeldAt, SetAt, Typed
      <3>4. taken[r] \cup {c} \subseteq hdl[r].budgets
        BY <2>1, <2>5 DEF CalmAt, LoopSet
      <3>5. out + one <= SetAt(r, k, hdl[r].budgets, amt) /\ SetAt(r, k, hdl[r].budgets, amt) \in Nat
        BY <1>1, <1>2, <2>1, <3>4 DEF SetAt
      <3>6. NewOwn(r, k) = HeldAt(r, k, hdl'[r]) + 0
        BY <3>1 DEF NewOwn, OwnAt, HandAt, Over
      <3> HIDE DEF one, out
      <3> QED BY <1>1, <1>2, <1>3, <2>2, <2>3, <3>3, <3>5, <3>6, TakeOwn
    <2> QED BY <2>4, <2>5
  <1> QED BY <1>4, <1>5, <1>6

\* Admission.
LEMMA AdmitBacked ==
  ASSUME TypeOK, TypeOK', NEW r \in Requests, FormAt(r), CalmAt(r), NEW k \in Cells,
         HoldUser(r) \/ RecordHold(r)
  PROVE  Backed(r, k)
  <1> USE DEF Goto, sweepVars, history
  <1> DEFINE p == SetAt(r, k, Primary[r], Size[r])
             u == IF HoldUser(r) THEN UserAt(r, k, Size[r]) ELSE 0
  <1>1. /\ Typed(r, k) /\ pc \in [Requests -> Places] /\ hdl \in [Requests -> Handles]
    BY TypedAt DEF TypeOK
  <1>2. pc[r] = "ceilings" /\ pc'[r] = "running" /\ taken[r] \subseteq Primary[r]
    BY <1>1 DEF HoldUser, RecordHold, CeilingsHeld, CalmAt
  <1>3. p \in Nat /\ u \in Nat
    BY <1>1 DEF SetAt, UserAt, Typed
  <1>4. OldOwn(r, k) <= p
    <2>1. HeldAt(r, k, hdl[r]) = 0
      BY <1>2 DEF FormAt, Arriving, HeldAt
    <2>2. OldOwn(r, k) = 0 + SetAt(r, k, taken[r], Size[r])
      BY <1>2, <2>1 DEF OldOwn, OwnAt, HandAt, Over
    <2> QED BY <1>1, <1>2, <2>2 DEF SetAt, Typed
  <1>5. HeldAt(r, k, hdl'[r]) = p + u
    <2>1. CASE HoldUser(r)
      <3>1. hdl'[r] = AdmissionHandle(r, TRUE, TRUE)
        BY <1>1, <2>1 DEF HoldUser
      <3> QED BY <1>1, <2>1, <3>1 DEF AdmissionHandle, HeldAt, SetAt, UserAt, Typed
    <2>2. CASE RecordHold(r) /\ ~HoldUser(r)
      <3>1. /\ hdl'[r].budgets = Primary[r] /\ ~hdl'[r].reserved
            /\ Primary[r] # {} => hdl'[r].scoped = Size[r]
        BY <1>1, <2>2 DEF RecordHold, AdmissionHandle
      <3> QED BY <1>1, <2>2, <3>1 DEF HeldAt, SetAt, Typed
    <2> QED BY <2>1, <2>2
  <1>6. NewOwn(r, k) = (p + u) + 0
    BY <1>2, <1>5 DEF NewOwn, OwnAt, HandAt, Over
  <1>7. reserved'[k] = reserved[k] + u
    <2>1. CASE HoldUser(r)
      <3>1. OnUser(r, Size[r]) \in Amounts /\ reserved \in Amounts
        BY RequestAssumption, OnType DEF TypeOK
      <3>2. OnUser(r, Size[r])[k] = UserAt(r, k, Size[r])
        BY SpreadAt
      <3>3. reserved' = Plus(reserved, OnUser(r, Size[r]))
        BY <2>1 DEF HoldUser
      <3> QED BY <2>1, <3>1, <3>2, <3>3, FigureAt
    <2>2. CASE RecordHold(r) /\ ~HoldUser(r)
      BY <1>1, <2>2 DEF RecordHold, Typed
    <2> QED BY <2>1, <2>2
  <1> HIDE DEF p, u
  <1> QED BY <1>3, <1>4, <1>6, <1>7, OwnTypes, TakeOwn

\* Top-ups.
LEMMA TopUpBacked ==
  ASSUME TypeOK, TypeOK', NEW r \in Requests, FormAt(r), NEW k \in Cells,
         OldOwn(r, k) <= reserved[k],
         \/ \E tool \in BOOLEAN : StartTopUp(r, tool)
         \/ LoadUserAgain(r) \/ RefuseGrowth(r) \/ GrowUser(r) \/ GiveBackGrowth(r) \/ GrowRow(r)
         \/ RefuseMove(r)
  PROVE  Backed(r, k)
  <1> USE DEF Goto, sweepVars, history
  <1>1. /\ Typed(r, k) /\ pc \in [Requests -> Places] /\ top \in [Requests -> TopUps]
        /\ hdl \in [Requests -> Handles] /\ top[r] \in TopUps /\ hdl[r] \in Handles
        /\ HeldAt(r, k, hdl[r]) \in Nat
    BY TypedAt, ClaimAtType DEF TypeOK
  <1>2. pc[r] \in {"running", "tload", "thold", "tback", "tgrow"}
    BY DEF StartTopUp, LoadUserAgain, RefuseGrowth, GrowUser, GiveBackGrowth, GrowRow, RefuseMove, CanMove
  <1>3. pc'[r] \in {"running", "tceil", "tload", "thold", "tback", "tgrow", "refused"}
    <2>1. CASE \/ LoadUserAgain(r) \/ RefuseGrowth(r) \/ GrowUser(r) \/ GiveBackGrowth(r) \/ GrowRow(r)
               \/ RefuseMove(r)
      BY <1>1, <2>1 DEF LoadUserAgain, RefuseGrowth, GrowUser, GiveBackGrowth, GrowRow, RefuseMove, CanMove
    <2>2. CASE \E tool \in BOOLEAN : StartTopUp(r, tool)
      BY <1>1, <2>2 DEF StartTopUp
    <2> QED BY <2>1, <2>2
  <1>4. taken[r] = {} /\ taken'[r] = {}
    BY <1>2 DEF FormAt, StartTopUp, LoadUserAgain, RefuseGrowth, GrowUser, GiveBackGrowth, GrowRow,
                RefuseMove
  <1>5. OldOwn(r, k) = HeldAt(r, k, hdl[r]) /\ NewOwn(r, k) = HeldAt(r, k, hdl'[r])
    <2>1. /\ HandAt(r, k, pc[r], row[r], taken[r], top[r]) = 0
          /\ HandAt(r, k, pc'[r], row'[r], taken'[r], top'[r]) = 0
      BY <1>2, <1>3, <1>4 DEF HandAt, SetAt
    <2>2. HeldAt(r, k, hdl[r]) \in Nat /\ HeldAt(r, k, hdl'[r]) \in Nat
      BY OwnTypes
    <2> QED BY <1>2, <1>3, <2>1, <2>2 DEF OldOwn, NewOwn, OwnAt, Over
  <1>6. CASE \/ \E tool \in BOOLEAN : StartTopUp(r, tool)
             \/ LoadUserAgain(r) \/ RefuseGrowth(r) \/ GrowRow(r) \/ RefuseMove(r)
    <2>1. reserved' = reserved /\ hdl' = hdl
      BY <1>6 DEF StartTopUp, LoadUserAgain, RefuseGrowth, GrowRow, RefuseMove
    <2> QED BY <1>5, <2>1, OwnTypes DEF Backed
  <1>7. CASE GrowUser(r)
    <2> DEFINE d == UserAt(r, k, top[r].user)
    <2>1. /\ pc[r] = "thold" /\ reserved' = Plus(reserved, OnUser(r, top[r].user))
          /\ hdl'[r] = [hdl[r] EXCEPT !.user = Plus(@, top[r].user), !.reserved = TRUE]
      BY <1>1, <1>7 DEF GrowUser
    <2>2. /\ hdl'[r].budgets = hdl[r].budgets /\ hdl'[r].scoped = hdl[r].scoped /\ hdl'[r].reserved
          /\ hdl'[r].user[k[2]] = hdl[r].user[k[2]] + top[r].user[k[2]]
      BY <1>1, <2>1 DEF Handles, TopUps, Amt, Plus, Typed
    <2>3. ~hdl[r].reserved => hdl[r].user[k[2]] = 0
      BY <1>1, <2>1 DEF FormAt, Serving, Arriving, Over, Places, Zero, Typed
    <2>4. HeldAt(r, k, hdl'[r]) = HeldAt(r, k, hdl[r]) + d /\ d \in Nat
      BY <1>1, <2>2, <2>3 DEF HeldAt, UserAt, Typed
    <2>5. OnUser(r, top[r].user) \in Amounts /\ reserved \in Amounts /\ OnUser(r, top[r].user)[k] = d
      <3>1. OnUser(r, top[r].user) \in Amounts /\ reserved \in Amounts
        BY <1>1, OnType DEF TypeOK, TopUps
      <3>2. OnUser(r, top[r].user)[k] = d
        BY SpreadAt
      <3> QED BY <3>1, <3>2
    <2> HIDE DEF d
    <2>6. reserved'[k] = reserved[k] + d
      BY <2>1, <2>5, FigureAt
    <2> QED BY <1>1, <1>5, <2>4, <2>6, TakeOwn
  <1>8. CASE GiveBackGrowth(r)
    <2> DEFINE d == SetAt(r, k, hdl[r].budgets, top[r].scoped)
    <2>1. /\ pc[r] = "tback" /\ reserved' = Less(reserved, OnCeilings(r, hdl[r].budgets, top[r].scoped))
          /\ hdl'[r] = [hdl[r] EXCEPT !.scoped = Less(@, top[r].scoped)]
      BY <1>1, <1>8 DEF GiveBackGrowth
    <2>2. top[r].scoped[k[2]] <= hdl[r].scoped[k[2]]
      BY <1>1, <2>1 DEF FormAt, Below, Typed
    <2>3. /\ hdl'[r].budgets = hdl[r].budgets /\ hdl'[r].user = hdl[r].user
          /\ hdl'[r].reserved = hdl[r].reserved
          /\ hdl'[r].scoped[k[2]] = hdl[r].scoped[k[2]] - top[r].scoped[k[2]]
      BY <1>1, <2>1, <2>2 DEF Handles, TopUps, Amt, Less, Typed
    <2>4. HeldAt(r, k, hdl[r]) = HeldAt(r, k, hdl'[r]) + d /\ d \in Nat
      BY <1>1, <2>3 DEF HeldAt, SetAt, Typed
    <2>5. OnCeilings(r, hdl[r].budgets, top[r].scoped) \in Amounts /\ reserved \in Amounts
          /\ OnCeilings(r, hdl[r].budgets, top[r].scoped)[k] = d
      <3>1. OnCeilings(r, hdl[r].budgets, top[r].scoped) \in Amounts /\ reserved \in Amounts
        BY <1>1, OnType DEF TypeOK, TopUps
      <3>2. OnCeilings(r, hdl[r].budgets, top[r].scoped)[k] = d
        BY SpreadAt
      <3> QED BY <3>1, <3>2
    <2> HIDE DEF d
    <2>6. reserved'[k] = IF reserved[k] >= d THEN reserved[k] - d ELSE 0
      BY <2>1, <2>5, FigureAt
    <2>7. OldOwn(r, k) <= NewOwn(r, k) + d
      BY <1>5, <2>4, OwnTypes
    <2> QED BY <2>4, <2>6, <2>7, GiveOwn
  <1> QED BY <1>6, <1>7, <1>8

\* A move.
LEMMA MoveBacked ==
  ASSUME TypeOK, TypeOK', NEW r \in Requests, NEW k \in Cells, OldOwn(r, k) <= reserved[k], Move(r)
  PROVE  Backed(r, k)
  <1> DEFINE h == hdl[r]
             F == Fallback[r]
             m == MoveAmt(r)[k[2]]
             user == k[1] = UserOf[r]
  <1>1. /\ Typed(r, k) /\ pc \in [Requests -> Places] /\ hdl \in [Requests -> Handles] /\ hdl[r] \in Handles
        /\ HeldAt(r, k, h) \in Nat /\ h.scoped[k[2]] \in Nat /\ reserved[k] \in Nat
    BY TypedAt, ClaimAtType DEF TypeOK, Typed
  <1>2. m \in Nat
    BY <1>1, MoveTypes DEF Amt, Typed
  <1>3. pc[r] = "running" /\ pc'[r] = "running" /\ hdl'[r] = Retargeted(r)
    BY <1>1 DEF Move, MoveHolds, CanMove
  <1>4. /\ hdl'[r].budgets = F /\ hdl'[r].user = h.user /\ hdl'[r].reserved = h.reserved
        /\ F # {} => hdl'[r].scoped = MoveAmt(r)
    BY <1>1, <1>3 DEF Retargeted, Handles
  <1>5. /\ HeldAt(r, k, hdl'[r]) = IF user THEN HeldAt(r, k, h) ELSE IF k[1] \in F THEN m ELSE 0
        /\ ~user => HeldAt(r, k, h) = IF k[1] \in h.budgets THEN h.scoped[k[2]] ELSE 0
    BY <1>4 DEF HeldAt
  <1>6. OldOwn(r, k) = HeldAt(r, k, h) + 0 /\ NewOwn(r, k) = HeldAt(r, k, hdl'[r]) + 0
    BY <1>3 DEF OldOwn, NewOwn, OwnAt, HandAt, Over
  <1>7. /\ user => reserved'[k] = reserved[k]
        /\ ~user /\ k[1] \in F /\ k[1] \notin h.budgets => reserved'[k] = reserved[k] + m
        /\ ~user /\ k[1] \in F /\ k[1] \in h.budgets =>
             reserved'[k] = reserved[k] + (m - h.scoped[k[2]]) /\ h.scoped[k[2]] <= m
        /\ ~user /\ k[1] \notin F /\ k[1] \in h.budgets =>
             reserved'[k] = IF reserved[k] >= h.scoped[k[2]] THEN reserved[k] - h.scoped[k[2]] ELSE 0
        /\ ~user /\ k[1] \notin F /\ k[1] \notin h.budgets => reserved'[k] = reserved[k]
    BY MoveCounter DEF Move
  <1> HIDE DEF h, F, m, user
  <1> QED BY <1>1, <1>2, <1>5, <1>6, <1>7 DEF Backed

\* A settlement or a refund gives back all that the request holds.
LEMMA EndBacked ==
  ASSUME "db" \notin Faults, TypeOK, TypeOK', NEW r \in Requests, FormAt(r), LifeAt(r), CalmAt(r),
         NEW k \in Cells, OldOwn(r, k) <= reserved[k],
         (\E use \in Uses[r] : Settle(r, use)) \/ Refund(r)
  PROVE  Backed(r, k)
  <1> DEFINE gives == IF Claims(r) THEN HeldBy(r, hdl[r]) ELSE Nothing
             d == IF Claims(r) THEN HeldAt(r, k, hdl[r]) ELSE 0
  <1>1. Typed(r, k) /\ pc \in [Requests -> Places] /\ HeldAt(r, k, hdl[r]) \in Nat
    BY TypedAt, ClaimAtType DEF TypeOK
  <1>2. /\ reserved' = Less(reserved, gives) /\ pc'[r] = "done"
        /\ pc[r] \in {"running", "refused"} \/ (pc[r] = "done" /\ hdl[r].id)
    BY <1>1 DEF Settle, Refund, MayFinalize, Finish, Goto, LifeAt
  <1>3. reserved'[k] = IF reserved[k] >= d THEN reserved[k] - d ELSE 0
    <2>1. gives \in Amounts /\ reserved \in Amounts
      BY RecordTypes, ZeroType DEF TypeOK
    <2>2. gives[k] = d
      BY SpreadAt DEF Nothing
    <2> HIDE DEF gives, d
    <2> QED BY <1>2, <2>1, <2>2, FigureAt
  <1>4. pc[r] \in {"running", "refused"} => Claims(r)
    BY DEF LifeAt, CalmAt, Claims, Active, Serving, Arriving, Over, Places
  <1>5. OldOwn(r, k) <= d /\ d \in Nat
    <2>1. CASE pc[r] \in {"running", "refused"}
      <3>1. OldOwn(r, k) = HeldAt(r, k, hdl[r]) + 0
        BY <2>1 DEF OldOwn, OwnAt, HandAt, Over
      <3> QED BY <1>1, <1>4, <2>1, <3>1
    <2>2. CASE pc[r] = "done"
      BY <1>1, <2>2 DEF OldOwn, OwnAt, Over
    <2> QED BY <1>2, <2>1, <2>2
  <1>6. NewOwn(r, k) = 0
    BY <1>2 DEF NewOwn, OwnAt, Over
  <1> HIDE DEF d
  <1> QED BY <1>3, <1>5, <1>6, GiveOwn

\* An arrival that holds nothing yet.
LEMMA ArriveBacked ==
  ASSUME TypeOK, TypeOK', NEW r \in Requests, FormAt(r), NEW k \in Cells,
         RejectUser(r) \/ AdmitExempt(r) \/ LoadUser(r) \/ ListCeilings(r) \/ ReclaimOwn(r)
  PROVE  Backed(r, k)
  <1>1. pc[r] \in {"idle", "scope", "reclaim"} /\ reserved' = reserved
    BY DEF RejectUser, AdmitExempt, LoadUser, ListCeilings, ReclaimOwn
  <1>2. hdl[r].budgets = {} /\ ~hdl[r].reserved
    BY <1>1 DEF FormAt, Arriving
  <1>3. OldOwn(r, k) = 0 + 0
    BY <1>1, <1>2 DEF OldOwn, OwnAt, HeldAt, HandAt, Over
  <1> QED BY <1>1, <1>3, OwnTypes DEF Backed

\* Every step of a request.
LEMMA RequestBacked ==
  ASSUME Faults \cap {"db", "lie", "crash"} = {}, TypeOK, TypeOK', NEW r \in Requests, FormAt(r), LifeAt(r),
         CalmAt(r), NEW k \in Cells, OldOwn(r, k) <= reserved[k], Request(r)
  PROVE  Backed(r, k)
  <1>1. CASE RejectUser(r) \/ AdmitExempt(r) \/ LoadUser(r) \/ ListCeilings(r) \/ ReclaimOwn(r)
    BY <1>1, ArriveBacked
  <1>2. CASE (\E c \in Ceilings : HoldCeiling(r, c) \/ RefuseCeiling(r, c)) \/ GiveBack(r) \/ RefuseUser(r)
    BY <1>2, LoopBacked
  <1>3. CASE HoldUser(r) \/ RecordHold(r)
    BY <1>3, AdmitBacked
  <1>4. CASE \/ HoldUserUnsure(r) \/ ReleaseUnrecorded(r) \/ GrowUserFails(r) \/ GrowRowFails(r)
             \/ MoveUntold(r) \/ MoveFails(r) \/ Crash(r)
    BY <1>4 DEF HoldUserUnsure, ReleaseUnrecorded, GrowUserFails, GrowRowFails, MoveUntold, MoveFails,
                Crash, CalmAt
  <1>5. CASE \/ \E tool \in BOOLEAN : StartTopUp(r, tool)
             \/ LoadUserAgain(r) \/ RefuseGrowth(r) \/ GrowUser(r) \/ GiveBackGrowth(r) \/ GrowRow(r)
             \/ RefuseMove(r)
    BY <1>5, TopUpBacked
  <1>6. CASE GrowLost(r) \/ ReturnUserGrowth(r) \/ MoveReclaimed(r)
    <2>1. /\ pc[r] \in {"tgrow", "treturn", "running"} /\ hdl[r].id /\ ~Active(r)
      BY <1>6 DEF GrowLost, ReturnUserGrowth, MoveReclaimed, CanMove, FormAt
    <2> QED BY <2>1 DEF LifeAt, CalmAt, Active, Serving, Arriving, Over, Places
  <1>7. CASE Move(r)
    BY <1>7, MoveBacked
  <1>8. CASE (\E use \in Uses[r] : Settle(r, use)) \/ Refund(r)
    BY <1>8, EndBacked DEF CalmAt
  <1> QED BY <1>1, <1>2, <1>3, <1>4, <1>5, <1>6, <1>7, <1>8 DEF Request

\* Nothing is held but what the requests may still take off the counters.
BackInv == \A k \in Cells : reserved[k] <= Total([r \in Requests |-> OldAt(r, k)])

\* A step of a request strands nothing.
LEMMA RequestStrands ==
  ASSUME Faults \cap {"db", "lie", "crash"} = {}, TypeOK, TypeOK', LifeInv, LifeInv', FormInv,
         MatchInv, MatchInv', CalmInv, CoverInv, BackInv, doubled = Nothing,
         NEW r \in Requests, Request(r), CalmAt(r)'
  PROVE  BackInv'
  <1>1. ASSUME NEW k \in Cells
        PROVE  reserved'[k] <= Total([q \in Requests |-> NewAt(q, k)])
    <2> DEFINE f == [q \in Requests |-> OldAt(q, k)]
               g == [q \in Requests |-> NewAt(q, k)]
    <2>1. f \in [Requests -> Nat] /\ g \in [Requests -> Nat]
          /\ reserved[k] \in Nat /\ reserved'[k] \in Nat /\ doubled[k] = 0
      BY ClaimTypes DEF Nothing
    <2>2. \A q \in Requests \ {r} : g[q] = f[q]
      <3>1. \A q \in Requests \ {r} : UNCHANGED Local(q)
        BY Locality
      <3> QED BY <3>1 DEF Local, NewAt, OldAt
    <2>3. f[r] = OldAt(r, k) /\ g[r] = NewAt(r, k) /\ f[r] \in Nat /\ g[r] \in Nat
      BY <2>1
    <2>4. reserved[k] <= Total(f) /\ Total(f) <= reserved[k]
      <3>1. reserved[k] <= Total(f) /\ Total(f) <= reserved[k] + doubled[k]
        BY DEF BackInv, CoverInv
      <3> HIDE DEF f, Total
      <3> QED BY <2>1, <3>1
    <2>5. OldAt(r, k) = OldOwn(r, k)
      <3>1. hdl[r] \in Handles /\ row[r] \in Rows /\ top[r] \in TopUps /\ pc[r] \in Places
        BY DEF TypeOK
      <3>2. LifeAt(r) /\ CalmAt(r) /\ OldMatch(r, k)
        BY DEF LifeInv, CalmInv, MatchInv
      <3> QED BY <3>1, <3>2, ClaimOwn DEF LifeAt, CalmAt, OldMatch, OldAt, OldOwn
    <2>6. NewAt(r, k) = NewOwn(r, k)
      <3>1. hdl'[r] \in Handles /\ row'[r] \in Rows /\ top'[r] \in TopUps /\ pc'[r] \in Places
        BY DEF TypeOK
      <3>2. LifeAt(r)' /\ CalmAt(r)' /\ NewMatch(r, k)
        BY DEF LifeInv, MatchInv, OldMatch, NewMatch
      <3>3. /\ pc'[r] # "unsure" /\ (pc'[r] \in Over => row'[r].status # "active")
            /\ (pc'[r] \in Arriving => row'[r].status = "none" /\ ~hdl'[r].id)
            /\ (pc'[r] \in Serving /\ hdl'[r].id => row'[r].status = "active")
            /\ (pc'[r] \in Serving /\ ~hdl'[r].id => row'[r].status = "none")
        BY <3>2 DEF LifeAt, CalmAt
      <3> QED BY <3>1, <3>2, <3>3, ClaimOwn DEF NewMatch, NewAt, NewOwn
    <2>7. Backed(r, k)
      <3>1. FormAt(r) /\ LifeAt(r) /\ CalmAt(r)
        BY DEF FormInv, LifeInv, CalmInv
      <3> HIDE DEF f
      <3>2. Total(f) \in Nat /\ f[r] <= Total(f)
        BY <2>1, TotalType, PartOfTotal
      <3>3. OldOwn(r, k) <= reserved[k]
        BY <2>1, <2>3, <2>4, <2>5, <3>2
      <3> QED BY <3>1, <3>3, RequestBacked
    <2>8. reserved'[k] + f[r] <= reserved[k] + g[r]
      BY <2>3, <2>5, <2>6, <2>7 DEF Backed
    <2> HIDE DEF f, g
    <2>9. Total(g) + f[r] = Total(f) + g[r]
      BY <2>1, <2>2, TotalChange
    <2>10. Total(f) \in Nat /\ Total(g) \in Nat
      BY <2>1, TotalType
    <2>11. reserved'[k] <= Total(g)
      BY <2>1, <2>3, <2>4, <2>8, <2>9, <2>10
    <2> QED BY <2>11 DEF g
  <1> QED BY <1>1 DEF BackInv, OldAt, NewAt

\* Without an expired row there is nothing to list.
LEMMA CalmLists ==
  ASSUME expired = {}
  PROVE  \A S : Listed(S) = {}
  BY DEF Listed

\* No step expires a row or strands a hold.
LEMMA StrandStep ==
  ASSUME Faults \subseteq {"record"}, TypeOK, TypeOK', LifeInv, LifeInv', FormInv, MatchInv, MatchInv',
         CoverInv, CalmInv, BackInv, doubled = Nothing, [Next]_vars
  PROVE  CalmInv' /\ BackInv'
  <1>1. CASE UNCHANGED vars
    <2>1. CalmInv'
      BY <1>1 DEF vars, CalmInv, CalmAt
    <2> QED BY <1>1, <2>1 DEF vars, BackInv, OldAt
  <1>2. CASE \E r \in Requests : Request(r)
    <2> PICK r \in Requests : Request(r)
      BY <1>2
    <2>1. CalmAt(r)'
      <3>1. Faults \cap {"db", "lie", "crash"} = {} /\ LifeAt(r) /\ FormAt(r) /\ CalmAt(r)
        BY DEF LifeInv, FormInv, CalmInv
      <3> QED BY <3>1, RequestCalm
    <2>2. ASSUME NEW q \in Requests, q # r PROVE CalmAt(q)'
      <3>1. UNCHANGED Local(q)
        BY <2>2, Locality
      <3> QED BY <3>1 DEF Local, CalmInv, CalmAt
    <2>3. \A p \in Procs : batch'[p] = {}
      <3>1. \A p \in Procs : \A x \in batch'[p] : x \in batch[p] \/ x \in Listed(Requests)
        BY RequestLists
      <3> QED BY <3>1, CalmLists DEF CalmInv
    <2>4. expired' = expired
      BY DEF Request, RejectUser, AdmitExempt, LoadUser, ListCeilings, HoldCeiling, ReclaimOwn, Crash,
         RefuseCeiling, GiveBack, HoldUser, RefuseUser, HoldUserUnsure, ReleaseUnrecorded, RecordHold,
         StartTopUp, LoadUserAgain, GrowUser, RefuseGrowth, GiveBackGrowth, GrowUserFails, GrowRow,
         GrowRowFails, GrowLost, ReturnUserGrowth, Move, MoveUntold, MoveFails,
             MoveHolds, RefuseMove, MoveReclaimed, Settle, Refund
    <2>5. CalmInv'
      BY <2>1, <2>2, <2>3, <2>4 DEF CalmInv
    <2>6. BackInv'
      <3>1. Faults \cap {"db", "lie", "crash"} = {}
        OBVIOUS
      <3> QED BY <2>1, <3>1, RequestStrands
    <2> QED BY <2>5, <2>6
  <1>3. CASE Next /\ ~(\E r \in Requests : Request(r))
    <2>1. UNCHANGED <<pc, hdl, taken, top>>
      BY <1>3 DEF Next, Expire, Reclaim, Sweep, SweepList, SweepScan, SweepPrune, SweepFails, SweepClamp,
                  GoQuiet, EndWindow, AssignBudget
    <2>2. ASSUME NEW q \in Requests
          PROVE  row'[q] = row[q] \/ (row[q].status # "active" /\ pc[q] \in Over /\ row'[q].status = "none")
      <3>1. ~ \E p \in Procs : \E x \in batch[p] : x.r = q /\ Reclaim(p, x)
        BY DEF CalmInv
      <3> QED BY <1>3, <3>1, SweepRows DEF Terminal
    <2>3. \A q \in Requests : CalmAt(q)'
      BY <2>1, <2>2 DEF CalmInv, CalmAt
    <2>4. ~ \E r \in Requests : Expire(r)
      BY DEF Expire, CalmInv, CalmAt, Active
    <2>5. ~ \E p \in Procs : \E x \in batch[p] : Reclaim(p, x)
      BY DEF CalmInv
    <2>6. expired' = {}
      BY <1>3, <2>4, <2>5 DEF Next, Sweep, SweepList, SweepScan, SweepPrune, SweepFails, SweepClamp,
                  GoQuiet, EndWindow, AssignBudget, CalmInv
    <2>7. ASSUME NEW p \in Procs PROVE batch'[p] = {}
      <3>1. batch \in [Procs -> SUBSET [r : Requests, user : Amt]] /\ expired = {} /\ batch[p] = {}
        BY DEF TypeOK, CalmInv
      <3>2. batch' = batch \/ batch' = [batch EXCEPT ![Sweeper] = Listed(Requests)]
            \/ batch' = [batch EXCEPT ![Sweeper] = {}]
        BY <1>3, <2>4, <2>5 DEF Next, Sweep, SweepList, SweepScan, SweepPrune, SweepFails, SweepClamp,
                  GoQuiet, EndWindow, AssignBudget, sweepVars
      <3> QED BY <3>1, <3>2, CalmLists
    <2>8. ASSUME NEW k \in Cells
          PROVE  reserved'[k] <= Total([q \in Requests |-> NewAt(q, k)])
      <3>1. ASSUME NEW q \in Requests PROVE NewAt(q, k) = OldAt(q, k)
        <4>1. CASE row'[q] = row[q]
          BY <2>1, <4>1 DEF NewAt, OldAt
        <4>2. CASE row[q].status # "active" /\ pc[q] \in Over /\ row'[q].status = "none"
          BY <2>1, <4>2 DEF NewAt, OldAt, ClaimAt, RowAt
        <4> QED BY <2>2, <4>1, <4>2
      <3>2. [q \in Requests |-> NewAt(q, k)] = [q \in Requests |-> OldAt(q, k)]
        BY <3>1
      <3>3. reserved'[k] <= reserved[k] /\ reserved[k] \in Nat /\ reserved'[k] \in Nat
        <4>1. reserved[k] \in Nat /\ reserved'[k] \in Nat
          BY DEF TypeOK, Amounts
        <4>2. CASE \E c \in Counters : SweepClamp(c)
          <5>1. PICK c \in Counters : SweepClamp(c)
            BY <4>2
          <5>2. \/ reserved' = reserved
                \/ reserved'[k] = IF k[1] = c /\ reserved[k] > RecordedOn(k) THEN RecordedOn(k)
                                  ELSE reserved[k]
            BY <5>1 DEF SweepClamp
          <5> QED BY <4>1, <5>2
        <4>3. CASE ~ \E c \in Counters : SweepClamp(c)
          <5>1. reserved' = reserved
            BY <1>3, <2>4, <2>5, <4>3 DEF Next, Sweep, SweepList, SweepScan, SweepPrune, SweepFails,
                  GoQuiet, EndWindow, AssignBudget
          <5> QED BY <4>1, <5>1
        <4> QED BY <4>2, <4>3
      <3>4. reserved[k] <= Total([q \in Requests |-> OldAt(q, k)])
        BY DEF BackInv
      <3>5. Total([q \in Requests |-> OldAt(q, k)]) \in Nat
        BY ClaimTypes, TotalType
      <3> QED BY <3>2, <3>3, <3>4, <3>5
    <2>9. BackInv'
      BY <2>8 DEF BackInv, OldAt, NewAt
    <2> QED BY <2>3, <2>6, <2>7, <2>9 DEF CalmInv
  <1> QED BY <1>1, <1>2, <1>3

\* When requests end by a settlement or a refund and at worst the ledger row of a
\* ceilings-only hold is lost, no counter carries anything that no request can
\* give back: every path of admission, refusal, top-up and move accounts for
\* every hold it takes.
THEOREM StrandedCorrect ==
  ASSUME Faults \subseteq {"record"}
  PROVE  Spec => []NothingStranded
  <1> DEFINE Inv == /\ FormInv /\ ListInv /\ CoverInv /\ QuietInv
                    /\ MatchInv /\ CalmInv /\ BackInv
  <1>1. Init => Inv
    <2> SUFFICES ASSUME Init PROVE CalmInv /\ BackInv
      BY HoldsInit, MatchInit
    <2>1. CalmInv
      BY DEF Init, CalmInv, CalmAt, NoRow, Over
    <2>2. ASSUME NEW k \in Cells
          PROVE  reserved[k] <= Total([r \in Requests |-> OldAt(r, k)])
      <3>1. \A r \in Requests : OldAt(r, k) = 0
        BY DEF Init, OldAt, ClaimAt, RowAt, HeldAt, HandAt, SetAt, NoHandle, NoRow, Over
      <3>2. [r \in Requests |-> OldAt(r, k)] = [r \in Requests |-> 0]
        BY <3>1
      <3>3. Total([r \in Requests |-> 0]) \in Nat
        BY TotalType
      <3>4. reserved[k] = 0
        BY DEF Init, Nothing
      <3> QED BY <3>2, <3>3, <3>4
    <2>3. BackInv
      BY <2>2 DEF BackInv
    <2> QED BY <2>1, <2>3
  <1>2. TypeOK /\ TypeOK' /\ LifeInv /\ LifeInv' /\ doubled = Nothing /\ Inv /\ [Next]_vars => Inv'
    <2> SUFFICES ASSUME TypeOK, TypeOK', LifeInv, LifeInv', doubled = Nothing, Inv, [Next]_vars
                 PROVE  Inv'
      OBVIOUS
    <2>1. FormInv' /\ ListInv' /\ CoverInv' /\ QuietInv'
      BY HoldsStep
    <2>2. MatchInv'
      BY MatchStep
    <2>3. CalmInv' /\ BackInv'
      BY <2>2, StrandStep
    <2> QED BY <2>1, <2>2, <2>3
  <1>3. TypeOK /\ Inv => NothingStranded
    <2> SUFFICES ASSUME TypeOK, BackInv, NEW k \in Cells
                 PROVE  reserved[k] <= ClaimedOn(k)
      BY DEF NothingStranded
    <2>1. [r \in Requests |-> Claim(r)[k]] = [r \in Requests |-> OldAt(r, k)]
      BY ClaimIs
    <2> QED BY <2>1 DEF ClaimedOn, BackInv
  <1> HIDE DEF Inv
  <1>4. "lie" \notin Faults
    OBVIOUS
  <1>5. Spec => []LifeInv
    BY <1>4, LifeCorrect
  <1>6. Spec => [](doubled = Nothing)
    <2>1. "db" \notin Faults
      OBVIOUS
    <2> QED BY <2>1, TakenOnce
  <1> QED BY <1>1, <1>2, <1>3, <1>5, <1>6, TypeCorrect, PTL DEF Spec

=============================================================================
