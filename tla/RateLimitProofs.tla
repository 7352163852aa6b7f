-------------------------- MODULE RateLimitProofs --------------------------
(***************************************************************************)
(* Proofs about RateLimit, for every set of requests, processes and rules, *)
(* every plan, limit and price, and any number of faults.                  *)
(*                                                                         *)
(* The argument: a request has nothing yet in a window it is still to be   *)
(* counted in (FreshInv), so a hit never overwrites an entry and the       *)
(* running total stays exact (StoreInv).  An estimate costs what it was    *)
(* admitted for until the one call that settles it (EstInv, CallInv), so a *)
(* settlement never raises what a window admitted.  What is counted is     *)
(* named by the request, by a call in progress or by what a fault lost     *)
(* (SlotInv, CountInv, TokenInv), and where the request is says which of   *)
(* these are empty (PlaceInv).  The steps of others only let entries fade. *)
(***************************************************************************)
EXTENDS RateLimit, FiniteSetTheorems, TLAPS

-----------------------------------------------------------------------------
(* Sums over the requests, by the units they count.                        *)

Unit(f, r) == {r} \X (1..f[r])
Units(f)   == UNION {Unit(f, r) : r \in Requests}

\* The units of finitely many requests are finitely many.
LEMMA UnitsFinite ==
  ASSUME NEW f \in [Requests -> Nat]
  PROVE  /\ IsFiniteSet(Units(f))
         /\ \A r \in Requests : IsFiniteSet(Unit(f, r)) /\ Cardinality(Unit(f, r)) = f[r]
  <1>1. \A r \in Requests : IsFiniteSet(Unit(f, r)) /\ Cardinality(Unit(f, r)) = f[r]
    <2> SUFFICES ASSUME NEW r \in Requests
                 PROVE  IsFiniteSet(Unit(f, r)) /\ Cardinality(Unit(f, r)) = f[r]
      OBVIOUS
    <2>1. IsFiniteSet({r}) /\ Cardinality({r}) = 1
      BY FS_Singleton
    <2>2. IsFiniteSet(1..f[r]) /\ Cardinality(1..f[r]) = f[r]
      BY FS_Interval
    <2>3. IsFiniteSet({r} \X (1..f[r])) /\ Cardinality({r} \X (1..f[r])) = 1 * f[r]
      BY <2>1, <2>2, FS_Product
    <2> QED BY <2>3 DEF Unit
  <1>2. IsFiniteSet({Unit(f, r) : r \in Requests})
    <2> DEFINE T == {Unit(f, r) : r \in Requests}
               g == [r \in Requests |-> Unit(f, r)]
    <2>1. g \in Surjection(Requests, T)
      BY DEF Surjection
    <2> QED BY <2>1, FS_Surjection, RateAssumption
  <1> QED BY <1>1, <1>2, FS_UNION DEF Units

\* A sum is a natural number, the number of its units.
LEMMA TotalType ==
  ASSUME NEW f \in [Requests -> Nat]
  PROVE  Total(f) \in Nat /\ Total(f) = Cardinality(Units(f))
  BY UnitsFinite, FS_CardinalityType DEF Total, Units, Unit

\* The sum of nothing is zero.
LEMMA TotalZero ==
  ASSUME NEW f \in [Requests -> Nat], \A r \in Requests : f[r] = 0
  PROVE  Total(f) = 0
  <1>1. \A r \in Requests : Unit(f, r) = {}
    BY DEF Unit
  <1>2. Units(f) = {}
    BY <1>1 DEF Units
  <1> QED BY <1>2, TotalType, FS_EmptySet

\* Parts no two of which count the same request add up.
LEMMA TotalApart ==
  ASSUME NEW f \in [Requests -> Nat], NEW g \in [Requests -> Nat], NEW h \in [Requests -> Nat],
         \A r \in Requests : (g[r] = 0 /\ h[r] = f[r]) \/ (h[r] = 0 /\ g[r] = f[r])
  PROVE  Total(f) = Total(g) + Total(h)
  <1>1. \A r \in Requests : /\ Unit(f, r) = Unit(g, r) \cup Unit(h, r)
                            /\ Unit(g, r) \cap Unit(h, r) = {}
    BY DEF Unit
  <1>2. Units(f) = Units(g) \cup Units(h)
    BY <1>1 DEF Units
  <1>3. Units(g) \cap Units(h) = {}
    <2>1. \A r, q \in Requests : r # q => Unit(g, r) \cap Unit(h, q) = {}
      BY DEF Unit
    <2> QED BY <1>1, <2>1 DEF Units
  <1>4. IsFiniteSet(Units(g)) /\ IsFiniteSet(Units(h))
    BY UnitsFinite
  <1>5. Cardinality(Units(g) \cap Units(h)) = 0
    BY <1>3, FS_EmptySet
  <1>6. Cardinality(Units(g) \cup Units(h)) =
          Cardinality(Units(g)) + Cardinality(Units(h)) - Cardinality(Units(g) \cap Units(h))
    BY <1>4, FS_Union
  <1> QED BY <1>2, <1>5, <1>6, TotalType

\* When one request's part changes, the sum changes by as much.
LEMMA TotalChange ==
  ASSUME NEW f \in [Requests -> Nat], NEW g \in [Requests -> Nat],
         NEW r \in Requests, \A q \in Requests \ {r} : g[q] = f[q]
  PROVE  Total(g) + f[r] = Total(f) + g[r]
  <1> DEFINE rest == [f EXCEPT ![r] = 0]
             Only(n) == [q \in Requests |-> IF q = r THEN n ELSE 0]
  <1>0. /\ rest \in [Requests -> Nat] /\ Only(f[r]) \in [Requests -> Nat] /\ Only(g[r]) \in [Requests -> Nat]
        /\ \A q \in Requests : \/ Only(f[r])[q] = 0 /\ rest[q] = f[q]
                               \/ rest[q] = 0 /\ Only(f[r])[q] = f[q]
        /\ \A q \in Requests : \/ Only(g[r])[q] = 0 /\ rest[q] = g[q]
                               \/ rest[q] = 0 /\ Only(g[r])[q] = g[q]
    OBVIOUS
  <1>1. Total(f) = Total(Only(f[r])) + Total(rest)
    <2> HIDE DEF rest, Only
    <2> QED BY <1>0, TotalApart
  <1>2. Total(g) = Total(Only(g[r])) + Total(rest)
    <2> HIDE DEF rest, Only
    <2> QED BY <1>0, TotalApart
  <1>3. \A n \in Nat : Total(Only(n)) = n
    <2> SUFFICES ASSUME NEW n \in Nat PROVE Total(Only(n)) = n
      OBVIOUS
    <2>1. Only(n) \in [Requests -> Nat]
      OBVIOUS
    <2>2. Units(Only(n)) = Unit(Only(n), r)
      <3>1. \A q \in Requests \ {r} : Unit(Only(n), q) = {}
        BY DEF Unit
      <3> HIDE DEF Only
      <3> QED BY <3>1 DEF Units
    <2>3. Cardinality(Unit(Only(n), r)) = n
      BY <2>1, UnitsFinite
    <2> QED BY <2>1, <2>2, <2>3, TotalType
  <1>4. Total(rest) \in Nat
    BY TotalType
  <1> HIDE DEF rest, Only
  <1> QED BY <1>1, <1>2, <1>3, <1>4

\* A sum of larger parts is larger.
LEMMA TotalMonotone ==
  ASSUME NEW f \in [Requests -> Nat], NEW g \in [Requests -> Nat],
         \A q \in Requests : f[q] <= g[q]
  PROVE  Total(f) <= Total(g)
  <1>1. \A q \in Requests : Unit(f, q) \subseteq Unit(g, q)
    BY DEF Unit
  <1>2. Units(f) \subseteq Units(g)
    BY <1>1 DEF Units
  <1> QED BY <1>2, UnitsFinite, FS_Subset, TotalType

-----------------------------------------------------------------------------
(* The keys.                                                               *)

\* A key is a store, a rule and a limit the rule sets; its window or its slots.
LEMMA KeyParts ==
  /\ \A x \in WindowKeys : x[2] \in Rules /\ x[3] \in {"rpm", "tpm"} /\ x[3] \in Dims[x[2]] /\ x[1] \in Stores
  /\ \A x \in SlotKeys : x[2] \in Rules /\ x[3] = "slot" /\ x[1] \in Stores
  /\ WindowKeys \cap SlotKeys = {}
  /\ Keys = WindowKeys \cup SlotKeys
  BY DEF WindowKeys, SlotKeys, Keys

\* The key of a limit of a rule in a store.
LEMMA KeyAt ==
  ASSUME NEW s \in Stores, NEW k \in Rules, NEW d \in Dims[k]
  PROVE  /\ <<s, k, d>> \in Keys
         /\ <<s, k, d>> \in SlotKeys <=> d = "slot"
         /\ <<s, k, d>> \in WindowKeys <=> d # "slot"
         /\ <<s, k, d>>[1] = s /\ <<s, k, d>>[2] = k /\ <<s, k, d>>[3] = d
  <1>1. d \in Dimensions
    BY RateAssumption
  <1> QED BY <1>1 DEF WindowKeys, SlotKeys, Keys, Dimensions

\* The process of a request and Redis are stores.
LEMMA StoreOf ==
  ASSUME NEW r \in Requests
  PROVE  Redis \in Stores /\ ProcOf[r] \in Procs /\ ProcOf[r] \in Stores /\ ProcOf[r] # Redis
  BY RateAssumption DEF Stores

\* What a hit costs is at least one.
LEMMA CostType ==
  ASSUME NEW x, NEW r \in Requests
  PROVE  Cost(x, r) \in Nat \ {0}
  BY RateAssumption DEF Cost

-----------------------------------------------------------------------------
(* The windows, one at a time.                                             *)

\* What the stored entries L of a window cost, and what those in it count for.
Costs(L) == [q \in Requests |-> IF L[q].age # Gone THEN L[q].cost ELSE 0]
Shares(x, L) == [q \in Requests |-> IF L[q].age < Window THEN AtMost(L[q].cost, Cost(x, q)) ELSE 0]
ExactAt(x, L, t) == t = Total(Costs(L)) /\ Total(Shares(x, L)) <= Limit[x[2]][x[3]]
Entries == {L \in [Requests -> Entry] : \A q \in Requests : L[q].age = Gone => L[q] = NoEntry}

\* WindowsExact is about each window, before and after a step.
LEMMA ExactIs ==
  /\ WindowsExact <=> \A x \in WindowKeys : ExactAt(x, log[x], total[x])
  /\ WindowsExact' <=> \A x \in WindowKeys : ExactAt(x, log'[x], total'[x])
  <1>1. \A x \in WindowKeys : CostOf(x, Stored(x)) = Total(Costs(log[x]))
    <2> SUFFICES ASSUME NEW x \in WindowKeys
                 PROVE  [q \in Requests |-> IF q \in Stored(x) THEN log[x][q].cost ELSE 0] = Costs(log[x])
      BY DEF CostOf
    <2> QED BY DEF Costs, Stored
  <1>2. \A x \in WindowKeys : CostOf(x, Stored(x))' = Total(Costs(log'[x]))
    <2> SUFFICES ASSUME NEW x \in WindowKeys
                 PROVE  [q \in Requests |-> IF q \in Stored(x)' THEN log'[x][q].cost ELSE 0] = Costs(log'[x])
      BY DEF CostOf
    <2> QED BY DEF Costs, Stored
  <1>3. \A x \in WindowKeys :
          [q \in Requests |-> IF q \in Live(x) THEN AtMost(log[x][q].cost, Cost(x, q)) ELSE 0] = Shares(x, log[x])
    BY DEF Shares, Live
  <1>4. \A x \in WindowKeys :
          [q \in Requests |-> IF q \in Live(x)' THEN AtMost(log'[x][q].cost, Cost(x, q)) ELSE 0] = Shares(x, log'[x])
    BY DEF Shares, Live
  <1>5. WindowsExact <=> \A x \in WindowKeys : ExactAt(x, log[x], total[x])
    BY <1>1, <1>3 DEF WindowsExact, ExactAt
  <1>6. WindowsExact' <=> \A x \in WindowKeys : ExactAt(x, log'[x], total'[x])
    BY <1>2, <1>4 DEF WindowsExact, ExactAt
  <1> QED BY <1>5, <1>6

\* The numbers that are summed are numbers.
LEMMA ExactTypes ==
  ASSUME NEW x \in WindowKeys, NEW L \in [Requests -> Entry]
  PROVE  /\ Costs(L) \in [Requests -> Nat] /\ Shares(x, L) \in [Requests -> Nat]
         /\ Total(Costs(L)) \in Nat /\ Total(Shares(x, L)) \in Nat
         /\ Limit[x[2]][x[3]] \in Nat
  <1>1. Costs(L) \in [Requests -> Nat] /\ Shares(x, L) \in [Requests -> Nat]
    BY CostType DEF Costs, Shares, AtMost, Entry
  <1>2. Limit[x[2]][x[3]] \in Nat
    BY KeyParts, RateAssumption DEF Dimensions
  <1> QED BY <1>1, <1>2, TotalType

\* An empty window is exact.
LEMMA NoneExact ==
  ASSUME NEW x \in WindowKeys
  PROVE  [q \in Requests |-> NoEntry] \in Entries /\ ExactAt(x, [q \in Requests |-> NoEntry], 0)
  <1> DEFINE L == [q \in Requests |-> NoEntry]
  <1>1. L \in Entries /\ L \in [Requests -> Entry]
    BY RateAssumption DEF Entries, Entry, NoEntry, Gone
  <1>2. \A q \in Requests : Costs(L)[q] = 0 /\ Shares(x, L)[q] = 0
    BY RateAssumption DEF Costs, Shares, NoEntry, Gone
  <1>3. Total(Costs(L)) = 0 /\ Total(Shares(x, L)) = 0
    <2> HIDE DEF L
    <2> QED BY <1>1, <1>2, ExactTypes, TotalZero
  <1> QED BY <1>1, <1>3, ExactTypes DEF ExactAt

\* Evicting subtracts what leaves; an admission then adds what it costs, under
\* the limit.
LEMMA HitExact ==
  ASSUME NEW x \in WindowKeys, NEW L \in Entries, NEW t \in Nat, ExactAt(x, L, t),
         NEW r \in Requests, L[r] = NoEntry,
         NEW K, K = [q \in Requests |-> IF L[q].age >= Window THEN NoEntry ELSE L[q]],
         NEW N, N = [K EXCEPT ![r] = [age |-> 0, cost |-> Cost(x, r)]],
         NEW f, f = Total([q \in Requests |->
                             IF q \in {p \in Requests : L[p].age = Window} THEN L[q].cost ELSE 0])
  PROVE  /\ K \in Entries /\ t - f \in Nat /\ ExactAt(x, K, t - f)
         /\ N \in Entries
         /\ t - f + Cost(x, r) <= Limit[x[2]][x[3]] => ExactAt(x, N, t - f + Cost(x, r))
  <1> DEFINE F == [q \in Requests |-> IF q \in {p \in Requests : L[p].age = Window} THEN L[q].cost ELSE 0]
  <1>1. L \in [Requests -> Entry] /\ \A q \in Requests : L[q].age \in 0..Gone /\ L[q].cost \in Nat
    BY DEF Entries, Entry
  <1>2. K \in Entries /\ K \in [Requests -> Entry] /\ K[r] = NoEntry
    BY <1>1, RateAssumption DEF Entries, Entry, NoEntry, Gone
  <1>3. /\ N \in Entries /\ N \in [Requests -> Entry]
        /\ N[r].age = 0 /\ N[r].cost = Cost(x, r)
        /\ \A q \in Requests \ {r} : N[q] = K[q]
    <2>1. [age |-> 0, cost |-> Cost(x, r)] \in Entry /\ Gone # 0
      BY CostType, RateAssumption DEF Entry, Gone
    <2>2. N \in [Requests -> Entry] /\ N[r] = [age |-> 0, cost |-> Cost(x, r)]
      BY <1>2, <2>1
    <2>3. \A q \in Requests \ {r} : N[q] = K[q]
      BY <1>2
    <2>4. \A q \in Requests : N[q].age = Gone => N[q] = NoEntry
      BY <1>2, <2>1, <2>2, <2>3 DEF Entries
    <2> QED BY <2>2, <2>3, <2>4 DEF Entries
  <1>4. F \in [Requests -> Nat] /\ f = Total(F)
    BY <1>1
  <1>5. \A q \in Requests : \/ F[q] = 0 /\ Costs(K)[q] = Costs(L)[q]
                            \/ Costs(K)[q] = 0 /\ F[q] = Costs(L)[q]
    <2> SUFFICES ASSUME NEW q \in Requests
                 PROVE  \/ F[q] = 0 /\ Costs(K)[q] = Costs(L)[q]
                        \/ Costs(K)[q] = 0 /\ F[q] = Costs(L)[q]
      OBVIOUS
    <2>1. K[q] = IF L[q].age >= Window THEN NoEntry ELSE L[q]
      OBVIOUS
    <2>2. F[q] = IF L[q].age = Window THEN L[q].cost ELSE 0
      OBVIOUS
    <2>3. /\ Costs(K)[q] = IF K[q].age # Gone THEN K[q].cost ELSE 0
          /\ Costs(L)[q] = IF L[q].age # Gone THEN L[q].cost ELSE 0
      BY DEF Costs
    <2>4. NoEntry.age = Gone /\ NoEntry.cost = 0 /\ Gone = Window + 1 /\ Window \in Nat
      BY RateAssumption DEF NoEntry, Gone
    <2>5. L[q].age \in 0..Gone /\ L[q].cost \in Nat
      BY <1>1
    <2>6. CASE L[q].age < Window
      BY <2>1, <2>2, <2>3, <2>4, <2>5, <2>6
    <2>7. CASE L[q].age = Window
      BY <2>1, <2>2, <2>3, <2>4, <2>5, <2>7
    <2>8. CASE L[q].age = Gone
      BY <2>1, <2>2, <2>3, <2>4, <2>5, <2>8
    <2> QED BY <2>4, <2>5, <2>6, <2>7, <2>8
  <1>6. Total(Costs(L)) = Total(F) + Total(Costs(K))
    <2> HIDE DEF F
    <2> QED BY <1>1, <1>2, <1>4, <1>5, ExactTypes, TotalApart
  <1>7. t - f = Total(Costs(K)) /\ t - f \in Nat
    <2> HIDE DEF F
    <2> QED BY <1>2, <1>4, <1>6, ExactTypes, TotalType DEF ExactAt
  <1>8. Shares(x, K) = Shares(x, L)
    BY <1>1, RateAssumption DEF Shares, NoEntry, Gone
  <1>9. ExactAt(x, K, t - f)
    BY <1>7, <1>8 DEF ExactAt
  <1>10. Total(Costs(N)) = t - f + Cost(x, r)
    <2>1. Costs(N)[r] = Cost(x, r) /\ Costs(K)[r] = 0 /\ \A q \in Requests \ {r} : Costs(N)[q] = Costs(K)[q]
      BY <1>2, <1>3, RateAssumption DEF Costs, NoEntry, Gone
    <2>2. Costs(N) \in [Requests -> Nat] /\ Costs(K) \in [Requests -> Nat] /\ Total(Costs(N)) \in Nat
      BY <1>2, <1>3, ExactTypes
    <2>3. Total(Costs(N)) + Costs(K)[r] = Total(Costs(K)) + Costs(N)[r]
      BY <2>1, <2>2, TotalChange
    <2> QED BY <1>7, <2>1, <2>2, <2>3
  <1>11. Total(Shares(x, N)) <= Total(Costs(N))
    <2>1. \A q \in Requests : Shares(x, N)[q] <= Costs(N)[q]
      BY <1>3, CostType, RateAssumption DEF Shares, Costs, AtMost, Gone, Entry
    <2> QED BY <1>3, <2>1, ExactTypes, TotalMonotone
  <1>12. t - f + Cost(x, r) <= Limit[x[2]][x[3]] => ExactAt(x, N, t - f + Cost(x, r))
    BY <1>3, <1>7, <1>10, <1>11, CostType, ExactTypes DEF ExactAt
  <1> QED BY <1>2, <1>3, <1>7, <1>9, <1>12

\* A settlement changes the total by what it changes its entry by; the first one
\* of an entry, or one that gives it back, leaves the others the room they had.
LEMMA SettleExact ==
  ASSUME NEW x \in WindowKeys, NEW L \in Entries, NEW t \in Nat, ExactAt(x, L, t),
         NEW r \in Requests, L[r].age # Gone, NEW c \in Nat, c = 0 \/ L[r].cost = Cost(x, r),
         NEW N, N = [L EXCEPT ![r].cost = c]
  PROVE  /\ N \in Entries /\ t + c - L[r].cost \in Nat
         /\ ExactAt(x, N, t + c - L[r].cost)
  <1>1. L \in [Requests -> Entry] /\ \A q \in Requests : L[q].age \in 0..Gone /\ L[q].cost \in Nat
    BY DEF Entries, Entry
  <1>2. N \in [Requests -> Entry] /\ N[r].age = L[r].age /\ N[r].cost = c
        /\ \A q \in Requests \ {r} : N[q] = L[q]
    BY <1>1 DEF Entry
  <1>3. N \in Entries
    BY <1>2 DEF Entries
  <1>4. Total(Costs(N)) + L[r].cost = Total(Costs(L)) + c
    <2>1. Costs(N)[r] = c /\ Costs(L)[r] = L[r].cost /\ \A q \in Requests \ {r} : Costs(N)[q] = Costs(L)[q]
      BY <1>2 DEF Costs
    <2>2. Costs(N) \in [Requests -> Nat] /\ Costs(L) \in [Requests -> Nat]
      BY <1>1, <1>2, ExactTypes
    <2>3. Total(Costs(N)) + Costs(L)[r] = Total(Costs(L)) + Costs(N)[r]
      BY <2>1, <2>2, TotalChange
    <2> QED BY <2>1, <2>3
  <1>5. Total(Costs(N)) = t + c - L[r].cost /\ t + c - L[r].cost \in Nat
    <2>1. Total(Costs(N)) \in Nat /\ L[r].cost \in Nat /\ Total(Costs(L)) = t
      BY <1>1, <1>2, ExactTypes DEF ExactAt
    <2> QED BY <1>4, <2>1
  <1>6. Total(Shares(x, N)) <= Total(Shares(x, L))
    <2>1. \A q \in Requests \ {r} : Shares(x, N)[q] = Shares(x, L)[q]
      BY <1>2 DEF Shares
    <2>2. Shares(x, N)[r] <= Shares(x, L)[r]
      BY <1>1, <1>2, CostType DEF Shares, AtMost
    <2>3. Shares(x, N) \in [Requests -> Nat] /\ Shares(x, L) \in [Requests -> Nat]
      BY <1>1, <1>2, ExactTypes
    <2>4. \A q \in Requests : Shares(x, N)[q] <= Shares(x, L)[q]
      <3> SUFFICES ASSUME NEW q \in Requests PROVE Shares(x, N)[q] <= Shares(x, L)[q]
        OBVIOUS
      <3>1. CASE q = r
        BY <2>2, <3>1
      <3>2. CASE q # r
        <4>1. Shares(x, N)[q] = Shares(x, L)[q]
          BY <2>1, <3>2
        <4>2. Shares(x, L)[q] \in Nat
          BY <2>3
        <4> QED BY <4>1, <4>2
      <3> QED BY <3>1, <3>2
    <2> QED BY <2>3, <2>4, TotalMonotone
  <1>7. /\ Total(Shares(x, N)) \in Nat /\ Total(Shares(x, L)) \in Nat /\ Limit[x[2]][x[3]] \in Nat
        /\ Total(Shares(x, L)) <= Limit[x[2]][x[3]]
    BY <1>1, <1>2, ExactTypes DEF ExactAt
  <1> QED BY <1>3, <1>5, <1>6, <1>7 DEF ExactAt

\* As time passes entries leave the window and stay stored.
LEMMA AgeExact ==
  ASSUME NEW x \in WindowKeys, NEW L \in Entries, NEW t \in Nat, ExactAt(x, L, t),
         NEW N, N = [q \in Requests |-> IF L[q].age < Window THEN [L[q] EXCEPT !.age = @ + 1] ELSE L[q]]
  PROVE  N \in Entries /\ ExactAt(x, N, t)
  <1>1. L \in [Requests -> Entry] /\ \A q \in Requests : L[q].age \in 0..Gone /\ L[q].cost \in Nat
    BY DEF Entries, Entry
  <1>2. \A q \in Requests : /\ N[q] \in Entry /\ N[q].cost = L[q].cost /\ N[q].age >= L[q].age
                            /\ N[q].age = Gone <=> L[q].age = Gone
                            /\ N[q].age = Gone => N[q] = L[q]
    BY <1>1, RateAssumption DEF Entry, Gone
  <1>3. N \in [Requests -> Entry] /\ N \in Entries
    BY <1>2 DEF Entries
  <1>4. Costs(N) = Costs(L)
    BY <1>2 DEF Costs
  <1>5. \A q \in Requests : Shares(x, N)[q] <= Shares(x, L)[q]
    BY <1>1, <1>2, CostType, RateAssumption DEF Shares, AtMost, Entry, Gone
  <1>6. Total(Shares(x, N)) <= Total(Shares(x, L))
    BY <1>1, <1>3, <1>5, ExactTypes, TotalMonotone
  <1> QED BY <1>1, <1>3, <1>4, <1>6, ExactTypes DEF ExactAt

-----------------------------------------------------------------------------
(* The inductive invariant: of the windows, and of one request.            *)

\* A key whose rule the request has not begun to count, or whose turn in the
\* rule is still to come.
Rank == [rpm |-> 1, tpm |-> 2, slot |-> 3]
Ahead(r, x) ==
  \/ Per[x[2]] = "own" /\ pc[r] = "new"
  \/ Per[x[2]] = "shared" /\ pc[r] \in {"new", "own"}
  \/ Per[x[2]] = "model" /\ Names[x[2]] \cap tried[r] = {}
  \/ task[r][x[2]] \in Dimensions /\ Rank[task[r][x[2]]] <= Rank[x[3]]

\* A request has nothing in a window it has yet to be counted in, so no hit
\* overwrites an entry.
FreshInv(r) == \A x \in WindowKeys : Ahead(r, x) => log[x][r] = NoEntry

\* The tasks of a phase count limits that their rules set, of the rules of
\* that phase; those of an attempt are of rules that name a model it tried.
TaskInv(r) ==
  \A k \in Rules :
    /\ task[r][k] \in Dims[k] \union {"done", "over"}
    /\ task[r][k] \in Dimensions /\ pc[r] \in Counting =>
         Per[k] = IF pc[r] = "attempting" THEN "model" ELSE pc[r]
    /\ task[r][k] \in Dimensions /\ pc[r] = "attempting" => Names[k] \cap tried[r] # {}

\* Where a request is says what it holds, what it still has to call and whether
\* it was settled.
Before == {"new", "own", "shared", "admitted", "refusing", "refused"}
Sent == {"walking", "attempting", "attempt", "unadmitting", "dropping", "settling", "settled"}
PlaceInv(r) ==
  /\ pc[r] \notin Calling => todo[r] = {}
  /\ pc[r] \in Before => ~handed[r] /\ held[r]["attempt"] = NoHold /\ bill[r] = Unsettled
  /\ pc[r] \in Sent => handed[r]
  /\ pc[r] \in {"refusing", "refused"} => held[r]["admission"] = NoHold
  /\ pc[r] \in {"walking", "unadmitting", "dropping", "aborting"} => held[r]["attempt"] = NoHold
  /\ pc[r] = "refusing" => \A c \in todo[r] : c.cost = 0
  /\ pc[r] \in {"releasing", "closed"} => Leases(r) = {}
  /\ bill[r] # Unsettled => /\ Estimates(r) = {}
                            /\ pc[r] \in {"settling", "settled", "ended", "closing", "releasing", "closed"}
                            /\ ~handed[r] => pc[r] \in {"closing", "releasing", "closed"}

\* The holds of admission and of an attempt name keys of different rules, and an
\* estimate is an entry.
PartInv(r) ==
  /\ \A x \in held[r]["admission"].entries : Per[x[2]] # "model"
  /\ \A x \in held[r]["attempt"].entries : Per[x[2]] = "model"
  /\ \A h \in Parts : held[r][h].estimates \subseteq held[r][h].entries

\* What an entry may cost once it is no estimate any more: what the request was
\* settled on, or nothing.
GoodCost(r, x, cost) ==
  IF bill[r] = Unsettled
  THEN cost = 0 /\ (Per[x[2]] = "model" \/ (~handed[r] /\ pc[r] \in {"refusing", "refused", "ended"}))
  ELSE cost = bill[r] \/ (Per[x[2]] = "model" /\ cost = 0)

\* An estimate is settled once, and for good: an entry that an estimate names,
\* or a call that charges it, costs what it was admitted for.
Fresh(x, r) == log[x][r].age # Gone => log[x][r].cost = Cost(x, r)
EstInv(r) == \A x \in Estimates(r) : Fresh(x, r)
CallInv(r) ==
  \A c \in todo[r] : c.key \in WindowKeys =>
    /\ c.key \notin Estimates(r)
    /\ c.cost = 0 \/ Fresh(c.key, r)
    /\ GoodCost(r, c.key, c.cost)
    /\ \A d \in todo[r] : d.key = c.key => d = c

\* A token entry is still to be settled, or a call is about to settle it, or it
\* says what the request was settled on.
TokenAt(r, x) ==
  \/ x \in orphan[r]
  \/ x \in Estimates(r)
  \/ \E c \in todo[r] : c.key = x /\ GoodCost(r, x, c.cost)
  \/ GoodCost(r, x, log[x][r].cost)
TokenInv(r) ==
  ~(pc[r] = "closed" /\ bill[r] = Unsettled) =>
    \A x \in WindowKeys : x[3] = "tpm" /\ log[x][r].age # Gone => TokenAt(r, x)

\* What is counted is named by the request or lost: slots always, entries as
\* long as the request can be refused.
SlotInv(r) == \A x \in SlotKeys : lease[x][r] > 0 => x \in Named(r) \union orphan[r]
CountInv(r) ==
  pc[r] \in Before =>
    \A x \in WindowKeys : log[x][r].cost > 0 => x \in Named(r) \union orphan[r]

RequestInv(r) ==
  /\ FreshInv(r) /\ TaskInv(r) /\ PlaceInv(r) /\ PartInv(r) /\ EstInv(r)
  /\ CallInv(r) /\ TokenInv(r) /\ SlotInv(r) /\ CountInv(r)

-----------------------------------------------------------------------------
(* The stores.                                                             *)

StoreInv ==
  /\ log \in [WindowKeys -> Entries]
  /\ total \in [WindowKeys -> Nat]
  /\ lease \in [SlotKeys -> [Requests -> 0..LeaseSec]]
  /\ \A x \in WindowKeys : ExactAt(x, log[x], total[x])
  /\ SlotsBounded

\* Fewer leases are within the limit, too.
LEMMA FewerSlots ==
  ASSUME NEW S \in SUBSET Requests, NEW T \in SUBSET S, NEW n \in Nat, Cardinality(S) <= n
  PROVE  Cardinality(T) <= n
  <1>1. IsFiniteSet(S)
    BY RateAssumption, FS_Subset
  <1>2. /\ IsFiniteSet(T) /\ Cardinality(T) <= Cardinality(S)
        /\ Cardinality(T) \in Nat /\ Cardinality(S) \in Nat
    BY <1>1, FS_Subset, FS_CardinalityType
  <1> QED BY <1>2

\* The limit of a rule's slots is a number.
LEMMA SlotLimit ==
  ASSUME NEW x \in SlotKeys
  PROVE  Limit[x[2]]["slot"] \in Nat
  BY KeyParts, RateAssumption DEF Dimensions

\* A step after which no store has a lease it had not before keeps the limits.
LEMMA SlotsFewer ==
  ASSUME SlotsBounded, lease' \in [SlotKeys -> [Requests -> 0..LeaseSec]],
         \A x \in SlotKeys : \A q \in Requests : lease'[x][q] > 0 => lease[x][q] > 0
  PROVE  SlotsBounded'
  <1> SUFFICES ASSUME NEW x \in SlotKeys
               PROVE  Cardinality({q \in Requests : lease'[x][q] > 0}) <= Limit[x[2]]["slot"]
    BY DEF SlotsBounded
  <1> DEFINE S == {q \in Requests : lease[x][q] > 0}
             T == {q \in Requests : lease'[x][q] > 0}
  <1>1. T \in SUBSET S /\ S \in SUBSET Requests
    OBVIOUS
  <1>2. Cardinality(S) <= Limit[x[2]]["slot"]
    BY DEF SlotsBounded
  <1> HIDE DEF S, T
  <1>3. Cardinality(T) <= Limit[x[2]]["slot"]
    BY <1>1, <1>2, SlotLimit, FewerSlots
  <1> QED BY <1>3 DEF T

\* Hits and acquires keep the totals exact and the limits: a hit is of a
\* window the request is not in, an acquire takes a free slot.
LEMMA TakeStore ==
  ASSUME StoreInv, NEW r \in Requests, NEW H, Take(r, H),
         \A x \in WindowKeys : x \in H => log[x][r] = NoEntry
  PROVE  StoreInv'
  <1>1. \A x \in WindowKeys : log'[x] \in Entries /\ total'[x] \in Nat /\ ExactAt(x, log'[x], total'[x])
    <2> SUFFICES ASSUME NEW x \in WindowKeys
                 PROVE  log'[x] \in Entries /\ total'[x] \in Nat /\ ExactAt(x, log'[x], total'[x])
      OBVIOUS
    <2>0. log[x] \in Entries /\ total[x] \in Nat /\ ExactAt(x, log[x], total[x])
      BY DEF StoreInv
    <2>1. CASE x \notin H
      <3>1. log'[x] = log[x] /\ total'[x] = total[x]
        BY <2>1 DEF Take
      <3> QED BY <2>0, <3>1
    <2>2. CASE x \in H
      <3> DEFINE K == Kept(x)
                 N == [K EXCEPT ![r] = [age |-> 0, cost |-> Cost(x, r)]]
                 f == Freed(x)
      <3>1. /\ log'[x] = IF Fits(x, r) THEN N ELSE K
            /\ total'[x] = total[x] - f + IF Fits(x, r) THEN Cost(x, r) ELSE 0
        BY <2>2 DEF Take
      <3>2. K = [q \in Requests |-> IF log[x][q].age >= Window THEN NoEntry ELSE log[x][q]]
        BY DEF Kept
      <3>3. f = Total([q \in Requests |->
                         IF q \in {p \in Requests : log[x][p].age = Window} THEN log[x][q].cost ELSE 0])
        BY DEF Freed, CostOf
      <3>4. Fits(x, r) <=> total[x] - f + Cost(x, r) <= Limit[x[2]][x[3]]
        BY DEF Fits
      <3>5. log[x][r] = NoEntry
        BY <2>2
      <3>6. N = [K EXCEPT ![r] = [age |-> 0, cost |-> Cost(x, r)]]
        OBVIOUS
      <3> HIDE DEF K, N, f
      <3>7. /\ K \in Entries /\ total[x] - f \in Nat /\ ExactAt(x, K, total[x] - f)
            /\ N \in Entries
            /\ total[x] - f + Cost(x, r) <= Limit[x[2]][x[3]] => ExactAt(x, N, total[x] - f + Cost(x, r))
        BY <2>0, <3>2, <3>3, <3>5, <3>6, HitExact
      <3>8. CASE Fits(x, r)
        <4>1. log'[x] = N /\ total'[x] = total[x] - f + Cost(x, r)
          BY <3>1, <3>8
        <4>2. total[x] - f + Cost(x, r) \in Nat
          BY <3>7, CostType
        <4> QED BY <3>4, <3>7, <3>8, <4>1, <4>2
      <3>9. CASE ~Fits(x, r)
        <4>1. log'[x] = K /\ total'[x] = total[x] - f
          BY <3>1, <3>7, <3>9
        <4> QED BY <3>7, <4>1
      <3> QED BY <3>8, <3>9
    <2> QED BY <2>1, <2>2
  <1>2. log' \in [WindowKeys -> Entries] /\ total' \in [WindowKeys -> Nat]
    <2>1. log' = [x \in WindowKeys |-> log'[x]] /\ total' = [x \in WindowKeys |-> total'[x]]
      BY DEF Take
    <2> QED BY <1>1, <2>1
  <1>3. lease' \in [SlotKeys -> [Requests -> 0..LeaseSec]]
    BY RateAssumption DEF Take, StoreInv
  <1>4. SlotsBounded'
    <2> SUFFICES ASSUME NEW x \in SlotKeys
                 PROVE  Cardinality({q \in Requests : lease'[x][q] > 0}) <= Limit[x[2]]["slot"]
      BY DEF SlotsBounded
    <2> DEFINE S == {q \in Requests : lease[x][q] > 0}
               T == {q \in Requests : lease'[x][q] > 0}
    <2>1. lease[x] \in [Requests -> 0..LeaseSec]
      BY DEF StoreInv
    <2>2. CASE x \in H /\ Free(x)
      <3>1. T = S \cup {r}
        BY <2>1, <2>2, RateAssumption DEF Take
      <3>2. Cardinality(S) < Limit[x[2]]["slot"]
        BY <2>2 DEF Free
      <3>3. IsFiniteSet(S)
        BY RateAssumption, FS_Subset
      <3>4. /\ Cardinality(S \cup {r}) = IF r \in S THEN Cardinality(S) ELSE Cardinality(S) + 1
            /\ Cardinality(S) \in Nat
        <4> HIDE DEF S
        <4> QED BY <3>3, FS_AddElement, FS_CardinalityType
      <3>5. Cardinality(T) <= Limit[x[2]]["slot"]
        <4>1. Limit[x[2]]["slot"] \in Nat
          BY SlotLimit
        <4> HIDE DEF S, T
        <4> QED BY <3>1, <3>2, <3>4, <4>1
      <3> QED BY <3>5
    <2>3. CASE ~(x \in H /\ Free(x))
      <3>1. T = S
        BY <2>3 DEF Take
      <3> QED BY <3>1 DEF StoreInv, SlotsBounded
    <2> QED BY <2>2, <2>3
  <1> QED BY <1>1, <1>2, <1>3, <1>4 DEF StoreInv

\* A call that gives back a slot or settles an entry keeps the totals exact.
LEMMA PerformStore ==
  ASSUME StoreInv, NEW r \in Requests, NEW call \in Call, Perform(r, call),
         call.key \in WindowKeys => call.cost = 0 \/ Fresh(call.key, r)
  PROVE  StoreInv'
  <1>1. CASE call.key \in SlotKeys
    <2>1. lease' = [lease EXCEPT ![call.key][r] = 0] /\ log' = log /\ total' = total
      BY <1>1 DEF Perform
    <2>2. lease' \in [SlotKeys -> [Requests -> 0..LeaseSec]]
      BY <1>1, <2>1, RateAssumption DEF StoreInv
    <2>3. \A x \in SlotKeys : \A q \in Requests : lease'[x][q] > 0 => lease[x][q] > 0
      BY <1>1, <2>1 DEF StoreInv
    <2>4. SlotsBounded'
      BY <2>2, <2>3, SlotsFewer DEF StoreInv
    <2> QED BY <2>1, <2>2, <2>4 DEF StoreInv
  <1>2. CASE call.key \notin SlotKeys /\ log[call.key][r].age = Gone
    <2>1. log' = log /\ total' = total /\ lease' = lease
      BY <1>2 DEF Perform, Recost
    <2> QED BY <2>1 DEF StoreInv, SlotsBounded
  <1>3. CASE call.key \notin SlotKeys /\ log[call.key][r].age # Gone
    <2> DEFINE x == call.key
               c == call.cost
               L == log[x]
               N == [L EXCEPT ![r].cost = c]
    <2>1. x \in WindowKeys /\ c \in Nat
      BY <1>3, KeyParts DEF Call
    <2>2. /\ log' = [log EXCEPT ![x][r].cost = c]
          /\ total' = [total EXCEPT ![x] = @ + c - log[x][r].cost]
          /\ lease' = lease
      BY <1>3 DEF Perform, Recost
    <2>3. L \in Entries /\ total[x] \in Nat /\ ExactAt(x, L, total[x]) /\ L[r].age # Gone
      BY <1>3, <2>1 DEF StoreInv
    <2>4. c = 0 \/ L[r].cost = Cost(x, r)
      BY <1>3, <2>1 DEF Fresh
    <2>5. /\ N \in Entries /\ total[x] + c - L[r].cost \in Nat
          /\ ExactAt(x, N, total[x] + c - L[r].cost)
      <3>1. N = [L EXCEPT ![r].cost = c]
        OBVIOUS
      <3> HIDE DEF x, c, L, N
      <3> QED BY <2>1, <2>3, <2>4, <3>1, SettleExact
    <2>6. /\ log' = [log EXCEPT ![x] = N]
          /\ total' = [total EXCEPT ![x] = total[x] + c - L[r].cost]
      BY <2>1, <2>2 DEF StoreInv
    <2> HIDE DEF x, c, L, N
    <2>7. log' \in [WindowKeys -> Entries] /\ total' \in [WindowKeys -> Nat]
      BY <2>1, <2>5, <2>6 DEF StoreInv
    <2>8. \A y \in WindowKeys : ExactAt(y, log'[y], total'[y])
      BY <2>1, <2>5, <2>6 DEF StoreInv
    <2> QED BY <2>2, <2>7, <2>8 DEF StoreInv, SlotsBounded
  <1> QED BY <1>1, <1>2, <1>3

\* Time, the clean-up of a window and the end of a process keep the totals
\* exact and the limits.
LEMMA WorldStore ==
  ASSUME StoreInv,
         Tick \/ Outage \/ (\E x \in WindowKeys : Forget(x)) \/ (\E p \in Procs : Crash(p))
  PROVE  StoreInv'
  <1>1. CASE Tick
    <2>1. \A x \in WindowKeys : log'[x] \in Entries /\ ExactAt(x, log'[x], total'[x])
      <3> SUFFICES ASSUME NEW x \in WindowKeys
                   PROVE  log'[x] \in Entries /\ ExactAt(x, log'[x], total'[x])
        OBVIOUS
      <3>1. log'[x] = [q \in Requests |-> IF log[x][q].age < Window THEN [log[x][q] EXCEPT !.age = @ + 1]
                                                                    ELSE log[x][q]]
        BY <1>1 DEF Tick
      <3>2. log[x] \in Entries /\ total[x] \in Nat /\ ExactAt(x, log[x], total[x]) /\ total'[x] = total[x]
        BY <1>1 DEF StoreInv, Tick
      <3>3. log'[x] \in Entries /\ ExactAt(x, log'[x], total[x])
        BY <3>1, <3>2, AgeExact
      <3> QED BY <3>2, <3>3
    <2>2. log' \in [WindowKeys -> Entries] /\ total' \in [WindowKeys -> Nat]
      <3>1. log' = [x \in WindowKeys |-> log'[x]] /\ total' = total
        BY <1>1 DEF Tick
      <3> QED BY <2>1, <3>1 DEF StoreInv
    <2>3. \A x \in SlotKeys : \A q \in Requests :
            lease'[x][q] \in 0..LeaseSec /\ (lease'[x][q] > 0 => lease[x][q] > 0)
      BY <1>1, RateAssumption DEF Tick, StoreInv
    <2>4. lease' \in [SlotKeys -> [Requests -> 0..LeaseSec]]
      <3>1. lease' = [x \in SlotKeys |-> [q \in Requests |-> lease'[x][q]]]
        BY <1>1 DEF Tick
      <3> QED BY <2>3, <3>1
    <2>5. SlotsBounded'
      BY <2>3, <2>4, SlotsFewer DEF StoreInv
    <2> QED BY <2>1, <2>2, <2>4, <2>5 DEF StoreInv
  <1>2. CASE Outage
    BY <1>2 DEF Outage, StoreInv, SlotsBounded
  <1>3. ASSUME NEW x \in WindowKeys, Forget(x)
        PROVE  StoreInv'
    <2> DEFINE N == [q \in Requests |-> NoEntry]
    <2>1. log' = [log EXCEPT ![x] = N] /\ total' = [total EXCEPT ![x] = 0] /\ lease' = lease
      BY <1>3 DEF Forget
    <2>2. N \in Entries /\ ExactAt(x, N, 0)
      BY NoneExact
    <2> HIDE DEF N
    <2> QED BY <2>1, <2>2 DEF StoreInv, SlotsBounded
  <1>4. ASSUME NEW p \in Procs, Crash(p)
        PROVE  StoreInv'
    <2> DEFINE N == [q \in Requests |-> NoEntry]
    <2>1. /\ log' = [x \in WindowKeys |-> IF x[1] = p THEN N ELSE log[x]]
          /\ total' = [x \in WindowKeys |-> IF x[1] = p THEN 0 ELSE total[x]]
          /\ lease' = [x \in SlotKeys |-> IF x[1] = p THEN [q \in Requests |-> 0] ELSE lease[x]]
      BY <1>4 DEF Crash
    <2>2. \A x \in WindowKeys : N \in Entries /\ ExactAt(x, N, 0)
      BY NoneExact
    <2>3. \A x \in SlotKeys : \A q \in Requests : lease'[x][q] > 0 => lease[x][q] > 0
      BY <2>1 DEF StoreInv
    <2>4. lease' \in [SlotKeys -> [Requests -> 0..LeaseSec]]
      BY <2>1, RateAssumption DEF StoreInv
    <2>5. SlotsBounded'
      BY <2>3, <2>4, SlotsFewer DEF StoreInv
    <2> HIDE DEF N
    <2> QED BY <2>1, <2>2, <2>4, <2>5 DEF StoreInv
  <1> QED BY <1>1, <1>2, <1>3, <1>4

-----------------------------------------------------------------------------
(* Type correctness.                                                       *)

\* The types of everything but the stores.
LocalType ==
  /\ up \in BOOLEAN
  /\ backoff \in [Procs -> 0..RetryAfter]
  /\ pc \in [Requests -> States]
  /\ task \in [Requests -> [Rules -> Dimensions \union {"done", "over"}]]
  /\ held \in [Requests -> [Parts -> Hold]]
  /\ handed \in [Requests -> BOOLEAN]
  /\ todo \in [Requests -> SUBSET Call]
  /\ tried \in [Requests -> SUBSET Models]
  /\ bill \in [Requests -> Int]
  /\ orphan \in [Requests -> SUBSET Keys]
  /\ faults \in 0..MaxFaults

\* The calls of a gather are calls.
LEMMA CallTypes ==
  /\ \A hold \in Hold : Undo(hold) \in SUBSET Call
  /\ \A X \in SUBSET WindowKeys : \A c \in Nat : Settles(X, c) \in SUBSET Call
  /\ \A X \in SUBSET SlotKeys : Releases(X) \in SUBSET Call
  BY KeyParts DEF Undo, Settles, Releases, Call, Hold

\* A request that awaits calls goes on to a place.
LEMMA AwaitType ==
  ASSUME LocalType, NEW r \in Requests, NEW state \in Calling, NEW calls \in SUBSET Call,
         Await(r, state, calls)
  PROVE  pc' \in [Requests -> States] /\ todo' \in [Requests -> SUBSET Call]
  <1>1. After(state) \in States
    BY DEF After, Calling, States
  <1>2. state \in States
    BY DEF States
  <1> QED BY <1>1, <1>2 DEF Await, LocalType

\* What a request still holds, as sets of keys.
LEMMA HeldTypes ==
  ASSUME LocalType, NEW r \in Requests
  PROVE  /\ \A h \in Parts : /\ held[r][h] \in Hold
                             /\ held[r][h].entries \in SUBSET WindowKeys
                             /\ held[r][h].estimates \in SUBSET WindowKeys
                             /\ held[r][h].leases \in SUBSET SlotKeys
         /\ Estimates(r) \in SUBSET WindowKeys /\ Leases(r) \in SUBSET SlotKeys
         /\ Named(r) \in SUBSET Keys
         /\ Settled(r) \in [Requests -> [Parts -> Hold]] /\ Released(r) \in [Requests -> [Parts -> Hold]]
         /\ [held EXCEPT ![r]["attempt"] = NoHold] \in [Requests -> [Parts -> Hold]]
         /\ [held EXCEPT ![r]["admission"] = NoHold] \in [Requests -> [Parts -> Hold]]
  <1>1. \A h \in Parts : /\ held[r][h] \in Hold
                         /\ held[r][h].entries \in SUBSET WindowKeys
                         /\ held[r][h].estimates \in SUBSET WindowKeys
                         /\ held[r][h].leases \in SUBSET SlotKeys
    BY DEF LocalType, Hold
  <1>2. Estimates(r) \in SUBSET WindowKeys /\ Leases(r) \in SUBSET SlotKeys
    BY <1>1 DEF Estimates, Leases
  <1>3. Named(r) \in SUBSET Keys
    <2>1. \A c \in todo[r] : c.key \in Keys
      BY DEF LocalType, Call
    <2>2. \A h \in Parts : held[r][h].entries \union held[r][h].leases \in SUBSET Keys
      BY <1>1, KeyParts
    <2>3. UNION {held[r][h].entries \union held[r][h].leases : h \in Parts} \in SUBSET Keys
      BY <2>2
    <2>4. {c.key : c \in todo[r]} \in SUBSET Keys
      BY <2>1
    <2> DEFINE A == UNION {held[r][h].entries \union held[r][h].leases : h \in Parts}
               B == {c.key : c \in todo[r]}
    <2>5. Named(r) = A \union B /\ A \in SUBSET Keys /\ B \in SUBSET Keys
      BY <2>3, <2>4 DEF Named
    <2> HIDE DEF A, B
    <2> QED BY <2>5
  <1>4. /\ [h \in Parts |-> [held[r][h] EXCEPT !.estimates = {}]] \in [Parts -> Hold]
        /\ [h \in Parts |-> [held[r][h] EXCEPT !.leases = {}]] \in [Parts -> Hold]
    BY <1>1 DEF Hold
  <1>5. Settled(r) \in [Requests -> [Parts -> Hold]] /\ Released(r) \in [Requests -> [Parts -> Hold]]
    BY <1>4 DEF Settled, Released, LocalType
  <1>6. NoHold \in Hold
    BY DEF NoHold, Hold
  <1> QED BY <1>1, <1>2, <1>3, <1>5, <1>6 DEF LocalType, Parts

\* The limits a rule sets, in the order they are counted.
LEMMA DimTypes ==
  ASSUME NEW k \in Rules
  PROVE  /\ FirstDim(k) \in Dims[k] \union {"done"} /\ Dims[k] \subseteq Dimensions
         /\ \A d \in Dimensions : NextDim(k, d) \in Dims[k] \union {"done"}
  BY RateAssumption DEF FirstDim, NextDim

\* The tasks of a phase are tasks.
LEMMA BeginType ==
  ASSUME LocalType, NEW r \in Requests, NEW K, Begin(r, K)
  PROVE  task' \in [Requests -> [Rules -> Dimensions \union {"done", "over"}]]
  <1>1. [k \in Rules |-> IF k \in K THEN FirstDim(k) ELSE "done"] \in [Rules -> Dimensions \union {"done", "over"}]
    BY DimTypes
  <1> QED BY <1>1 DEF Begin, LocalType

\* Whether Redis answers, fails or is not asked, a process backs off or not.
LEMMA AnswerTypes ==
  ASSUME LocalType, NEW p \in Procs, RedisAnswers(p) \/ RedisDown(p) \/ RedisLate(p) \/ CountsLocally(p)
  PROVE  backoff' \in [Procs -> 0..RetryAfter] /\ faults' \in 0..MaxFaults
  <1>1. RetryAfter \in 0..RetryAfter
    BY RateAssumption
  <1>2. backoff' = backoff \/ backoff' = [backoff EXCEPT ![p] = RetryAfter]
    BY DEF RedisAnswers, RedisDown, RedisLate, CountsLocally
  <1>3. faults' = faults \/ (faults < MaxFaults /\ faults' = faults + 1)
    BY DEF RedisAnswers, RedisDown, RedisLate, CountsLocally, Fault
  <1>4. faults' \in 0..MaxFaults
    BY <1>3, RateAssumption DEF LocalType
  <1> QED BY <1>1, <1>2, <1>4 DEF LocalType

\* The steps that count, within their request.
LEMMA CountTypes ==
  ASSUME LocalType, NEW r \in Requests, NEW k \in Rules, task[r][k] \in Dims[k],
         CountRule(r, k) \/ TooLarge(r, k)
  PROVE  LocalType'
  <1> DEFINE d == task[r][k]
             p == ProcOf[r]
  <1>1. d \in Dimensions /\ NextDim(k, d) \in Dimensions \union {"done", "over"}
    BY DimTypes
  <1>2. NextDim(k, "tpm") \in Dimensions \union {"done", "over"}
    BY DimTypes DEF Dimensions
  <1>3. CASE TooLarge(r, k)
    BY <1>2, <1>3 DEF TooLarge, LocalType
  <1>4. CASE CountRule(r, k)
    <2>1. p \in Procs /\ Redis \in Stores /\ p \in Stores
      BY StoreOf
    <2>2. <<Redis, k, d>> \in Keys /\ <<p, k, d>> \in Keys
      BY <2>1, KeyAt
    <2>3. Part(r) \in Parts
      BY DEF Part, Parts
    <2>4. ASSUME NEW x \in Keys, x[3] = d, Noted(r, k, x)
          PROVE  /\ held' \in [Requests -> [Parts -> Hold]]
                 /\ task' \in [Requests -> [Rules -> Dimensions \union {"done", "over"}]]
      <3>1. task' \in [Requests -> [Rules -> Dimensions \union {"done", "over"}]]
        <4>1. NextDim(k, x[3]) \in Dimensions \union {"done", "over"}
          BY <1>1, <2>4
        <4>2. PICK v \in Dimensions \union {"done", "over"} : task' = [task EXCEPT ![r][k] = v]
          BY <2>4, <4>1 DEF Noted
        <4> QED BY <4>2 DEF LocalType
      <3>2. held' \in [Requests -> [Parts -> Hold]]
        <4>1. {x} \ SlotKeys \in SUBSET WindowKeys
          BY KeyParts
        <4>2. (IF x[3] = "tpm" THEN {x} ELSE {}) \in SUBSET WindowKeys
          BY KeyParts
        <4>3. held[r][Part(r)] \in Hold
          BY <2>3 DEF LocalType
        <4>4. [entries |-> held[r][Part(r)].entries \union ({x} \ SlotKeys),
               estimates |-> held[r][Part(r)].estimates \union (IF x[3] = "tpm" THEN {x} ELSE {}),
               leases |-> held[r][Part(r)].leases \union ({x} \intersect SlotKeys)] \in Hold
          BY <4>1, <4>2, <4>3 DEF Hold
        <4>5. CASE ~Granted(x, r)
          BY <2>4, <4>5 DEF Noted, LocalType
        <4>6. CASE Granted(x, r)
          <5> DEFINE new == [entries |-> held[r][Part(r)].entries \union ({x} \ SlotKeys),
                             estimates |-> held[r][Part(r)].estimates \union (IF x[3] = "tpm" THEN {x} ELSE {}),
                             leases |-> held[r][Part(r)].leases \union ({x} \intersect SlotKeys)]
          <5>1. held' = [held EXCEPT ![r][Part(r)] = new]
            BY <2>4, <4>6 DEF Noted
          <5> HIDE DEF new
          <5> QED BY <2>3, <4>4, <5>1 DEF LocalType, new
        <4> QED BY <4>5, <4>6
      <3> QED BY <3>1, <3>2
    <2>5. \/ Noted(r, k, <<Redis, k, d>>)
          \/ Noted(r, k, <<p, k, d>>)
      BY <1>4 DEF CountRule
    <2>6. /\ held' \in [Requests -> [Parts -> Hold]]
          /\ task' \in [Requests -> [Rules -> Dimensions \union {"done", "over"}]]
      <3>1. <<Redis, k, d>>[3] = d /\ <<p, k, d>>[3] = d
        OBVIOUS
      <3> HIDE DEF d, p
      <3> QED BY <2>2, <2>4, <2>5, <3>1
    <2>7. Stray(r, {<<Redis, k, d>>}) \in SUBSET Keys
      BY <2>2 DEF Stray
    <2>8. /\ orphan' = orphan \/ orphan' = [orphan EXCEPT ![r] = @ \union Stray(r, {<<Redis, k, d>>})]
          /\ UNCHANGED <<up, pc, handed, todo, tried, bill>>
      BY <1>4 DEF CountRule
    <2>9. backoff' \in [Procs -> 0..RetryAfter] /\ faults' \in 0..MaxFaults
      <3>1. RedisAnswers(p) \/ RedisDown(p) \/ RedisLate(p) \/ CountsLocally(p)
        BY <1>4 DEF CountRule
      <3> HIDE DEF p
      <3> QED BY <2>1, <3>1, AnswerTypes
    <2> HIDE DEF d, p
    <2> QED BY <2>6, <2>7, <2>8, <2>9 DEF LocalType
  <1> QED BY <1>3, <1>4

\* The other steps of a request.
LEMMA StepTypes ==
  ASSUME LocalType, NEW r \in Requests,
         \A k \in Rules : task[r][k] \in Dims[k] \union {"done", "over"},
         Step(r) \/ Cancel(r)
  PROVE  LocalType'
  <1>1. CASE Admit(r)
    BY <1>1, BeginType DEF Admit, LocalType, States, Counting, Phases
  <1>2. CASE EndPhase(r)
    <2>1. CASE \E k \in Rules : task[r][k] = "over"
      <3>1. /\ Await(r, "refusing", Undo(held[r]["admission"]))
            /\ held' = [held EXCEPT ![r]["admission"] = NoHold]
            /\ UNCHANGED <<task, up, backoff, handed, tried, bill, orphan, faults>>
        BY <1>2, <2>1 DEF EndPhase
      <3>2. pc' \in [Requests -> States] /\ todo' \in [Requests -> SUBSET Call]
        BY <3>1, AwaitType, HeldTypes, CallTypes DEF Parts, Calling
      <3> QED BY <3>1, <3>2, HeldTypes DEF LocalType
    <2>2. CASE ~(\E k \in Rules : task[r][k] = "over")
      BY <1>2, <2>2, BeginType DEF EndPhase, LocalType, States, Counting, Phases
    <2> QED BY <2>1, <2>2
  <1>3. CASE HandOver(r)
    BY <1>3 DEF HandOver, LocalType, States
  <1>4. CASE ModelRefused(r)
    <2>1. pc' \in [Requests -> States] /\ todo' \in [Requests -> SUBSET Call]
      BY <1>4, AwaitType, HeldTypes, CallTypes DEF Parts, Calling, ModelRefused
    <2> QED BY <1>4, <2>1, HeldTypes DEF LocalType, ModelRefused
  <1>5. CASE ModelAdmitted(r)
    BY <1>5 DEF ModelAdmitted, LocalType, States
  <1>6. CASE Settle(r)
    <2>1. Used[r] \in Nat
      BY RateAssumption
    <2>2. pc' \in [Requests -> States] /\ todo' \in [Requests -> SUBSET Call]
      <3>1. Settles(Estimates(r), Used[r]) \in SUBSET Call
        BY <2>1, HeldTypes, CallTypes
      <3>2. "settling" \in Calling /\ Await(r, "settling", Settles(Estimates(r), Used[r]))
        BY <1>6 DEF Calling, Settle
      <3> QED BY <3>1, <3>2, AwaitType
    <2>3. bill' \in [Requests -> Int]
      BY <1>6, <2>1 DEF LocalType, Settle
    <2>4. held' \in [Requests -> [Parts -> Hold]]
      BY <1>6, HeldTypes DEF Settle
    <2> QED BY <1>6, <2>2, <2>3, <2>4 DEF LocalType, Settle
  <1>7. CASE Close(r)
    <2>1. {} \in SUBSET Call /\ Settles(Estimates(r), 0) \in SUBSET Call
      BY HeldTypes, CallTypes
    <2>2. pc' \in [Requests -> States] /\ todo' \in [Requests -> SUBSET Call]
      BY <1>7, <2>1, AwaitType DEF Calling, Close
    <2> QED BY <1>7, <2>2, HeldTypes DEF LocalType, Close
  <1>8. CASE Release(r)
    <2>1. Releases(Leases(r)) \in SUBSET Call
      BY HeldTypes, CallTypes
    <2>2. "releasing" \in Calling /\ Await(r, "releasing", Releases(Leases(r)))
      BY <1>8 DEF Calling, Release
    <2>3. pc' \in [Requests -> States] /\ todo' \in [Requests -> SUBSET Call]
      BY <2>1, <2>2, AwaitType
    <2> QED BY <1>8, <2>3, HeldTypes DEF LocalType, Release
  <1>9. ASSUME NEW k \in Rules, CountRule(r, k) \/ TooLarge(r, k)
        PROVE  LocalType'
    <2>1. task[r][k] \in Dimensions
      BY <1>9 DEF CountRule, TooLarge, Callable, Pending, Dimensions
    <2>2. task[r][k] \in Dims[k]
      BY <2>1 DEF Dimensions
    <2> QED BY <1>9, <2>2, CountTypes
  <1>10. ASSUME NEW m \in Models, AdmitModel(r, m)
         PROVE  LocalType'
    BY <1>10, BeginType DEF AdmitModel, LocalType, States, Counting
  <1>11. ASSUME NEW sent \in BOOLEAN, Drop(r, sent)
         PROVE  LocalType'
    <2> DEFINE hold == held[r]["attempt"]
    <2>1. Settles(hold.estimates, 0) \union Releases(hold.leases) \in SUBSET Call /\ Undo(hold) \in SUBSET Call
      BY HeldTypes, CallTypes DEF Parts
    <2>2. pc' \in [Requests -> States] /\ todo' \in [Requests -> SUBSET Call]
      BY <1>11, <2>1, AwaitType DEF Calling, Drop
    <2> QED BY <1>11, <2>2, HeldTypes DEF LocalType, Drop
  <1>12. ASSUME NEW call \in todo[r], GiveBack(r, call)
         PROVE  LocalType'
    <2>1. pc[r] \in Calling /\ todo[r] \ {call} \in SUBSET Call /\ Await(r, pc[r], todo[r] \ {call})
      BY <1>12 DEF GiveBack, LocalType
    <2>2. pc' \in [Requests -> States] /\ todo' \in [Requests -> SUBSET Call]
      BY <2>1, AwaitType
    <2>3. call.key \in Keys
      BY DEF LocalType, Call
    <2>4. orphan' \in [Requests -> SUBSET Keys]
      <3>1. orphan' = orphan \/ orphan' = [orphan EXCEPT ![r] = @ \union {call.key}]
        BY <1>12 DEF GiveBack
      <3> QED BY <2>3, <3>1 DEF LocalType
    <2>5. backoff' \in [Procs -> 0..RetryAfter] /\ faults' \in 0..MaxFaults
      <3>1. \/ RedisAnswers(ProcOf[r]) \/ RedisDown(ProcOf[r]) \/ RedisLate(ProcOf[r])
            \/ CountsLocally(ProcOf[r]) \/ UNCHANGED <<backoff, faults>>
        BY <1>12 DEF GiveBack
      <3>2. CASE UNCHANGED <<backoff, faults>>
        BY <3>2 DEF LocalType
      <3> QED BY <3>1, <3>2, StoreOf, AnswerTypes
    <2> QED BY <1>12, <2>2, <2>4, <2>5 DEF LocalType, GiveBack
  <1>13. CASE Cancel(r)
    <2>1. faults' \in 0..MaxFaults
      BY <1>13, RateAssumption DEF Cancel, Fault, LocalType
    <2>2. task' \in [Requests -> [Rules -> Dimensions \union {"done", "over"}]]
      BY <1>13 DEF Cancel, LocalType
    <2>3. /\ pc' \in [Requests -> States] /\ todo' \in [Requests -> SUBSET Call]
          /\ held' \in [Requests -> [Parts -> Hold]]
      <3>1. CASE pc[r] = "attempting"
        <4>1. /\ Await(r, "aborting", Undo(held[r]["attempt"]))
              /\ held' = [held EXCEPT ![r]["attempt"] = NoHold]
          BY <1>13, <3>1 DEF Cancel
        <4> QED BY <4>1, AwaitType, HeldTypes, CallTypes DEF Parts, Calling
      <3>2. CASE pc[r] # "attempting"
        BY <1>13, <3>2 DEF Cancel, LocalType, States
      <3> QED BY <3>1, <3>2
    <2>4. orphan' \in [Requests -> SUBSET Keys]
      <3>1. PICK K \in SUBSET {k \in Rules : Callable(r, k) /\ AsksRedis(ProcOf[r]) /\ up} :
              orphan' = [orphan EXCEPT ![r] = @ \union Stray(r, {<<Redis, k, task[r][k]>> : k \in K})
                                                \union {c.key : c \in todo[r]}]
        BY <1>13 DEF Cancel
      <3>2. \A k \in K : k \in Rules /\ task[r][k] \in Dims[k]
        BY DEF Callable, Pending, Dimensions
      <3>3. \A k \in K : <<Redis, k, task[r][k]>> \in Keys
        BY <3>2, KeyAt, StoreOf
      <3>4. Stray(r, {<<Redis, k, task[r][k]>> : k \in K}) \in SUBSET Keys
        BY <3>3 DEF Stray
      <3>5. {c.key : c \in todo[r]} \in SUBSET Keys
        BY DEF LocalType, Call
      <3> QED BY <3>1, <3>4, <3>5 DEF LocalType
    <2> QED BY <1>13, <2>1, <2>2, <2>3, <2>4 DEF Cancel, LocalType
  <1> QED BY <1>1, <1>2, <1>3, <1>4, <1>5, <1>6, <1>7, <1>8, <1>9, <1>10, <1>11, <1>12, <1>13 DEF Step

\* The steps of the world.
LEMMA WorldTypes ==
  ASSUME LocalType,
         Tick \/ Outage \/ (\E x \in WindowKeys : Forget(x)) \/ (\E p \in Procs : Crash(p))
  PROVE  LocalType'
  <1>1. CASE Tick
    <2>1. backoff' \in [Procs -> 0..RetryAfter]
      BY <1>1, RateAssumption DEF Tick, LocalType
    <2> QED BY <1>1, <2>1 DEF Tick, LocalType
  <1>2. CASE Outage
    BY <1>2, RateAssumption DEF Outage, LocalType, Fault
  <1>3. CASE \E x \in WindowKeys : Forget(x)
    BY <1>3 DEF Forget, LocalType
  <1>4. ASSUME NEW p \in Procs, Crash(p)
        PROVE  LocalType'
    <2>1. NoHold \in Hold
      BY DEF NoHold, Hold
    <2>2. \A r \in Requests : orphan[r] \union Named(r) \in SUBSET Keys
      BY HeldTypes DEF LocalType
    <2>3. orphan' \in [Requests -> SUBSET Keys]
      BY <1>4, <2>2 DEF Crash, LocalType
    <2>4. backoff' \in [Procs -> 0..RetryAfter] /\ faults' \in 0..MaxFaults
      BY <1>4, RateAssumption DEF Crash, LocalType, Fault
    <2>5. pc' \in [Requests -> States] /\ todo' \in [Requests -> SUBSET Call]
      BY <1>4 DEF Crash, LocalType, States
    <2>6. held' \in [Requests -> [Parts -> Hold]]
      BY <1>4, <2>1 DEF Crash, LocalType
    <2>7. task' \in [Requests -> [Rules -> Dimensions \union {"done", "over"}]]
      BY <1>4 DEF Crash, LocalType
    <2> QED BY <1>4, <2>3, <2>4, <2>5, <2>6, <2>7 DEF Crash, LocalType
  <1> QED BY <1>1, <1>2, <1>3, <1>4

-----------------------------------------------------------------------------
(* What a step leaves to a request that does not take it.                  *)

\* An entry of r is evicted, or keeps its cost and stays stored or not; no lease
\* of r is new.
FadedAt(r, x) ==
  \/ log'[x][r] = NoEntry
  \/ log'[x][r].cost = log[x][r].cost /\ (log'[x][r].age = Gone <=> log[x][r].age = Gone)
Faded(r) ==
  /\ \A x \in WindowKeys : FadedAt(r, x)
  /\ \A x \in SlotKeys : lease'[x][r] > 0 => lease[x][r] > 0

\* Nothing of the request itself changes.
Still(r) ==
  /\ pc'[r] = pc[r] /\ task'[r] = task[r] /\ held'[r] = held[r] /\ handed'[r] = handed[r]
  /\ todo'[r] = todo[r] /\ tried'[r] = tried[r] /\ bill'[r] = bill[r] /\ orphan'[r] = orphan[r]

\* No entry costs nothing and is not stored; the only entry not stored is that.
LEMMA GoneEntries ==
  /\ NoEntry.age = Gone /\ NoEntry.cost = 0
  /\ StoreInv => \A x \in WindowKeys : \A r \in Requests :
       /\ log[x][r].age = Gone => log[x][r] = NoEntry
       /\ log[x][r].age \in 0..Gone /\ log[x][r].cost \in Nat
  /\ StoreInv' => \A x \in WindowKeys : \A r \in Requests :
       /\ log'[x][r].age = Gone => log'[x][r] = NoEntry
       /\ log'[x][r].age \in 0..Gone /\ log'[x][r].cost \in Nat
  <1>1. NoEntry.age = Gone /\ NoEntry.cost = 0
    BY DEF NoEntry
  <1>2. \A L \in Entries : \A r \in Requests :
          (L[r].age = Gone => L[r] = NoEntry) /\ L[r].age \in 0..Gone /\ L[r].cost \in Nat
    BY DEF Entries, Entry
  <1> QED BY <1>1, <1>2 DEF StoreInv

\* The invariant of a request survives the steps of the others.
LEMMA AsideKeeps ==
  ASSUME LocalType, StoreInv, StoreInv', NEW r \in Requests, RequestInv(r), Still(r), Faded(r)
  PROVE  RequestInv(r)'
  <1>0. /\ \A x : Ahead(r, x)' <=> Ahead(r, x)
        /\ Estimates(r)' = Estimates(r) /\ Leases(r)' = Leases(r) /\ Named(r)' = Named(r)
    BY DEF Still, Ahead, Estimates, Leases, Named
  <1>1. FreshInv(r)'
    <2> SUFFICES ASSUME NEW x \in WindowKeys, Ahead(r, x)
                 PROVE  log'[x][r] = NoEntry
      BY <1>0 DEF FreshInv
    <2>1. log[x][r] = NoEntry
      BY DEF RequestInv, FreshInv
    <2>2. FadedAt(r, x)
      BY DEF Faded
    <2> QED BY <2>1, <2>2, GoneEntries DEF FadedAt
  <1>2. TaskInv(r)'
    BY DEF Still, RequestInv, TaskInv
  <1>3. PlaceInv(r)'
    BY <1>0 DEF Still, RequestInv, PlaceInv
  <1>4. PartInv(r)'
    BY DEF Still, RequestInv, PartInv
  <1>5. \A x \in WindowKeys : Fresh(x, r) => Fresh(x, r)'
    BY GoneEntries DEF Faded, FadedAt, Fresh
  <1>6. EstInv(r)'
    BY <1>0, <1>5, HeldTypes DEF RequestInv, EstInv
  <1>7. CallInv(r)'
    BY <1>0, <1>5 DEF RequestInv, CallInv, Still, GoodCost
  <1>8. TokenInv(r)'
    <2>1. \A x, c : GoodCost(r, x, c)' <=> GoodCost(r, x, c)
      BY DEF GoodCost, Still
    <2> SUFFICES ASSUME ~(pc[r] = "closed" /\ bill[r] = Unsettled),
                        NEW x \in WindowKeys, x[3] = "tpm", log'[x][r].age # Gone
                 PROVE  TokenAt(r, x)'
      BY DEF TokenInv, Still
    <2>2. log'[x][r].cost = log[x][r].cost /\ log[x][r].age # Gone
      BY GoneEntries DEF Faded, FadedAt
    <2>3. TokenAt(r, x)
      BY <2>2 DEF RequestInv, TokenInv
    <2> QED BY <1>0, <2>1, <2>2, <2>3 DEF TokenAt, Still
  <1>9. SlotInv(r)'
    BY <1>0 DEF RequestInv, SlotInv, Still, Faded
  <1>10. CountInv(r)'
    <2> SUFFICES ASSUME pc[r] \in Before, NEW x \in WindowKeys, log'[x][r].cost > 0
                 PROVE  x \in Named(r) \union orphan[r]
      BY <1>0 DEF CountInv, Still
    <2>1. log[x][r].cost > 0
      BY GoneEntries DEF Faded, FadedAt
    <2> QED BY <2>1 DEF RequestInv, CountInv
  <1> QED BY <1>1, <1>2, <1>3, <1>4, <1>6, <1>7, <1>8, <1>9, <1>10 DEF RequestInv

\* A hit or an acquire evicts old entries of others, and marks its own.
LEMMA TakeEffect ==
  ASSUME StoreInv, NEW r \in Requests, NEW H, Take(r, H)
  PROVE  /\ \A q \in Requests \ {r} : Faded(q)
         /\ \A x \in WindowKeys :
              IF x \in H /\ Granted(x, r) THEN log'[x][r] = [age |-> 0, cost |-> Cost(x, r)]
                                          ELSE FadedAt(r, x)
         /\ \A x \in SlotKeys : ~(x \in H /\ Granted(x, r)) => lease'[x][r] = lease[x][r]
  <1>1. \A x \in WindowKeys : \A q \in Requests :
          /\ x \notin H => log'[x][q] = log[x][q]
          /\ x \in H /\ ~Fits(x, r) => log'[x][q] = Kept(x)[q]
          /\ x \in H /\ Fits(x, r) =>
               log'[x][q] = IF q = r THEN [age |-> 0, cost |-> Cost(x, r)] ELSE Kept(x)[q]
    <2> SUFFICES ASSUME NEW x \in WindowKeys, NEW q \in Requests
                 PROVE  /\ x \notin H => log'[x][q] = log[x][q]
                        /\ x \in H /\ ~Fits(x, r) => log'[x][q] = Kept(x)[q]
                        /\ x \in H /\ Fits(x, r) =>
                             log'[x][q] = IF q = r THEN [age |-> 0, cost |-> Cost(x, r)] ELSE Kept(x)[q]
      OBVIOUS
    <2>1. log'[x] = IF x \notin H THEN log[x]
                    ELSE IF Fits(x, r) THEN [Kept(x) EXCEPT ![r] = [age |-> 0, cost |-> Cost(x, r)]]
                         ELSE Kept(x)
      BY DEF Take
    <2>2. Kept(x) = [p \in Requests |-> Kept(x)[p]]
      BY DEF Kept
    <2> QED BY <2>1, <2>2
  <1>2. \A x \in WindowKeys : \A q \in Requests : Kept(x)[q] = NoEntry \/ Kept(x)[q] = log[x][q]
    BY DEF Kept
  <1>3. \A x \in WindowKeys : Granted(x, r) <=> Fits(x, r)
    BY KeyParts DEF Granted
  <1>4. \A x \in WindowKeys : \A q \in Requests : log'[x][q] = log[x][q] => FadedAt(q, x)
    BY DEF FadedAt
  <1>5. \A x \in WindowKeys : \A q \in Requests : log'[x][q] = NoEntry => FadedAt(q, x)
    BY DEF FadedAt
  <1>6. \A x \in WindowKeys : \A q \in Requests \ {r} : FadedAt(q, x)
    <2> SUFFICES ASSUME NEW x \in WindowKeys, NEW q \in Requests \ {r} PROVE FadedAt(q, x)
      OBVIOUS
    <2>1. log'[x][q] = log[x][q] \/ log'[x][q] = Kept(x)[q]
      BY <1>1
    <2>2. log'[x][q] = log[x][q] \/ log'[x][q] = NoEntry
      BY <1>2, <2>1
    <2> QED BY <1>4, <1>5, <2>2
  <1>7. \A x \in WindowKeys :
          IF x \in H /\ Granted(x, r) THEN log'[x][r] = [age |-> 0, cost |-> Cost(x, r)]
                                      ELSE FadedAt(r, x)
    BY <1>1, <1>2, <1>3, <1>4, <1>5
  <1>8. \A x \in SlotKeys : \A q \in Requests :
          q # r \/ ~(x \in H /\ Granted(x, r)) => lease'[x][q] = lease[x][q]
    <2> SUFFICES ASSUME NEW x \in SlotKeys, NEW q \in Requests, q # r \/ ~(x \in H /\ Granted(x, r))
                 PROVE  lease'[x][q] = lease[x][q]
      OBVIOUS
    <2>1. lease'[x] = IF x \in H /\ Granted(x, r) THEN [lease[x] EXCEPT ![r] = LeaseSec] ELSE lease[x]
      BY DEF Take, Granted
    <2>2. lease[x] \in [Requests -> 0..LeaseSec]
      BY DEF StoreInv
    <2> QED BY <2>1, <2>2
  <1> QED BY <1>6, <1>7, <1>8 DEF Faded

\* A call that gives back a slot or settles an entry changes nothing else.
LEMMA PerformEffect ==
  ASSUME StoreInv, NEW r \in Requests, NEW call \in Call, Perform(r, call)
  PROVE  /\ \A q \in Requests \ {r} : Faded(q)
         /\ \A x \in WindowKeys :
              IF x = call.key THEN \/ log'[x][r] = NoEntry
                                   \/ log'[x][r].cost = call.cost /\ log'[x][r].age = log[x][r].age
                              ELSE FadedAt(r, x)
         /\ \A x \in SlotKeys : lease'[x][r] = IF x = call.key THEN 0 ELSE lease[x][r]
  <1>1. CASE call.key \in SlotKeys
    <2>1. log' = log /\ lease' = [lease EXCEPT ![call.key][r] = 0]
      BY <1>1 DEF Perform
    <2> QED BY <1>1, <2>1, KeyParts DEF Faded, FadedAt, StoreInv
  <1>2. CASE call.key \notin SlotKeys /\ log[call.key][r].age = Gone
    <2>1. log' = log /\ lease' = lease
      BY <1>2 DEF Perform, Recost
    <2>2. \A x \in WindowKeys : \A q \in Requests : FadedAt(q, x)
      BY <2>1 DEF FadedAt
    <2>3. \A x \in WindowKeys : x = call.key => log'[x][r] = NoEntry
      BY <1>2, <2>1, GoneEntries
    <2> QED BY <1>2, <2>1, <2>2, <2>3 DEF Faded
  <1>3. CASE call.key \notin SlotKeys /\ log[call.key][r].age # Gone
    <2>1. log' = [log EXCEPT ![call.key][r].cost = call.cost] /\ lease' = lease
      BY <1>3 DEF Perform, Recost
    <2>2. call.key \in WindowKeys /\ log[call.key] \in [Requests -> Entry]
      BY <1>3, KeyParts DEF Call, StoreInv, Entries
    <2>3. \A x \in WindowKeys : \A q \in Requests : (x # call.key \/ q # r) => log'[x][q] = log[x][q]
      BY <2>1, <2>2 DEF StoreInv
    <2>4. log'[call.key][r].cost = call.cost /\ log'[call.key][r].age = log[call.key][r].age
      BY <2>1, <2>2 DEF StoreInv, Entry
    <2>5. \A x \in WindowKeys : \A q \in Requests : (x # call.key \/ q # r) => FadedAt(q, x)
      BY <2>3 DEF FadedAt
    <2> QED BY <1>3, <2>1, <2>4, <2>5 DEF Faded
  <1> QED BY <1>1, <1>2, <1>3

-----------------------------------------------------------------------------
(* The steps of a request that call no store.                              *)

\* What a request holds, part by part.
LEMMA PartsOf ==
  ASSUME NEW r \in Requests
  PROVE  /\ Estimates(r) = held[r]["admission"].estimates \union held[r]["attempt"].estimates
         /\ Leases(r) = held[r]["admission"].leases \union held[r]["attempt"].leases
         /\ Named(r) = (held[r]["admission"].entries \union held[r]["admission"].leases)
                       \union (held[r]["attempt"].entries \union held[r]["attempt"].leases)
                       \union {c.key : c \in todo[r]}
         /\ Estimates(r)' = held'[r]["admission"].estimates \union held'[r]["attempt"].estimates
         /\ Leases(r)' = held'[r]["admission"].leases \union held'[r]["attempt"].leases
         /\ Named(r)' = (held'[r]["admission"].entries \union held'[r]["admission"].leases)
                        \union (held'[r]["attempt"].entries \union held'[r]["attempt"].leases)
                        \union {c.key : c \in todo'[r]}
  BY DEF Estimates, Leases, Named, Parts

\* A step that only moves a request on, or begins to count rules it had not
\* begun, keeps its invariant.
LEMMA QuietKeeps ==
  ASSUME NEW r \in Requests, RequestInv(r),
         log' = log /\ lease' = lease,
         held'[r] = held[r] /\ todo'[r] = todo[r] /\ bill'[r] = bill[r] /\ orphan'[r] = orphan[r],
         pc[r] \notin {"refusing", "refused", "ended", "closed"},
         pc'[r] \in Before => pc[r] \in Before,
         \A x \in WindowKeys : Ahead(r, x)' => Ahead(r, x),
         TaskInv(r)', PlaceInv(r)'
  PROVE  RequestInv(r)'
  <1>1. Estimates(r)' = Estimates(r) /\ Leases(r)' = Leases(r) /\ Named(r)' = Named(r)
    BY PartsOf
  <1>2. FreshInv(r)'
    BY DEF RequestInv, FreshInv
  <1>3. PartInv(r)'
    BY DEF RequestInv, PartInv
  <1>4. EstInv(r)'
    BY <1>1 DEF RequestInv, EstInv, Fresh
  <1>0. \A x, c : GoodCost(r, x, c) => GoodCost(r, x, c)'
    BY DEF GoodCost
  <1>5. CallInv(r)'
    BY <1>0, <1>1 DEF RequestInv, CallInv, Fresh
  <1>6. TokenInv(r)'
    <2>1. \A x \in WindowKeys : TokenAt(r, x) => TokenAt(r, x)'
      BY <1>0, <1>1 DEF TokenAt
    <2> QED BY <2>1 DEF RequestInv, TokenInv
  <1>7. SlotInv(r)'
    BY <1>1 DEF RequestInv, SlotInv
  <1>8. CountInv(r)'
    BY <1>1 DEF RequestInv, CountInv
  <1> QED BY <1>2, <1>3, <1>4, <1>5, <1>6, <1>7, <1>8 DEF RequestInv

\* Counting begins with the caller's own rules, goes on to the shared ones, and
\* an attempt counts those that name its model.
LEMMA BeginKeeps ==
  ASSUME LocalType, LocalType', NEW r \in Requests, RequestInv(r),
         \/ Admit(r)
         \/ EndPhase(r) /\ ~(\E k \in Rules : task[r][k] = "over")
         \/ \E m \in Models : AdmitModel(r, m)
  PROVE  RequestInv(r)'
  <1>1. CASE Admit(r)
    <2>0. /\ pc[r] = "new" /\ pc'[r] = "own" /\ log' = log /\ lease' = lease
          /\ held' = held /\ todo' = todo /\ bill' = bill /\ orphan' = orphan
          /\ handed' = handed /\ tried' = tried
          /\ task'[r] = [k \in Rules |-> IF k \in OwnRules(r, "own") THEN FirstDim(k) ELSE "done"]
      BY <1>1 DEF Admit, Begin, LocalType
    <2>1. \A x \in WindowKeys : Ahead(r, x)' => Ahead(r, x)
      BY <2>0, KeyParts DEF Ahead, OwnRules, Dimensions
    <2>2. TaskInv(r)'
      BY <2>0, DimTypes DEF RequestInv, TaskInv, OwnRules, Dimensions
    <2>3. PlaceInv(r)'
      BY <2>0, PartsOf DEF RequestInv, PlaceInv, Calling, Before, Sent
    <2> QED BY <2>0, <2>1, <2>2, <2>3, QuietKeeps DEF Before
  <1>2. CASE EndPhase(r) /\ ~(\E k \in Rules : task[r][k] = "over") /\ pc[r] = "own"
    <2>0. /\ pc[r] = "own" /\ pc'[r] = "shared" /\ log' = log /\ lease' = lease
          /\ held' = held /\ todo' = todo /\ bill' = bill /\ orphan' = orphan
          /\ handed' = handed /\ tried' = tried
          /\ task'[r] = [k \in Rules |-> IF k \in OwnRules(r, "shared") THEN FirstDim(k) ELSE "done"]
      BY <1>2 DEF EndPhase, Begin, LocalType
    <2>1. \A x \in WindowKeys : Ahead(r, x)' => Ahead(r, x)
      BY <2>0, KeyParts DEF Ahead, OwnRules, Dimensions
    <2>2. TaskInv(r)'
      BY <2>0, DimTypes DEF RequestInv, TaskInv, OwnRules, Dimensions
    <2>3. PlaceInv(r)'
      BY <2>0, PartsOf DEF RequestInv, PlaceInv, Calling, Before, Sent
    <2> QED BY <2>0, <2>1, <2>2, <2>3, QuietKeeps DEF Before
  <1>3. CASE EndPhase(r) /\ ~(\E k \in Rules : task[r][k] = "over") /\ pc[r] # "own"
    <2>0. /\ pc[r] = "shared" /\ pc'[r] = "admitted" /\ log' = log /\ lease' = lease
          /\ held' = held /\ todo' = todo /\ bill' = bill /\ orphan' = orphan
          /\ handed' = handed /\ tried' = tried
          /\ task'[r] = [k \in Rules |-> "done"]
      BY <1>3 DEF EndPhase, Begin, LocalType, Phases
    <2>1. \A x \in WindowKeys : Ahead(r, x)' => Ahead(r, x)
      BY <2>0, KeyParts DEF Ahead, Dimensions
    <2>2. TaskInv(r)'
      BY <2>0 DEF RequestInv, TaskInv, Dimensions
    <2>3. PlaceInv(r)'
      BY <2>0, PartsOf DEF RequestInv, PlaceInv, Calling, Before, Sent
    <2> QED BY <2>0, <2>1, <2>2, <2>3, QuietKeeps DEF Before
  <1>4. ASSUME NEW m \in Models, AdmitModel(r, m)
        PROVE  RequestInv(r)'
    <2>0. /\ pc[r] = "walking" /\ pc'[r] = "attempting" /\ log' = log /\ lease' = lease
          /\ held' = held /\ todo' = todo /\ bill' = bill /\ orphan' = orphan
          /\ handed' = handed /\ tried'[r] = tried[r] \union {m} /\ m \notin tried[r]
          /\ task'[r] = [k \in Rules |-> IF k \in ModelRules(m) THEN FirstDim(k) ELSE "done"]
      BY <1>4 DEF AdmitModel, Begin, LocalType
    <2>1. \A x \in WindowKeys : Ahead(r, x)' => Ahead(r, x)
      <3> SUFFICES ASSUME NEW x \in WindowKeys, Ahead(r, x)' PROVE Ahead(r, x)
        OBVIOUS
      <3>1. x[2] \in Rules
        BY KeyParts
      <3>2. CASE x[2] \in ModelRules(m)
        <4>1. m \in Names[x[2]] /\ Per[x[2]] = "model"
          BY <3>2 DEF ModelRules
        <4>2. \A n \in Names[x[2]] : n = m
          BY <3>1, <4>1, RateAssumption
        <4> QED BY <2>0, <4>1, <4>2 DEF Ahead
      <3>3. CASE x[2] \notin ModelRules(m)
        BY <2>0, <3>1, <3>3 DEF Ahead, Dimensions
      <3> QED BY <3>2, <3>3
    <2>2. TaskInv(r)'
      BY <2>0, DimTypes DEF RequestInv, TaskInv, ModelRules, Dimensions
    <2>3. PlaceInv(r)'
      BY <2>0, PartsOf DEF RequestInv, PlaceInv, Calling, Before, Sent
    <2> QED BY <2>0, <2>1, <2>2, <2>3, QuietKeeps DEF Before
  <1> QED BY <1>1, <1>2, <1>3, <1>4

\* A limit is passed over, or a phase has let the request through.
LEMMA MoveKeeps ==
  ASSUME LocalType, LocalType', NEW r \in Requests, RequestInv(r),
         HandOver(r) \/ ModelAdmitted(r) \/ (\E k \in Rules : TooLarge(r, k))
  PROVE  RequestInv(r)'
  <1>1. CASE HandOver(r)
    <2>0. /\ pc[r] = "admitted" /\ pc'[r] = "walking" /\ log' = log /\ lease' = lease
          /\ held' = held /\ todo' = todo /\ bill' = bill /\ orphan' = orphan
          /\ handed'[r] = TRUE /\ tried' = tried /\ task' = task
      BY <1>1 DEF HandOver, LocalType
    <2>1. \A x \in WindowKeys : Ahead(r, x)' => Ahead(r, x)
      BY <2>0 DEF Ahead
    <2>2. TaskInv(r)'
      BY <2>0 DEF RequestInv, TaskInv, Counting, Phases
    <2>3. PlaceInv(r)'
      BY <2>0, PartsOf DEF RequestInv, PlaceInv, Calling, Before, Sent
    <2> QED BY <2>0, <2>1, <2>2, <2>3, QuietKeeps DEF Before
  <1>2. CASE ModelAdmitted(r)
    <2>0. /\ pc[r] = "attempting" /\ pc'[r] = "attempt" /\ log' = log /\ lease' = lease
          /\ held' = held /\ todo' = todo /\ bill' = bill /\ orphan' = orphan
          /\ handed' = handed /\ tried' = tried /\ task' = task
      BY <1>2 DEF ModelAdmitted, LocalType
    <2>1. \A x \in WindowKeys : Ahead(r, x)' => Ahead(r, x)
      BY <2>0 DEF Ahead
    <2>2. TaskInv(r)'
      BY <2>0 DEF RequestInv, TaskInv, Counting, Phases
    <2>3. PlaceInv(r)'
      BY <2>0, PartsOf DEF RequestInv, PlaceInv, Calling, Before, Sent
    <2> QED BY <2>0, <2>1, <2>2, <2>3, QuietKeeps DEF Before
  <1>3. ASSUME NEW k \in Rules, TooLarge(r, k)
        PROVE  RequestInv(r)'
    <2> DEFINE v == IF k \in Report THEN NextDim(k, "tpm") ELSE "over"
    <2>0. /\ pc[r] \in Counting /\ pc' = pc /\ log' = log /\ lease' = lease
          /\ held' = held /\ todo' = todo /\ bill' = bill /\ orphan' = orphan
          /\ handed' = handed /\ tried' = tried /\ task[r][k] = "tpm"
          /\ task'[r] = [task[r] EXCEPT ![k] = v] /\ task[r] \in [Rules -> Dimensions \union {"done", "over"}]
      BY <1>3 DEF TooLarge, LocalType
    <2>4. /\ v \in {"slot", "done", "over"} /\ v \in Dims[k] \union {"done", "over"}
          /\ \A j \in Rules : task'[r][j] = IF j = k THEN v ELSE task[r][j]
      BY <2>0 DEF NextDim
    <2> HIDE DEF v
    <2>1. \A x \in WindowKeys : Ahead(r, x)' => Ahead(r, x)
      BY <2>0, <2>4, KeyParts DEF Ahead, Dimensions, Rank
    <2>2. TaskInv(r)'
      BY <2>0, <2>4 DEF RequestInv, TaskInv, Dimensions
    <2>3. PlaceInv(r)'
      BY <2>0, PartsOf DEF RequestInv, PlaceInv, Calling, Before, Sent
    <2> QED BY <2>0, <2>1, <2>2, <2>3, QuietKeeps DEF Before, Counting, Phases
  <1> QED BY <1>1, <1>2, <1>3

-----------------------------------------------------------------------------
(* The steps that give a hold back, settle it or close it.                 *)

\* Which keys the calls of a gather name, and what they settle them on.
LEMMA CallsOf ==
  /\ \A X, n : \A c \in Settles(X, n) : c.key \in X /\ c.cost = n
  /\ \A X, n : \A x \in X : \E c \in Settles(X, n) : c.key = x /\ c.cost = n
  /\ \A X, n : \A c, d \in Settles(X, n) : c.key = d.key => c = d
  /\ \A X : \A c \in Releases(X) : c.key \in X /\ c.cost = 0
  /\ \A X : \A x \in X : \E c \in Releases(X) : c.key = x
  /\ \A X, Y : \A c, d \in Settles(X, 0) \union Releases(Y) : c.key = d.key => c = d
  <1>1. \A X, n : \A c \in Settles(X, n) : \E x \in X : c = [key |-> x, cost |-> n]
    BY DEF Settles
  <1>2. \A X : \A c \in Releases(X) : \E x \in X : c = [key |-> x, cost |-> 0]
    BY DEF Releases
  <1>3. \A X, n : \A x \in X : \E c \in Settles(X, n) : c.key = x /\ c.cost = n
    <2> SUFFICES ASSUME NEW X, NEW n, NEW x \in X
                 PROVE  \E c \in Settles(X, n) : c.key = x /\ c.cost = n
      OBVIOUS
    <2>1. [key |-> x, cost |-> n] \in Settles(X, n)
      BY DEF Settles
    <2> QED BY <2>1
  <1>4. \A X : \A x \in X : \E c \in Releases(X) : c.key = x
    <2> SUFFICES ASSUME NEW X, NEW x \in X
                 PROVE  \E c \in Releases(X) : c.key = x
      OBVIOUS
    <2>1. [key |-> x, cost |-> 0] \in Releases(X)
      BY DEF Releases
    <2> QED BY <2>1
  <1>5. \A X, n : \A c, d \in Settles(X, n) : c.key = d.key => c = d
    BY <1>1
  <1>6. \A X, Y : \A c \in Settles(X, 0) \union Releases(Y) : \E x : c = [key |-> x, cost |-> 0]
    BY <1>1, <1>2
  <1>7. \A X, Y : \A c, d \in Settles(X, 0) \union Releases(Y) : c.key = d.key => c = d
    BY <1>6
  <1>8. \A X, n : \A c \in Settles(X, n) : c.key \in X /\ c.cost = n
    BY <1>1
  <1>9. \A X : \A c \in Releases(X) : c.key \in X /\ c.cost = 0
    BY <1>2
  <1> QED BY <1>3, <1>4, <1>5, <1>7, <1>8, <1>9

\* The calls of _undo name all a hold took, each once and at no cost.
LEMMA UndoOf ==
  ASSUME NEW hold \in Hold
  PROVE  /\ \A c \in Undo(hold) : c.cost = 0 /\ c.key \in hold.entries \union hold.leases
         /\ \A x \in hold.entries \union hold.leases : \E c \in Undo(hold) : c.key = x /\ c.cost = 0
         /\ \A c, d \in Undo(hold) : c.key = d.key => c = d
  BY CallsOf DEF Undo

\* After a step that awaits calls the request counts nothing.
LEMMA AwaitMoves ==
  ASSUME LocalType, NEW r \in Requests, NEW state \in Calling, NEW calls, Await(r, state, calls)
  PROVE  /\ todo'[r] = calls
         /\ pc'[r] = IF calls = {} THEN After(state) ELSE state
         /\ pc'[r] \notin Counting /\ pc'[r] # "new"
         /\ pc'[r] \notin Calling => calls = {}
  BY DEF Await, LocalType, After, Calling, Counting, Phases

\* What a step that awaits calls and touches no store has to keep: every slot
\* named, every estimate named or about to be settled for good, and nothing
\* named twice.
LEMMA OweKeeps ==
  ASSUME LocalType, LocalType', NEW r \in Requests, RequestInv(r), log' = log, lease' = lease,
         orphan'[r] = orphan[r], task'[r] = task[r], tried'[r] = tried[r],
         todo[r] = {}, pc[r] # "closed", pc'[r] \notin Counting, pc'[r] # "new",
         PlaceInv(r)', PartInv(r)',
         Estimates(r)' \subseteq Estimates(r),
         \A c \in todo'[r] : c.key \in WindowKeys =>
           /\ c.key \notin Estimates(r)'
           /\ c.cost = 0 \/ c.key \in Estimates(r)
           /\ GoodCost(r, c.key, c.cost)'
           /\ \A d \in todo'[r] : d.key = c.key => d = c,
         ~(pc'[r] = "closed" /\ bill'[r] = Unsettled) =>
           /\ \A x \in Estimates(r) : x \in Estimates(r)' \/ \E c \in todo'[r] : c.key = x
           /\ \A x \in WindowKeys : \A n : GoodCost(r, x, n) => GoodCost(r, x, n)',
         \A x \in SlotKeys : x \in Named(r) => x \in Named(r)',
         pc'[r] \in Before => pc[r] \in Before /\ Named(r) \subseteq Named(r)'
  PROVE  RequestInv(r)'
  <1>1. FreshInv(r)' /\ TaskInv(r)'
    <2>1. \A x \in WindowKeys : Ahead(r, x)' => Ahead(r, x)
      BY DEF Ahead, Counting, Phases
    <2>2. pc'[r] # "attempting"
      BY DEF Counting
    <2> QED BY <2>1, <2>2 DEF RequestInv, FreshInv, TaskInv
  <1>2. EstInv(r)'
    BY DEF RequestInv, EstInv, Fresh
  <1>3. CallInv(r)'
    <2>1. \A x \in Estimates(r) : Fresh(x, r)'
      BY DEF RequestInv, EstInv, Fresh
    <2> QED BY <2>1 DEF CallInv
  <1>4. TokenInv(r)'
    <2> SUFFICES ASSUME ~(pc'[r] = "closed" /\ bill'[r] = Unsettled),
                        NEW x \in WindowKeys, x[3] = "tpm", log[x][r].age # Gone
                 PROVE  TokenAt(r, x)'
      BY DEF TokenInv
    <2>1. TokenAt(r, x)
      BY DEF RequestInv, TokenInv
    <2>2. x \in orphan[r] \/ x \in Estimates(r) \/ GoodCost(r, x, log[x][r].cost)
      BY <2>1 DEF TokenAt
    <2>3. GoodCost(r, x, log[x][r].cost) => GoodCost(r, x, log[x][r].cost)'
      OBVIOUS
    <2>4. GoodCost(r, x, log[x][r].cost)' => TokenAt(r, x)'
      BY DEF TokenAt
    <2>5. x \in Estimates(r) => TokenAt(r, x)'
      BY DEF TokenAt
    <2> QED BY <2>2, <2>3, <2>4, <2>5 DEF TokenAt
  <1>5. SlotInv(r)'
    BY DEF RequestInv, SlotInv
  <1>6. CountInv(r)'
    BY DEF RequestInv, CountInv
  <1> QED BY <1>1, <1>2, <1>3, <1>4, <1>5, <1>6 DEF RequestInv

\* A phase that refuses the request gives back all that admission took.
LEMMA RefuseKeeps ==
  ASSUME LocalType, LocalType', NEW r \in Requests, RequestInv(r),
         EndPhase(r), \E k \in Rules : task[r][k] = "over"
  PROVE  RequestInv(r)'
  <1> DEFINE adm == held[r]["admission"]
  <1>0. /\ pc[r] \in Phases /\ Await(r, "refusing", Undo(adm)) /\ log' = log /\ lease' = lease
        /\ held'[r] = [held[r] EXCEPT !["admission"] = NoHold]
        /\ bill' = bill /\ orphan' = orphan /\ handed' = handed /\ tried' = tried /\ task' = task
    BY DEF EndPhase, LocalType
  <1>1. /\ todo'[r] = Undo(adm) /\ pc'[r] \in {"refusing", "refused"}
        /\ pc'[r] \notin Calling => Undo(adm) = {}
    <2>1. "refusing" \in Calling
      BY DEF Calling
    <2> QED BY <1>0, <2>1, AwaitMoves DEF After
  <1>2. /\ held[r]["attempt"] = NoHold /\ todo[r] = {} /\ ~handed[r] /\ bill[r] = Unsettled
    BY <1>0 DEF RequestInv, PlaceInv, Before, Phases, Calling
  <1>3. held'[r]["admission"] = NoHold /\ held'[r]["attempt"] = NoHold /\ adm \in Hold
    BY <1>0, <1>2 DEF LocalType, Parts
  <1>4. /\ Estimates(r)' = {} /\ Estimates(r) = adm.estimates /\ adm.estimates \subseteq adm.entries
        /\ Leases(r)' = {} /\ Named(r) = adm.entries \union adm.leases
        /\ Named(r)' = {c.key : c \in Undo(adm)}
    <2>1. adm.estimates \subseteq adm.entries
      BY DEF RequestInv, PartInv, Parts
    <2>2. NoHold.entries = {} /\ NoHold.estimates = {} /\ NoHold.leases = {}
      BY DEF NoHold
    <2>3. {c.key : c \in todo[r]} = {}
      BY <1>2
    <2>4. /\ Estimates(r)' = {} /\ Estimates(r) = adm.estimates /\ Leases(r)' = {}
      BY <1>2, <1>3, <2>2, PartsOf
    <2>5. Named(r) = adm.entries \union adm.leases
      BY <1>2, <2>2, <2>3, PartsOf
    <2>6. Named(r)' = {c.key : c \in Undo(adm)}
      BY <1>1, <1>3, <2>2, PartsOf
    <2> QED BY <2>1, <2>4, <2>5, <2>6
  <1>5. Named(r) \subseteq Named(r)'
    BY <1>3, <1>4, UndoOf
  <1>6. PlaceInv(r)'
    BY <1>0, <1>1, <1>2, <1>3, <1>4, UndoOf DEF PlaceInv, Calling, Before, Sent
  <1>7. PartInv(r)'
    BY <1>3 DEF PartInv, NoHold, Parts
  <1>8. \A x \in Estimates(r) : \E c \in todo'[r] : c.key = x
    BY <1>1, <1>3, <1>4, UndoOf
  <1>9. \A x, n : GoodCost(r, x, n) => GoodCost(r, x, n)'
    BY <1>0, <1>1, <1>2 DEF GoodCost
  <1>10. \A c \in todo'[r] : /\ c.cost = 0 /\ GoodCost(r, c.key, c.cost)'
                             /\ \A d \in todo'[r] : d.key = c.key => d = c
    <2>1. \A x : GoodCost(r, x, 0)'
      BY <1>0, <1>1, <1>2 DEF GoodCost
    <2> QED BY <1>1, <1>3, <2>1, UndoOf
  <1> HIDE DEF adm
  <1> QED BY <1>0, <1>1, <1>2, <1>4, <1>5, <1>6, <1>7, <1>8, <1>9, <1>10, OweKeeps
      DEF Phases, Counting, Before

\* An attempt that is refused or dropped gives its hold back; one that was sent
\* keeps its requests counted.
LEMMA AttemptKeeps ==
  ASSUME LocalType, LocalType', NEW r \in Requests, RequestInv(r),
         ModelRefused(r) \/ (\E sent \in BOOLEAN : Drop(r, sent))
  PROVE  RequestInv(r)'
  <1> DEFINE att == held[r]["attempt"]
             adm == held[r]["admission"]
             Charge == Settles(att.estimates, 0) \union Releases(att.leases)
  <1>0. PICK calls \in {Undo(att), Charge}, state \in {"unadmitting", "dropping"} :
          /\ pc[r] \in {"attempting", "attempt"} /\ Await(r, state, calls) /\ log' = log /\ lease' = lease
          /\ held'[r] = [held[r] EXCEPT !["attempt"] = NoHold]
          /\ bill' = bill /\ orphan' = orphan /\ handed' = handed /\ tried' = tried /\ task' = task
    BY DEF ModelRefused, Drop, LocalType
  <1>1. /\ todo'[r] = calls /\ pc'[r] \in {"unadmitting", "dropping", "walking"}
        /\ pc'[r] \notin Calling => calls = {}
    <2>1. state \in Calling
      BY DEF Calling
    <2> QED BY <1>0, <2>1, AwaitMoves DEF After
  <1>2. todo[r] = {} /\ handed[r] /\ bill[r] = Unsettled
    BY <1>0 DEF RequestInv, PlaceInv, Before, Calling, Sent
  <1>3. /\ held'[r]["admission"] = adm /\ held'[r]["attempt"] = NoHold /\ att \in Hold
        /\ adm.estimates \subseteq adm.entries /\ att.estimates \subseteq att.entries
    BY <1>0 DEF LocalType, Parts, RequestInv, PartInv
  <1>4. /\ Estimates(r)' = adm.estimates /\ Estimates(r) = adm.estimates \union att.estimates
        /\ Named(r) = (adm.entries \union adm.leases) \union (att.entries \union att.leases)
        /\ Named(r)' = (adm.entries \union adm.leases) \union {c.key : c \in calls}
    <2>2. NoHold.entries = {} /\ NoHold.estimates = {} /\ NoHold.leases = {}
      BY DEF NoHold
    <2>3. {c.key : c \in todo[r]} = {}
      BY <1>2
    <2>4. Estimates(r)' = adm.estimates /\ Estimates(r) = adm.estimates \union att.estimates
      BY <1>3, <2>2, PartsOf
    <2>5. Named(r) = (adm.entries \union adm.leases) \union (att.entries \union att.leases)
      BY <2>3, PartsOf
    <2>6. Named(r)' = (adm.entries \union adm.leases) \union {c.key : c \in calls}
      BY <1>1, <1>3, <2>2, PartsOf
    <2> QED BY <2>4, <2>5, <2>6
  <1>5. /\ \A c \in calls : /\ c.cost = 0 /\ c.key \in att.entries \union att.leases
                            /\ \A d \in calls : d.key = c.key => d = c
        /\ \A x \in att.estimates \union att.leases : \E c \in calls : c.key = x /\ c.cost = 0
    <2>1. CASE calls = Undo(att)
      BY <1>3, <2>1, UndoOf
    <2>2. CASE calls = Charge
      BY <1>3, <2>2, CallsOf
    <2> QED BY <2>1, <2>2
  <1> HIDE DEF Charge
  <1>6. att.entries \in SUBSET WindowKeys /\ att.leases \in SUBSET SlotKeys /\ adm.entries \in SUBSET WindowKeys
    BY HeldTypes DEF Parts
  <1>7. PlaceInv(r)'
    BY <1>0, <1>1, <1>2, <1>3 DEF PlaceInv, Calling, Before, Sent
  <1>8. PartInv(r)'
    BY <1>3 DEF PartInv, NoHold, Parts, RequestInv
  <1>9. (\A x \in adm.entries : Per[x[2]] # "model") /\ (\A x \in att.entries : Per[x[2]] = "model")
    BY DEF RequestInv, PartInv
  <1>10. \A x \in Estimates(r) : x \in Estimates(r)' \/ \E c \in todo'[r] : c.key = x
    BY <1>1, <1>4, <1>5
  <1>11. \A x, n : GoodCost(r, x, n) => GoodCost(r, x, n)'
    BY <1>0, <1>2 DEF GoodCost
  <1>12. \A c \in todo'[r] : c.key \in WindowKeys =>
           /\ c.key \notin Estimates(r)' /\ c.cost = 0 /\ GoodCost(r, c.key, c.cost)'
           /\ \A d \in todo'[r] : d.key = c.key => d = c
    <2>1. \A c \in calls : c.key \in WindowKeys => c.key \in att.entries
      BY <1>5, <1>6, KeyParts
    <2>2. \A x \in att.entries : GoodCost(r, x, 0)'
      BY <1>0, <1>2, <1>9 DEF GoodCost
    <2> QED BY <1>1, <1>3, <1>4, <1>5, <1>9, <2>1, <2>2
  <1>13. \A x \in SlotKeys : x \in Named(r) => x \in Named(r)'
    BY <1>4, <1>5, <1>6, KeyParts
  <1> HIDE DEF adm, att
  <1>14. Estimates(r)' \subseteq Estimates(r)
    BY <1>4
  <1> QED BY <1>0, <1>1, <1>2, <1>7, <1>8, <1>10, <1>11, <1>12, <1>13, <1>14, OweKeeps
      DEF Phases, Counting, Before

\* What settling and releasing leave of the holds.
LEMMA ClearedOf ==
  ASSUME LocalType, NEW r \in Requests
  PROVE  /\ \A h \in Parts : /\ Settled(r)[r][h].estimates = {}
                             /\ Settled(r)[r][h].entries = held[r][h].entries
                             /\ Settled(r)[r][h].leases = held[r][h].leases
                             /\ Released(r)[r][h].leases = {}
                             /\ Released(r)[r][h].entries = held[r][h].entries
                             /\ Released(r)[r][h].estimates = held[r][h].estimates
  <1>1. /\ Settled(r)[r] = [h \in Parts |-> [held[r][h] EXCEPT !.estimates = {}]]
        /\ Released(r)[r] = [h \in Parts |-> [held[r][h] EXCEPT !.leases = {}]]
    BY DEF Settled, Released, LocalType
  <1>2. \A h \in Parts : held[r][h] \in Hold
    BY DEF LocalType
  <1> QED BY <1>1, <1>2 DEF Hold

\* The parts of a request's hold once settled or released.
LEMMA ClearedKeys ==
  ASSUME LocalType, NEW r \in Requests
  PROVE  /\ held' = Settled(r) =>
              /\ Estimates(r)' = {} /\ Leases(r)' = Leases(r)
              /\ Named(r) \subseteq Named(r)' \union {c.key : c \in todo[r]}
              /\ PartInv(r) => PartInv(r)'
         /\ held' = Released(r) =>
              /\ Estimates(r)' = Estimates(r) /\ Leases(r)' = {}
              /\ Named(r) \subseteq Named(r)' \union Leases(r) \union {c.key : c \in todo[r]}
              /\ PartInv(r) => PartInv(r)'
  <1>0. "admission" \in Parts /\ "attempt" \in Parts
    BY DEF Parts
  <1>1. ASSUME held' = Settled(r)
        PROVE  /\ Estimates(r)' = {} /\ Leases(r)' = Leases(r)
               /\ Named(r) \subseteq Named(r)' \union {c.key : c \in todo[r]}
               /\ PartInv(r) => PartInv(r)'
    <2>1. \A h \in Parts : /\ held'[r][h].estimates = {} /\ held'[r][h].entries = held[r][h].entries
                           /\ held'[r][h].leases = held[r][h].leases
      BY <1>1, ClearedOf
    <2>2. Estimates(r)' = {} /\ Leases(r)' = Leases(r)
      BY <1>0, <2>1, PartsOf
    <2>3. Named(r) \subseteq Named(r)' \union {c.key : c \in todo[r]}
      BY <1>0, <2>1, PartsOf
    <2>4. PartInv(r) => PartInv(r)'
      BY <1>0, <2>1 DEF PartInv
    <2> QED BY <2>2, <2>3, <2>4
  <1>2. ASSUME held' = Released(r)
        PROVE  /\ Estimates(r)' = Estimates(r) /\ Leases(r)' = {}
               /\ Named(r) \subseteq Named(r)' \union Leases(r) \union {c.key : c \in todo[r]}
               /\ PartInv(r) => PartInv(r)'
    <2>1. \A h \in Parts : /\ held'[r][h].leases = {} /\ held'[r][h].entries = held[r][h].entries
                           /\ held'[r][h].estimates = held[r][h].estimates
      BY <1>2, ClearedOf
    <2>2. Estimates(r)' = Estimates(r) /\ Leases(r)' = {}
      BY <1>0, <2>1, PartsOf
    <2>3. Named(r) \subseteq Named(r)' \union Leases(r) \union {c.key : c \in todo[r]}
      BY <1>0, <2>1, PartsOf
    <2>4. PartInv(r) => PartInv(r)'
      BY <1>0, <2>1 DEF PartInv
    <2> QED BY <2>2, <2>3, <2>4
  <1> QED BY <1>1, <1>2

\* The estimates are settled on what the request used, all at once.
LEMMA SettleKeeps ==
  ASSUME LocalType, LocalType', NEW r \in Requests, RequestInv(r), Settle(r)
  PROVE  RequestInv(r)'
  <1> DEFINE calls == Settles(Estimates(r), Used[r])
  <1>0. /\ pc[r] \in {"walking", "attempt"} /\ Await(r, "settling", calls) /\ log' = log /\ lease' = lease
        /\ held' = Settled(r) /\ bill'[r] = Used[r]
        /\ orphan' = orphan /\ handed' = handed /\ tried' = tried /\ task' = task
    BY DEF Settle, LocalType
  <1>1. /\ todo'[r] = calls /\ pc'[r] \in {"settling", "settled"}
        /\ pc'[r] \notin Calling => calls = {}
    <2>1. "settling" \in Calling
      BY DEF Calling
    <2> QED BY <1>0, <2>1, AwaitMoves DEF After
  <1>2. todo[r] = {} /\ handed[r] /\ bill[r] = Unsettled
    BY <1>0 DEF RequestInv, PlaceInv, Before, Calling, Sent
  <1>3. Estimates(r)' = {} /\ PartInv(r)' /\ Named(r) \subseteq Named(r)'
    BY <1>0, <1>2, ClearedKeys DEF RequestInv
  <1>4. bill'[r] # Unsettled
    BY <1>0, RateAssumption DEF Unsettled
  <1>5. PlaceInv(r)'
    BY <1>0, <1>1, <1>2, <1>3 DEF PlaceInv, Calling, Before, Sent
  <1>6. \A x \in Estimates(r) : \E c \in todo'[r] : c.key = x
    BY <1>1, CallsOf
  <1>7. \A x, n : GoodCost(r, x, n) => GoodCost(r, x, n)'
    BY <1>0, <1>2, <1>4 DEF GoodCost
  <1>8. \A c \in todo'[r] : /\ c.key \in Estimates(r) /\ GoodCost(r, c.key, c.cost)'
                            /\ \A d \in todo'[r] : d.key = c.key => d = c
    <2>1. \A x : GoodCost(r, x, Used[r])'
      BY <1>0, <1>4 DEF GoodCost
    <2>2. \A c \in calls : /\ c.key \in Estimates(r) /\ c.cost = Used[r]
                          /\ \A d \in calls : d.key = c.key => d = c
      BY CallsOf
    <2> HIDE DEF calls
    <2> QED BY <1>1, <2>1, <2>2
  <1> HIDE DEF calls
  <1> QED BY <1>0, <1>1, <1>2, <1>3, <1>5, <1>6, <1>7, <1>8, OweKeeps DEF Phases, Counting, Before

\* Closing settles a request that was never handed over on nothing.
LEMMA CloseKeeps ==
  ASSUME LocalType, LocalType', NEW r \in Requests, RequestInv(r), Close(r)
  PROVE  RequestInv(r)'
  <1>0. /\ pc[r] \in {"refused", "admitted", "walking", "attempt", "settled", "ended"}
        /\ log' = log /\ lease' = lease
        /\ orphan' = orphan /\ handed' = handed /\ tried' = tried /\ task' = task
    BY DEF Close
  <1>1. todo[r] = {}
    BY <1>0 DEF RequestInv, PlaceInv, Calling
  <1>2. "closing" \in Calling /\ After("closing") = "closing"
    BY DEF Calling, After
  <1>3. CASE handed[r]
    <2>1. Await(r, "closing", {}) /\ held' = held /\ bill' = bill
      BY <1>3 DEF Close
    <2>2. todo'[r] = {} /\ pc'[r] = "closing"
      BY <1>2, <2>1, AwaitMoves
    <2>3. Estimates(r)' = Estimates(r) /\ Leases(r)' = Leases(r) /\ Named(r)' = Named(r)
      <3>1. held'[r] = held[r] /\ todo'[r] = todo[r]
        BY <1>1, <2>1, <2>2
      <3> QED BY <3>1, PartsOf
    <2>4. PlaceInv(r)'
      BY <1>0, <1>3, <2>1, <2>2, <2>3 DEF RequestInv, PlaceInv, Calling, Before, Sent
    <2>5. PartInv(r)'
      BY <2>1 DEF RequestInv, PartInv
    <2>6. \A x, n : GoodCost(r, x, n) => GoodCost(r, x, n)'
      BY <1>0, <1>3, <2>1 DEF GoodCost
    <2> QED BY <1>0, <1>1, <2>2, <2>3, <2>4, <2>5, <2>6, OweKeeps DEF Phases, Counting, Before
  <1>4. CASE ~handed[r]
    <2> DEFINE calls == Settles(Estimates(r), 0)
    <2>1. Await(r, "closing", calls) /\ held' = Settled(r) /\ bill'[r] = 0
      BY <1>4 DEF Close, LocalType
    <2>2. todo'[r] = calls /\ pc'[r] = "closing"
      BY <1>2, <2>1, AwaitMoves
    <2>3. bill[r] = Unsettled /\ bill'[r] # Unsettled
      BY <1>0, <1>4, <2>1 DEF RequestInv, PlaceInv, Unsettled
    <2>4. Estimates(r)' = {} /\ PartInv(r)' /\ Named(r) \subseteq Named(r)'
      BY <1>1, <2>1, ClearedKeys DEF RequestInv
    <2>5. PlaceInv(r)'
      BY <1>0, <1>4, <2>2, <2>4 DEF PlaceInv, Calling, Before, Sent
    <2>6. \A x \in Estimates(r) : \E c \in todo'[r] : c.key = x
      <3>1. \A x \in Estimates(r) : \E c \in calls : c.key = x
        BY CallsOf
      <3> HIDE DEF calls
      <3> QED BY <2>2, <3>1
    <2>7. \A x, n : GoodCost(r, x, n) => GoodCost(r, x, n)'
      BY <2>1, <2>3 DEF GoodCost
    <2>8. \A c \in todo'[r] : /\ c.key \in Estimates(r) /\ GoodCost(r, c.key, c.cost)'
                              /\ \A d \in todo'[r] : d.key = c.key => d = c
      <3>1. \A x : GoodCost(r, x, 0)'
        BY <2>1, <2>3 DEF GoodCost
      <3>2. \A c \in calls : /\ c.key \in Estimates(r) /\ c.cost = 0
                            /\ \A d \in calls : d.key = c.key => d = c
        BY CallsOf
      <3> HIDE DEF calls
      <3> QED BY <2>2, <3>1, <3>2
    <2> HIDE DEF calls
    <2> QED BY <1>0, <1>1, <2>2, <2>4, <2>5, <2>6, <2>7, <2>8, OweKeeps DEF Phases, Counting, Before
  <1> QED BY <1>3, <1>4

\* Releasing gives back every slot the grant names.
LEMMA ReleaseKeeps ==
  ASSUME LocalType, LocalType', NEW r \in Requests, RequestInv(r), Release(r)
  PROVE  RequestInv(r)'
  <1> DEFINE calls == Releases(Leases(r))
  <1>0. /\ pc[r] = "closing" /\ todo[r] = {} /\ Await(r, "releasing", calls) /\ log' = log /\ lease' = lease
        /\ held' = Released(r) /\ bill' = bill
        /\ orphan' = orphan /\ handed' = handed /\ tried' = tried /\ task' = task
    BY DEF Release
  <1>1. /\ todo'[r] = calls /\ pc'[r] \in {"releasing", "closed"}
        /\ pc'[r] \notin Calling => calls = {}
    <2>1. "releasing" \in Calling
      BY DEF Calling
    <2> QED BY <1>0, <2>1, AwaitMoves DEF After
  <1>2. /\ Estimates(r)' = Estimates(r) /\ Leases(r)' = {} /\ PartInv(r)'
        /\ Named(r) \subseteq Named(r)' \union Leases(r)
    BY <1>0, ClearedKeys DEF RequestInv
  <1>3. \A c \in calls : c.key \in SlotKeys
    BY CallsOf, HeldTypes
  <1>4. Leases(r) \subseteq Named(r)'
    <2>1. {c.key : c \in calls} \subseteq Named(r)'
      BY <1>1, PartsOf
    <2>2. \A x \in Leases(r) : \E c \in calls : c.key = x
      BY CallsOf
    <2> HIDE DEF calls
    <2> QED BY <2>1, <2>2
  <1>5. PlaceInv(r)'
    BY <1>0, <1>1, <1>2 DEF RequestInv, PlaceInv, Calling, Before, Sent
  <1>6. \A x, n : GoodCost(r, x, n) => GoodCost(r, x, n)'
    BY <1>0 DEF GoodCost
  <1>7. \A c \in todo'[r] : c.key \notin WindowKeys
    BY <1>1, <1>3, KeyParts
  <1> HIDE DEF calls
  <1> QED BY <1>0, <1>1, <1>2, <1>4, <1>5, <1>6, <1>7, OweKeeps DEF Phases, Counting, Before

-----------------------------------------------------------------------------
(* The steps that call a store.                                            *)

\* What a task is about to hit the request is not in yet.
LEMMA HitsFresh ==
  ASSUME NEW r \in Requests, RequestInv(r), NEW k \in Rules, Callable(r, k), NEW s \in Stores
  PROVE  /\ <<s, k, task[r][k]>> \in Keys
         /\ <<s, k, task[r][k]>> \in WindowKeys => log[<<s, k, task[r][k]>>][r] = NoEntry
  <1>1. task[r][k] \in Dimensions /\ task[r][k] \in Dims[k]
    BY DEF Callable, Pending, RequestInv, TaskInv, Dimensions
  <1>2. Ahead(r, <<s, k, task[r][k]>>)
    BY <1>1 DEF Ahead, Rank, Dimensions
  <1> QED BY <1>1, <1>2, KeyAt DEF RequestInv, FreshInv

\* The next limit of a rule is a later one.
LEMMA NextLater ==
  ASSUME NEW k \in Rules, NEW d \in Dims[k]
  PROVE  /\ NextDim(k, d) \in Dims[k] \union {"done"}
         /\ NextDim(k, d) \in Dimensions => Rank[d] < Rank[NextDim(k, d)]
  <1>1. d \in Dimensions
    BY RateAssumption
  <1> QED BY <1>1 DEF NextDim, Rank, Dimensions

\* What a hit or an acquire adds to the hold of its request.
LEMMA NotedOf ==
  ASSUME LocalType, NEW r \in Requests, NEW k \in Rules, NEW x \in Keys, Noted(r, k, x)
  PROVE  /\ \A h \in Parts : /\ held[r][h].entries \subseteq held'[r][h].entries
                             /\ held'[r][h].entries \subseteq held[r][h].entries \union {x}
                             /\ h # Part(r) => held'[r][h] = held[r][h]
         /\ Named(r) \subseteq Named(r)' \union {c.key : c \in todo[r]}
         /\ Granted(x, r) => x \in Named(r)'
         /\ Estimates(r) \subseteq Estimates(r)'
         /\ Estimates(r)' \subseteq Estimates(r) \union {x}
         /\ ~Granted(x, r) => Estimates(r)' = Estimates(r)
         /\ Granted(x, r) /\ x[3] = "tpm" => x \in Estimates(r)'
         /\ \A h \in Parts : held[r][h].estimates \subseteq held[r][h].entries =>
                             held'[r][h].estimates \subseteq held'[r][h].entries
  <1>0. Part(r) \in Parts /\ "admission" \in Parts /\ "attempt" \in Parts /\ Parts = {"admission", "attempt"}
    BY DEF Part, Parts
  <1>1. CASE ~Granted(x, r)
    <2>1. held' = held
      BY <1>1 DEF Noted
    <2>2. Named(r) \subseteq Named(r)' \union {c.key : c \in todo[r]}
      BY <2>1, PartsOf
    <2>3. Estimates(r)' = Estimates(r)
      BY <2>1, PartsOf
    <2> QED BY <1>1, <2>1, <2>2, <2>3
  <1>2. CASE Granted(x, r)
    <2> DEFINE old == held[r][Part(r)]
               new == held'[r][Part(r)]
               tok == IF x[3] = "tpm" THEN {x} ELSE {}
    <2>1. /\ new = [entries |-> old.entries \union ({x} \ SlotKeys),
                    estimates |-> old.estimates \union tok,
                    leases |-> old.leases \union ({x} \intersect SlotKeys)]
          /\ \A h \in Parts : h # Part(r) => held'[r][h] = held[r][h]
      <3> DEFINE g == [entries |-> old.entries \union ({x} \ SlotKeys),
                       estimates |-> old.estimates \union tok,
                       leases |-> old.leases \union ({x} \intersect SlotKeys)]
      <3>1. held' = [held EXCEPT ![r][Part(r)] = g]
        BY <1>2 DEF Noted
      <3>2. held[r] \in [Parts -> Hold] /\ held \in [Requests -> [Parts -> Hold]]
        BY DEF LocalType
      <3>3. held'[r] = [held[r] EXCEPT ![Part(r)] = g]
        <4> HIDE DEF g
        <4> QED BY <3>1, <3>2
      <3>4. held'[r][Part(r)] = g /\ \A h \in Parts : h # Part(r) => held'[r][h] = held[r][h]
        <4> HIDE DEF g
        <4> QED BY <1>0, <3>2, <3>3
      <3> QED BY <3>4
    <2>2. /\ new.entries = old.entries \union ({x} \ SlotKeys)
          /\ new.estimates = old.estimates \union tok
          /\ new.leases = old.leases \union ({x} \intersect SlotKeys)
      BY <2>1
    <2>3. tok \subseteq {x} \ SlotKeys
      BY KeyParts
    <2>4. /\ \A h \in Parts : /\ held[r][h].entries \subseteq held'[r][h].entries
                              /\ held'[r][h].entries \subseteq held[r][h].entries \union {x}
                              /\ held[r][h].leases \subseteq held'[r][h].leases
                              /\ held[r][h].estimates \subseteq held'[r][h].estimates
                              /\ held'[r][h].estimates \subseteq held[r][h].estimates \union tok
          /\ x \in new.entries \union new.leases
      BY <2>1, <2>2
    <2>5. Named(r) \subseteq Named(r)' \union {c.key : c \in todo[r]}
      BY <1>0, <2>4, PartsOf
    <2>6. x \in Named(r)'
      BY <1>0, <2>4, PartsOf
    <2>7. Estimates(r) \subseteq Estimates(r)' /\ Estimates(r)' \subseteq Estimates(r) \union {x}
      BY <1>0, <2>4, PartsOf
    <2>8. x[3] = "tpm" => x \in Estimates(r)'
      <3>1. x[3] = "tpm" => x \in new.estimates
        BY <2>2
      <3> QED BY <1>0, <3>1, PartsOf
    <2>9. \A h \in Parts : held[r][h].estimates \subseteq held[r][h].entries =>
                           held'[r][h].estimates \subseteq held'[r][h].entries
      <3> SUFFICES ASSUME NEW h \in Parts, held[r][h].estimates \subseteq held[r][h].entries
                   PROVE  held'[r][h].estimates \subseteq held'[r][h].entries
        OBVIOUS
      <3>1. CASE h = Part(r)
        BY <2>2, <2>3, <3>1
      <3>2. CASE h # Part(r)
        BY <2>1, <3>2
      <3> QED BY <3>1, <3>2
    <2> HIDE DEF old, new, tok
    <2> QED BY <1>2, <2>1, <2>4, <2>5, <2>6, <2>7, <2>8, <2>9
  <1> QED BY <1>1, <1>2

\* A limit is counted by the store that answers, and by Redis without an answer.
LEMMA CountKeeps ==
  ASSUME LocalType, LocalType', StoreInv, NEW r \in Requests, RequestInv(r),
         NEW k \in Rules, CountRule(r, k)
  PROVE  /\ StoreInv' /\ RequestInv(r)'
         /\ \A q \in Requests \ {r} : Faded(q)
  <1> DEFINE d == task[r][k]
             p == ProcOf[r]
             at(s) == <<s, k, d>>
  <1>0. /\ Callable(r, k) /\ pc[r] \in Counting /\ d \in Dims[k] /\ d \in Dimensions
        /\ p \in Stores /\ Redis \in Stores
        /\ pc' = pc /\ handed' = handed /\ todo' = todo /\ tried' = tried /\ bill' = bill
    BY StoreOf DEF CountRule, Callable, Pending, RequestInv, TaskInv, Dimensions
  <1>1. PICK s \in Stores, H \in SUBSET {at(Redis), at(p)} :
          /\ Take(r, H) /\ Noted(r, k, at(s)) /\ at(s) \in H
          /\ orphan[r] \subseteq orphan'[r]
          /\ \A x \in H : Granted(x, r) => x = at(s) \/ x \in orphan'[r]
    <2>1. CASE Take(r, {at(Redis)}) /\ Noted(r, k, at(Redis)) /\ UNCHANGED orphan
      BY <1>0, <2>1
    <2>2. CASE Take(r, {at(p)}) /\ Noted(r, k, at(p)) /\ UNCHANGED orphan
      BY <1>0, <2>2
    <2>3. CASE /\ Take(r, {at(Redis), at(p)}) /\ Noted(r, k, at(p))
               /\ orphan' = [orphan EXCEPT ![r] = @ \union Stray(r, {at(Redis)})]
      <3>1. orphan'[r] = orphan[r] \union Stray(r, {at(Redis)})
        BY <2>3 DEF LocalType
      <3>2. Granted(at(Redis), r) => at(Redis) \in orphan'[r]
        BY <3>1 DEF Stray
      <3>3. /\ Take(r, {at(Redis), at(p)}) /\ Noted(r, k, at(p)) /\ at(p) \in {at(Redis), at(p)}
            /\ orphan[r] \subseteq orphan'[r]
            /\ \A x \in {at(Redis), at(p)} : Granted(x, r) => x = at(p) \/ x \in orphan'[r]
        BY <2>3, <3>1, <3>2
      <3>4. p \in Stores
        BY <1>0
      <3> HIDE DEF at, p
      <3> QED BY <3>3, <3>4
    <2> QED BY <2>1, <2>2, <2>3 DEF CountRule
  <1> DEFINE x0 == at(s)
  <1>2. /\ x0 \in Keys /\ x0[2] = k /\ x0[3] = d
        /\ \A x \in H : x \in Keys /\ x[2] = k /\ x[3] = d /\ (x \in WindowKeys => log[x][r] = NoEntry)
    BY <1>0, <1>1, HitsFresh
  <1>3. StoreInv'
    BY <1>1, <1>2, TakeStore
  <1>4. /\ \A q \in Requests \ {r} : Faded(q)
        /\ \A x \in WindowKeys :
             IF x \in H /\ Granted(x, r) THEN log'[x][r] = [age |-> 0, cost |-> Cost(x, r)]
                                         ELSE FadedAt(r, x)
        /\ \A x \in SlotKeys : ~(x \in H /\ Granted(x, r)) => lease'[x][r] = lease[x][r]
    BY <1>1, TakeEffect
  <1> DEFINE v == task'[r][k]
  <1>5. /\ v \in Dims[k] \union {"done", "over"} /\ (v \in Dimensions => Rank[d] < Rank[v])
        /\ \A j \in Rules \ {k} : task'[r][j] = task[r][j]
    <2>1. \/ task' = [task EXCEPT ![r][k] = NextDim(k, x0[3])]
          \/ task' = [task EXCEPT ![r][k] = "over"]
      BY <1>1 DEF Noted
    <2>2. v \in {NextDim(k, d), "over"} /\ \A j \in Rules \ {k} : task'[r][j] = task[r][j]
      BY <1>2, <2>1 DEF LocalType
    <2> QED BY <1>0, <2>2, NextLater DEF Dimensions
  <1>6. /\ todo[r] = {} /\ bill[r] = Unsettled
        /\ pc[r] = "attempting" => Per[k] = "model" /\ Names[k] \cap tried[r] # {}
        /\ pc[r] # "attempting" => Per[k] = pc[r]
    BY <1>0 DEF RequestInv, PlaceInv, TaskInv, Calling, Counting, Phases
  <1>7. /\ \A h \in Parts : /\ held[r][h].entries \subseteq held'[r][h].entries
                            /\ held'[r][h].entries \subseteq held[r][h].entries \union {x0}
                            /\ h # Part(r) => held'[r][h] = held[r][h]
        /\ Named(r) \subseteq Named(r)'
        /\ Granted(x0, r) => x0 \in Named(r)'
        /\ Estimates(r) \subseteq Estimates(r)'
        /\ Estimates(r)' \subseteq Estimates(r) \union {x0}
        /\ ~Granted(x0, r) => Estimates(r)' = Estimates(r)
        /\ Granted(x0, r) /\ x0[3] = "tpm" => x0 \in Estimates(r)'
        /\ \A h \in Parts : held[r][h].estimates \subseteq held[r][h].entries =>
                            held'[r][h].estimates \subseteq held'[r][h].entries
    <2>1. {c.key : c \in todo[r]} = {}
      BY <1>6
    <2> HIDE DEF x0
    <2> QED BY <1>1, <1>2, <2>1, NotedOf DEF x0
  <1>8. x0 \in H /\ \A x \in H : Granted(x, r) => x = x0 \/ x \in orphan'[r]
    BY <1>1
  <1> HIDE DEF x0, d, v, p, at
  <1>9. FreshInv(r)'
    <2> SUFFICES ASSUME NEW x \in WindowKeys, Ahead(r, x)'
                 PROVE  log'[x][r] = NoEntry
      BY DEF FreshInv
    <2>1. x[2] \in Rules /\ x[3] \in Dimensions
      BY KeyParts DEF Dimensions
    <2>2. Ahead(r, x) /\ x \notin H
      <3>1. CASE x[2] # k
        BY <1>0, <1>2, <1>5, <2>1, <3>1 DEF Ahead
      <3>2. CASE x[2] = k
        <4>1. ~(Per[k] = "own" /\ pc[r] = "new") /\ ~(Per[k] = "shared" /\ pc[r] \in {"new", "own"})
              /\ ~(Per[k] = "model" /\ Names[k] \cap tried[r] = {})
          BY <1>0, <1>6 DEF Counting, Phases
        <4>2. v \in Dimensions /\ Rank[v] <= Rank[x[3]]
          BY <1>0, <3>2, <4>1 DEF Ahead, v
        <4>3. Rank[d] \in Nat /\ Rank[v] \in Nat /\ Rank[x[3]] \in Nat
          BY <1>0, <2>1, <4>2 DEF Rank, Dimensions
        <4>4. Rank[d] < Rank[x[3]]
          BY <1>5, <4>2, <4>3
        <4>5. x[3] # d
          BY <4>3, <4>4
        <4>6. Rank[d] <= Rank[x[3]]
          BY <4>3, <4>4
        <4> QED BY <1>0, <1>2, <3>2, <4>5, <4>6 DEF Ahead, d
      <3> QED BY <3>1, <3>2
    <2>3. log[x][r] = NoEntry
      BY <2>2 DEF RequestInv, FreshInv
    <2>4. FadedAt(r, x)
      BY <1>4, <2>2
    <2> QED BY <1>3, <2>3, <2>4, GoneEntries DEF FadedAt
  <1>10. TaskInv(r)'
    <2> SUFFICES ASSUME NEW j \in Rules
                 PROVE  /\ task'[r][j] \in Dims[j] \union {"done", "over"}
                        /\ task'[r][j] \in Dimensions /\ pc[r] \in Counting =>
                             Per[j] = IF pc[r] = "attempting" THEN "model" ELSE pc[r]
                        /\ task'[r][j] \in Dimensions /\ pc[r] = "attempting" => Names[j] \cap tried[r] # {}
      BY <1>0 DEF TaskInv
    <2>1. CASE j = k
      BY <1>5, <1>6, <2>1 DEF v
    <2>2. CASE j # k
      BY <1>5, <2>2 DEF RequestInv, TaskInv
    <2> QED BY <2>1, <2>2
  <1>11. PlaceInv(r)'
    <2>1. pc[r] \in Before => held'[r]["attempt"] = held[r]["attempt"]
      BY <1>7 DEF Part, Parts, Before
    <2> QED BY <1>0, <1>6, <2>1 DEF RequestInv, PlaceInv, Calling, Before, Sent, Counting, Phases
  <1>12. PartInv(r)'
    <2>1. x0[2] = k
      BY <1>2
    <2>2. Part(r) = IF pc[r] = "attempting" THEN "attempt" ELSE "admission"
      BY DEF Part
    <2>3. Per[k] # "model" <=> pc[r] # "attempting"
      BY <1>0, <1>6 DEF Counting, Phases
    <2>4. \A x \in held'[r]["admission"].entries : Per[x[2]] # "model"
      BY <1>7, <2>1, <2>2, <2>3 DEF RequestInv, PartInv, Parts
    <2>5. \A x \in held'[r]["attempt"].entries : Per[x[2]] = "model"
      BY <1>7, <2>1, <2>2, <2>3 DEF RequestInv, PartInv, Parts
    <2> QED BY <1>7, <2>4, <2>5 DEF RequestInv, PartInv
  <1>13. EstInv(r)'
    <2> SUFFICES ASSUME NEW x \in Estimates(r)'
                 PROVE  Fresh(x, r)'
      BY DEF EstInv
    <2>1. x \in WindowKeys
      <3>1. \A h \in Parts : held'[r][h].estimates \in SUBSET WindowKeys
        BY DEF LocalType, Hold
      <3> QED BY <3>1, PartsOf DEF Parts
    <2>2. CASE x \in H /\ Granted(x, r)
      <3>1. log'[x][r] = [age |-> 0, cost |-> Cost(x, r)]
        BY <1>4, <2>1, <2>2
      <3> QED BY <3>1 DEF Fresh
    <2>3. CASE ~(x \in H /\ Granted(x, r))
      <3>1. FadedAt(r, x) /\ x \in Estimates(r)
        BY <1>4, <1>7, <1>8, <2>1, <2>3
      <3>2. Fresh(x, r)
        BY <3>1 DEF RequestInv, EstInv
      <3> QED BY <3>1, <3>2, GoneEntries DEF FadedAt, Fresh
    <2> QED BY <2>2, <2>3
  <1>14. CallInv(r)'
    BY <1>0, <1>6 DEF CallInv
  <1>15. TokenInv(r)'
    <2>0. \A x, n : GoodCost(r, x, n)' <=> GoodCost(r, x, n)
      BY <1>0 DEF GoodCost
    <2> SUFFICES ASSUME NEW x \in WindowKeys, x[3] = "tpm", log'[x][r].age # Gone
                 PROVE  TokenAt(r, x)'
      BY DEF TokenInv
    <2>1. CASE x \in H /\ Granted(x, r)
      BY <1>7, <1>8, <2>1 DEF TokenAt
    <2>2. CASE ~(x \in H /\ Granted(x, r))
      <3>1. log'[x][r].cost = log[x][r].cost /\ log[x][r].age # Gone
        BY <1>4, <2>2, GoneEntries DEF FadedAt
      <3>2. TokenAt(r, x)
        BY <1>0, <3>1 DEF RequestInv, TokenInv, Counting, Phases
      <3> QED BY <1>1, <1>6, <1>7, <2>0, <3>1, <3>2 DEF TokenAt
    <2> QED BY <2>1, <2>2
  <1>16. SlotInv(r)'
    <2> SUFFICES ASSUME NEW x \in SlotKeys, lease'[x][r] > 0
                 PROVE  x \in Named(r)' \union orphan'[r]
      BY DEF SlotInv
    <2>1. CASE x \in H /\ Granted(x, r)
      BY <1>7, <1>8, <2>1
    <2>2. CASE ~(x \in H /\ Granted(x, r))
      BY <1>1, <1>4, <1>7, <2>2 DEF RequestInv, SlotInv
    <2> QED BY <2>1, <2>2
  <1>17. CountInv(r)'
    <2> SUFFICES ASSUME pc[r] \in Before, NEW x \in WindowKeys, log'[x][r].cost > 0
                 PROVE  x \in Named(r)' \union orphan'[r]
      BY <1>0 DEF CountInv
    <2>1. CASE x \in H /\ Granted(x, r)
      BY <1>7, <1>8, <2>1
    <2>2. CASE ~(x \in H /\ Granted(x, r))
      <3>1. log[x][r].cost > 0
        <4>1. FadedAt(r, x)
          BY <1>4, <2>2
        <4> QED BY <4>1, GoneEntries DEF FadedAt
      <3> QED BY <1>1, <1>7, <3>1 DEF RequestInv, CountInv
    <2> QED BY <2>1, <2>2
  <1> QED BY <1>3, <1>4, <1>9, <1>10, <1>11, <1>12, <1>13, <1>14, <1>15, <1>16, <1>17 DEF RequestInv

\* A call reaches the store that issued the handle, or is lost.
LEMMA GiveBackKeeps ==
  ASSUME LocalType, LocalType', StoreInv, NEW r \in Requests, RequestInv(r),
         NEW call \in todo[r], GiveBack(r, call)
  PROVE  /\ StoreInv' /\ RequestInv(r)'
         /\ \A q \in Requests \ {r} : Faded(q)
  <1>0. /\ pc[r] \in Calling /\ Await(r, pc[r], todo[r] \ {call})
        /\ task' = task /\ held' = held /\ handed' = handed /\ tried' = tried /\ bill' = bill
        /\ call \in Call
    BY DEF GiveBack, LocalType
  <1>1. /\ todo'[r] = todo[r] \ {call}
        /\ pc'[r] = IF todo[r] \ {call} = {} THEN After(pc[r]) ELSE pc[r]
        /\ pc'[r] \notin Counting /\ pc'[r] # "new"
        /\ pc'[r] \notin Calling => todo'[r] = {}
    BY <1>0, AwaitMoves
  <1>2. \/ Perform(r, call) /\ UNCHANGED orphan
        \/ UNCHANGED <<log, total, lease>> /\ orphan'[r] = orphan[r] \union {call.key}
    BY DEF GiveBack, LocalType
  <1>3. call.key \in WindowKeys =>
          /\ call.key \notin Estimates(r)
          /\ call.cost = 0 \/ Fresh(call.key, r)
          /\ GoodCost(r, call.key, call.cost)
          /\ \A c \in todo[r] : c.key = call.key => c = call
    BY DEF RequestInv, CallInv
  <1>4. StoreInv'
    <2>1. CASE Perform(r, call)
      BY <1>0, <1>3, <2>1, PerformStore
    <2>2. CASE UNCHANGED <<log, total, lease>>
      BY <2>2 DEF StoreInv, SlotsBounded
    <2> QED BY <1>2, <2>1, <2>2
  <1>5. /\ \A q \in Requests \ {r} : Faded(q)
        /\ orphan[r] \subseteq orphan'[r]
        /\ \A x \in WindowKeys :
             \/ x # call.key /\ FadedAt(r, x)
             \/ x = call.key /\ x \in orphan'[r] /\ FadedAt(r, x)
             \/ x = call.key /\ log'[x][r] = NoEntry
             \/ x = call.key /\ log'[x][r].cost = call.cost /\ log'[x][r].age = log[x][r].age
        /\ \A x \in SlotKeys : lease'[x][r] > 0 => /\ lease[x][r] > 0
                                                   /\ x = call.key => x \in orphan'[r]
    <2>1. CASE Perform(r, call) /\ UNCHANGED orphan
      BY <1>0, <2>1, PerformEffect
    <2>2. CASE UNCHANGED <<log, total, lease>> /\ orphan'[r] = orphan[r] \union {call.key}
      BY <2>2 DEF Faded, FadedAt
    <2> QED BY <1>2, <2>1, <2>2
  <1>6. /\ Estimates(r)' = Estimates(r) /\ Leases(r)' = Leases(r)
        /\ \A x \in Named(r) : x # call.key => x \in Named(r)'
    <2>1. \A x \in {c.key : c \in todo[r]} : x # call.key => x \in {c.key : c \in todo'[r]}
      BY <1>1
    <2> QED BY <1>0, <2>1, PartsOf
  <1>7. pc[r] # "closed" /\ pc[r] # "new" /\ pc[r] \notin Counting
    BY <1>0 DEF Calling, Counting, Phases
  <1>8. FreshInv(r)'
    <2> SUFFICES ASSUME NEW x \in WindowKeys, Ahead(r, x)'
                 PROVE  log'[x][r] = NoEntry
      BY DEF FreshInv
    <2>1. Ahead(r, x)
      BY <1>0, <1>1 DEF Ahead, Counting, Phases
    <2>2. log[x][r] = NoEntry
      BY <2>1 DEF RequestInv, FreshInv
    <2> QED BY <1>4, <1>5, <2>2, GoneEntries DEF FadedAt
  <1>9. TaskInv(r)'
    <2>1. pc'[r] # "attempting"
      BY <1>1 DEF Counting
    <2> QED BY <1>0, <1>1, <2>1 DEF RequestInv, TaskInv
  <1>10. PlaceInv(r)'
    <2>1. pc[r] \in {"refusing", "unadmitting", "aborting", "dropping", "settling", "closing", "releasing"}
      BY <1>0 DEF Calling
    <2>2. /\ pc[r] = "refusing" => pc'[r] \in {"refusing", "refused"}
          /\ pc[r] \in {"unadmitting", "dropping"} => pc'[r] \in {pc[r], "walking"}
          /\ pc[r] = "aborting" => pc'[r] \in {"aborting", "ended"}
          /\ pc[r] = "settling" => pc'[r] \in {"settling", "settled"}
          /\ pc[r] = "closing" => pc'[r] = "closing"
          /\ pc[r] = "releasing" => pc'[r] \in {"releasing", "closed"}
      BY <1>1 DEF After
    <2> QED BY <1>0, <1>1, <1>6, <2>1, <2>2 DEF RequestInv, PlaceInv, Calling, Before, Sent
  <1>11. PartInv(r)'
    BY <1>0 DEF RequestInv, PartInv
  <1>12. \A x \in WindowKeys : x # call.key /\ Fresh(x, r) => Fresh(x, r)'
    BY <1>5, GoneEntries DEF FadedAt, Fresh
  <1>13. \A x, n : GoodCost(r, x, n) => GoodCost(r, x, n)'
    <2>1. pc[r] \in {"refusing", "refused", "ended"} => pc'[r] \in {"refusing", "refused", "ended"}
      BY <1>0, <1>1 DEF After, Calling
    <2> QED BY <1>0, <2>1 DEF GoodCost
  <1>14. EstInv(r)'
    <2> SUFFICES ASSUME NEW x \in Estimates(r) PROVE Fresh(x, r)'
      BY <1>6 DEF EstInv
    <2>1. x \in WindowKeys
      BY HeldTypes
    <2> QED BY <1>3, <1>12, <2>1 DEF RequestInv, EstInv
  <1>15. CallInv(r)'
    BY <1>1, <1>3, <1>6, <1>12, <1>13 DEF RequestInv, CallInv
  <1>16. TokenInv(r)'
    <2> SUFFICES ASSUME NEW x \in WindowKeys, x[3] = "tpm", log'[x][r].age # Gone
                 PROVE  TokenAt(r, x)'
      BY DEF TokenInv
    <2>1. log[x][r].age # Gone
      BY <1>5, GoneEntries DEF FadedAt
    <2>2. TokenAt(r, x)
      BY <1>7, <2>1 DEF RequestInv, TokenInv
    <2>3. CASE x = call.key
      <3>1. x \in orphan'[r] \/ log'[x][r].cost = call.cost
        BY <1>5, <2>3, GoneEntries
      <3>2. GoodCost(r, x, call.cost)'
        BY <1>3, <1>13, <2>3
      <3> QED BY <3>1, <3>2 DEF TokenAt
    <2>4. CASE x # call.key
      <3>1. log'[x][r].cost = log[x][r].cost
        BY <1>5, <2>4, GoneEntries DEF FadedAt
      <3>2. (\E c \in todo[r] : c.key = x /\ GoodCost(r, x, c.cost)) =>
              \E c \in todo'[r] : c.key = x /\ GoodCost(r, x, c.cost)'
        BY <1>1, <1>13, <2>4
      <3>3. GoodCost(r, x, log[x][r].cost) => GoodCost(r, x, log[x][r].cost)'
        BY <1>13, <3>1 DEF GoodCost
      <3>4. orphan[r] \subseteq orphan'[r]
        BY <1>5
      <3> QED BY <1>6, <2>2, <3>2, <3>3, <3>4 DEF TokenAt
    <2> QED BY <2>3, <2>4
  <1>17. SlotInv(r)'
    BY <1>5, <1>6 DEF RequestInv, SlotInv
  <1>18. CountInv(r)'
    <2> SUFFICES ASSUME pc'[r] \in Before, NEW x \in WindowKeys, log'[x][r].cost > 0
                 PROVE  x \in Named(r)' \union orphan'[r]
      BY DEF CountInv
    <2>1. pc[r] = "refusing"
      BY <1>0, <1>1 DEF After, Calling, Before
    <2>2. call.cost = 0
      BY <2>1 DEF RequestInv, PlaceInv
    <2>3. x # call.key \/ x \in orphan'[r]
      BY <1>5, <2>2, GoneEntries
    <2>4. CASE x # call.key
      <3>1. FadedAt(r, x)
        BY <1>5, <2>4
      <3>2. log[x][r].cost > 0
        BY <3>1, GoneEntries DEF FadedAt
      <3>3. x \in Named(r) \union orphan[r]
        BY <2>1, <3>2 DEF RequestInv, CountInv, Before
      <3> QED BY <1>5, <1>6, <2>4, <3>3
    <2> QED BY <2>3, <2>4
  <1> QED BY <1>4, <1>5, <1>8, <1>9, <1>10, <1>11, <1>14, <1>15, <1>16, <1>17, <1>18 DEF RequestInv

\* A cancelled request leaves what Redis still did, and what it did not get to
\* give back, to run out; an attempt in admission is uncounted first.
LEMMA CancelKeeps ==
  ASSUME LocalType, LocalType', StoreInv, NEW r \in Requests, RequestInv(r), Cancel(r)
  PROVE  /\ StoreInv' /\ RequestInv(r)'
         /\ \A q \in Requests \ {r} : Faded(q)
  <1> DEFINE att == held[r]["attempt"]
             adm == held[r]["admission"]
  <1>0. /\ pc[r] \in Counting \union Calling \union {"admitted", "walking", "attempt"}
        /\ pc[r] \notin {"closing", "releasing"}
        /\ task'[r] = [k \in Rules |-> "done"]
        /\ handed' = handed /\ tried' = tried /\ bill' = bill
    BY DEF Cancel, LocalType
  <1>1. PICK H : /\ Take(r, H)
                 /\ \A x \in H : \E k \in Rules : Callable(r, k) /\ x = <<Redis, k, task[r][k]>>
                 /\ \A x \in H : Granted(x, r) => x \in orphan'[r]
                 /\ orphan[r] \subseteq orphan'[r]
                 /\ \A c \in todo[r] : c.key \in orphan'[r]
    <2>1. PICK K \in SUBSET {k \in Rules : Callable(r, k) /\ AsksRedis(ProcOf[r]) /\ up} :
            /\ Take(r, {<<Redis, k, task[r][k]>> : k \in K})
            /\ orphan' = [orphan EXCEPT ![r] = @ \union Stray(r, {<<Redis, k, task[r][k]>> : k \in K})
                                              \union {c.key : c \in todo[r]}]
      BY DEF Cancel
    <2> DEFINE H == {<<Redis, k, task[r][k]>> : k \in K}
    <2>2. \A x \in H : \E k \in Rules : Callable(r, k) /\ x = <<Redis, k, task[r][k]>>
      OBVIOUS
    <2>3. orphan'[r] = orphan[r] \union Stray(r, H) \union {c.key : c \in todo[r]}
      BY <2>1 DEF LocalType
    <2>4. \A x \in H : Granted(x, r) => x \in Stray(r, H)
      BY DEF Stray
    <2>5. Take(r, H)
      BY <2>1
    <2> HIDE DEF H
    <2>6. /\ \A x \in H : Granted(x, r) => x \in orphan'[r]
          /\ orphan[r] \subseteq orphan'[r]
          /\ \A c \in todo[r] : c.key \in orphan'[r]
      BY <2>3, <2>4
    <2> QED BY <2>2, <2>5, <2>6
  <1>2. \A x \in H : /\ x \in Keys /\ (x \in WindowKeys => log[x][r] = NoEntry)
                     /\ x[2] \in Rules /\ task[r][x[2]] \in Dimensions /\ pc[r] \in Counting
    <2> SUFFICES ASSUME NEW x \in H
                 PROVE  /\ x \in Keys /\ (x \in WindowKeys => log[x][r] = NoEntry)
                        /\ x[2] \in Rules /\ task[r][x[2]] \in Dimensions /\ pc[r] \in Counting
      OBVIOUS
    <2>1. PICK k \in Rules : Callable(r, k) /\ x = <<Redis, k, task[r][k]>>
      BY <1>1
    <2>2. Redis \in Stores /\ x[2] = k /\ pc[r] \in Counting /\ task[r][k] \in Dimensions
      BY <2>1, StoreOf DEF Callable, Pending
    <2> QED BY <2>1, <2>2, HitsFresh
  <1>3. StoreInv'
    BY <1>1, <1>2, TakeStore
  <1>4. /\ \A q \in Requests \ {r} : Faded(q)
        /\ \A x \in WindowKeys :
             IF x \in H /\ Granted(x, r) THEN log'[x][r] = [age |-> 0, cost |-> Cost(x, r)]
                                         ELSE FadedAt(r, x)
        /\ \A x \in SlotKeys : ~(x \in H /\ Granted(x, r)) => lease'[x][r] = lease[x][r]
    BY <1>1, TakeEffect
  <1>5. \/ /\ pc[r] = "attempting" /\ pc'[r] \in {"aborting", "ended"} /\ todo'[r] = Undo(att)
           /\ pc'[r] = "ended" => Undo(att) = {}
           /\ held'[r] = [held[r] EXCEPT !["attempt"] = NoHold]
        \/ pc[r] # "attempting" /\ pc'[r] = "ended" /\ todo'[r] = {} /\ held' = held
    <2>1. CASE pc[r] = "attempting"
      <3>1. /\ Await(r, "aborting", Undo(att)) /\ held'[r] = [held[r] EXCEPT !["attempt"] = NoHold]
        BY <2>1 DEF Cancel, LocalType
      <3>2. "aborting" \in Calling /\ After("aborting") = "ended"
        BY DEF Calling, After
      <3> QED BY <2>1, <3>1, <3>2, AwaitMoves
    <2>2. CASE pc[r] # "attempting"
      BY <2>2 DEF Cancel, LocalType
    <2> QED BY <2>1, <2>2
  <1>6. /\ pc[r] = "attempting" => bill[r] = Unsettled /\ handed[r] /\ todo[r] = {}
        /\ adm.estimates \subseteq adm.entries /\ att.estimates \subseteq att.entries /\ att \in Hold
        /\ adm.entries \in SUBSET WindowKeys /\ att.entries \in SUBSET WindowKeys /\ att.leases \in SUBSET SlotKeys
        /\ \A x \in adm.entries : Per[x[2]] # "model"
        /\ \A x \in att.entries : Per[x[2]] = "model"
    BY HeldTypes DEF RequestInv, PlaceInv, PartInv, Before, Calling, Sent, Parts
  <1>7. \/ held'[r]["admission"] = adm /\ held'[r]["attempt"] = att
        \/ held'[r]["admission"] = adm /\ held'[r]["attempt"] = NoHold
    BY <1>5 DEF LocalType, Parts
  <1>8. NoHold.entries = {} /\ NoHold.estimates = {} /\ NoHold.leases = {}
    BY DEF NoHold
  <1>9. /\ Estimates(r)' \subseteq Estimates(r)
        /\ pc[r] = "attempting" => Estimates(r)' = adm.estimates
        /\ Leases(r)' \subseteq Leases(r)
    <2>1. pc[r] = "attempting" => held'[r]["attempt"] = NoHold
      BY <1>5 DEF LocalType, Parts
    <2> QED BY <1>7, <1>8, <2>1, PartsOf
  <1>10. /\ \A x \in Estimates(r) : x \in Estimates(r)' \/ \E c \in todo'[r] : c.key = x
         /\ Named(r) \subseteq Named(r)' \union orphan'[r]
    <2>0. {c.key : c \in todo[r]} \subseteq orphan'[r]
      BY <1>1
    <2>1. CASE pc[r] = "attempting"
      <3>0. todo'[r] = Undo(att) /\ held'[r]["admission"] = adm
        BY <1>5, <1>7, <2>1
      <3>1. \A x \in att.entries \union att.leases : \E c \in todo'[r] : c.key = x
        BY <1>6, <3>0, UndoOf
      <3>2. att.entries \union att.leases \subseteq Named(r)'
        <4>1. {c.key : c \in todo'[r]} \subseteq Named(r)'
          BY PartsOf
        <4> QED BY <3>1, <4>1
      <3>3. Named(r) \subseteq Named(r)' \union orphan'[r]
        BY <2>0, <3>0, <3>2, PartsOf
      <3>4. \A x \in Estimates(r) : x \in Estimates(r)' \/ x \in att.entries
        BY <1>6, <1>9, <2>1, PartsOf
      <3> QED BY <3>1, <3>3, <3>4
    <2>2. CASE pc[r] # "attempting"
      <3>1. held'[r] = held[r]
        BY <1>5, <2>2
      <3> QED BY <2>0, <3>1, PartsOf
    <2> QED BY <2>1, <2>2
  <1>11. \A c \in todo'[r] : /\ pc[r] = "attempting" /\ c.cost = 0 /\ c.key \in att.entries \union att.leases
                             /\ \A d \in todo'[r] : d.key = c.key => d = c
    <2>1. CASE pc[r] = "attempting"
      BY <1>5, <1>6, <2>1, UndoOf
    <2>2. CASE pc[r] # "attempting"
      BY <1>5, <2>2
    <2> QED BY <2>1, <2>2
  <1>12. \A x, n : GoodCost(r, x, n) => GoodCost(r, x, n)'
    BY <1>0, <1>5, <1>6 DEF GoodCost
  <1> HIDE DEF att, adm
  <1>13. FreshInv(r)'
    <2> SUFFICES ASSUME NEW x \in WindowKeys, Ahead(r, x)'
                 PROVE  log'[x][r] = NoEntry
      BY DEF FreshInv
    <2>0. x[2] \in Rules
      BY KeyParts
    <2>1. Per[x[2]] = "model" /\ Names[x[2]] \cap tried[r] = {}
      BY <1>0, <1>5, <2>0 DEF Ahead, Dimensions
    <2>2. Ahead(r, x)
      BY <2>1 DEF Ahead
    <2>3. x \notin H
      BY <1>2, <2>1 DEF RequestInv, TaskInv, Counting, Phases
    <2>4. log[x][r] = NoEntry
      BY <2>2 DEF RequestInv, FreshInv
    <2>5. FadedAt(r, x)
      BY <1>4, <2>3
    <2> QED BY <1>3, <2>4, <2>5, GoneEntries DEF FadedAt
  <1>14. TaskInv(r)'
    BY <1>0 DEF TaskInv, Dimensions
  <1>15. PlaceInv(r)'
    <2>1. pc'[r] \in {"aborting", "ended"} /\ (pc'[r] = "ended" => todo'[r] = {})
      BY <1>5
    <2>2. pc'[r] = "aborting" => held'[r]["attempt"] = NoHold /\ bill[r] = Unsettled
      BY <1>5, <1>6 DEF LocalType, Parts
    <2>3. bill[r] # Unsettled => Estimates(r)' = {} /\ handed[r] /\ pc'[r] = "ended"
      <3> SUFFICES ASSUME bill[r] # Unsettled
                   PROVE  Estimates(r)' = {} /\ handed[r] /\ pc'[r] = "ended"
        OBVIOUS
      <3>1. /\ Estimates(r) = {}
            /\ pc[r] \in {"settling", "settled", "ended", "closing", "releasing", "closed"}
        BY DEF RequestInv, PlaceInv
      <3>2. Estimates(r)' = {}
        BY <1>9, <3>1
      <3>3. pc[r] = "settling"
        BY <1>0, <3>1 DEF Counting, Phases, Calling
      <3>4. handed[r]
        BY <3>3 DEF RequestInv, PlaceInv, Sent
      <3> QED BY <2>1, <2>2, <3>2, <3>4
    <2> QED BY <1>0, <2>1, <2>2, <2>3 DEF PlaceInv, Calling, Before, Sent
  <1>16. PartInv(r)'
    BY <1>6, <1>7, <1>8 DEF PartInv, Parts
  <1>17. EstInv(r)'
    <2> SUFFICES ASSUME NEW x \in Estimates(r)
                 PROVE  Fresh(x, r)'
      BY <1>9 DEF EstInv
    <2>1. x \in WindowKeys /\ Fresh(x, r)
      BY HeldTypes DEF RequestInv, EstInv
    <2>2. CASE x \in H /\ Granted(x, r)
      <3>1. log'[x][r] = [age |-> 0, cost |-> Cost(x, r)]
        BY <1>4, <2>1, <2>2
      <3> QED BY <3>1 DEF Fresh
    <2>3. CASE ~(x \in H /\ Granted(x, r))
      <3>1. FadedAt(r, x)
        BY <1>4, <2>1, <2>3
      <3> QED BY <2>1, <3>1, GoneEntries DEF FadedAt, Fresh
    <2> QED BY <2>2, <2>3
  <1>18. CallInv(r)'
    <2> SUFFICES ASSUME NEW c \in todo'[r], c.key \in WindowKeys
                 PROVE  /\ c.key \notin Estimates(r)'
                        /\ c.cost = 0 \/ Fresh(c.key, r)'
                        /\ GoodCost(r, c.key, c.cost)'
                        /\ \A d \in todo'[r] : d.key = c.key => d = c
      BY DEF CallInv
    <2>1. c.key \in att.entries /\ pc[r] = "attempting" /\ c.cost = 0
      BY <1>6, <1>11, KeyParts
    <2>2. GoodCost(r, c.key, c.cost)'
      BY <1>0, <1>6, <2>1 DEF GoodCost
    <2>3. c.key \notin Estimates(r)'
      BY <1>6, <1>9, <2>1
    <2> QED BY <1>11, <2>1, <2>2, <2>3
  <1>19. TokenInv(r)'
    <2> SUFFICES ASSUME NEW x \in WindowKeys, x[3] = "tpm", log'[x][r].age # Gone
                 PROVE  TokenAt(r, x)'
      BY DEF TokenInv
    <2>1. CASE x \in H /\ Granted(x, r)
      BY <1>1, <2>1 DEF TokenAt
    <2>2. CASE ~(x \in H /\ Granted(x, r))
      <3>0. FadedAt(r, x)
        BY <1>4, <2>2
      <3>1. log'[x][r].cost = log[x][r].cost /\ log[x][r].age # Gone
        BY <3>0, GoneEntries DEF FadedAt
      <3>2. pc[r] # "closed"
        BY <1>0 DEF Counting, Phases, Calling
      <3>3. TokenAt(r, x)
        BY <3>1, <3>2 DEF RequestInv, TokenInv
      <3>4. CASE x \in orphan[r] \/ \E c \in todo[r] : c.key = x
        BY <1>1, <3>4 DEF TokenAt
      <3>5. CASE GoodCost(r, x, log[x][r].cost)
        BY <1>12, <3>1, <3>5 DEF TokenAt
      <3>6. CASE x \in Estimates(r)
        <4>1. CASE x \in Estimates(r)'
          BY <4>1 DEF TokenAt
        <4>2. CASE \E c \in todo'[r] : c.key = x
          BY <1>18, <4>2 DEF CallInv, TokenAt
        <4> QED BY <1>10, <3>6, <4>1, <4>2
      <3> QED BY <3>3, <3>4, <3>5, <3>6 DEF TokenAt
    <2> QED BY <2>1, <2>2
  <1>20. SlotInv(r)'
    <2> SUFFICES ASSUME NEW x \in SlotKeys, lease'[x][r] > 0
                 PROVE  x \in Named(r)' \union orphan'[r]
      BY DEF SlotInv
    <2>1. CASE x \in H /\ Granted(x, r)
      BY <1>1, <2>1
    <2>2. CASE ~(x \in H /\ Granted(x, r))
      <3>1. x \in Named(r) \union orphan[r]
        BY <1>4, <2>2 DEF RequestInv, SlotInv
      <3> QED BY <1>1, <1>10, <3>1
    <2> QED BY <2>1, <2>2
  <1>21. CountInv(r)'
    BY <1>5 DEF CountInv, Before
  <1> QED BY <1>3, <1>4, <1>13, <1>14, <1>15, <1>16, <1>17, <1>18, <1>19, <1>20, <1>21 DEF RequestInv


-----------------------------------------------------------------------------
(* Crashes, time and the steps of the others.                              *)

\* A process that dies takes its memory and its requests with it: what they
\* named is lost.
LEMMA CrashKeeps ==
  ASSUME LocalType, LocalType', StoreInv, StoreInv', NEW r \in Requests, RequestInv(r),
         NEW p \in Procs, Crash(p)
  PROVE  RequestInv(r)'
  <1> DEFINE dead == {q \in Requests : ProcOf[q] = p /\ pc[q] \notin {"new", "closed"}}
  <1>1. Faded(r)
    <2>1. \A x \in WindowKeys : log'[x][r] = NoEntry \/ log'[x][r] = log[x][r]
      BY DEF Crash
    <2>2. \A x \in WindowKeys : FadedAt(r, x)
      BY <2>1 DEF FadedAt
    <2>3. \A x \in SlotKeys : lease'[x][r] = 0 \/ lease'[x][r] = lease[x][r]
      BY DEF Crash
    <2>4. \A x \in SlotKeys : lease'[x][r] > 0 => lease[x][r] > 0
      BY <2>3
    <2> QED BY <2>2, <2>4 DEF Faded
  <1>2. CASE r \notin dead
    <2>1. Still(r)
      BY <1>2 DEF Crash, Still
    <2> QED BY <1>1, <2>1, AsideKeeps
  <1>3. CASE r \in dead
    <2>0. /\ pc'[r] = "closed" /\ orphan'[r] = orphan[r] \union Named(r) /\ todo'[r] = {}
          /\ task'[r] = [k \in Rules |-> "done"] /\ held'[r] = [h \in Parts |-> NoHold]
          /\ handed' = handed /\ tried' = tried /\ bill' = bill
          /\ pc[r] # "new" /\ pc[r] # "closed"
      BY <1>3 DEF Crash
    <2>1. /\ held'[r]["admission"] = NoHold /\ held'[r]["attempt"] = NoHold
          /\ NoHold.entries = {} /\ NoHold.estimates = {} /\ NoHold.leases = {}
      BY <2>0 DEF NoHold, Parts
    <2>2. Estimates(r)' = {} /\ Leases(r)' = {}
      BY <2>1, PartsOf
    <2>3. FreshInv(r)'
      <3> SUFFICES ASSUME NEW x \in WindowKeys, Ahead(r, x)'
                   PROVE  log'[x][r] = NoEntry
        BY DEF FreshInv
      <3>0. x[2] \in Rules
        BY KeyParts
      <3>1. Ahead(r, x)
        BY <2>0, <3>0 DEF Ahead, Dimensions
      <3>2. log[x][r] = NoEntry /\ FadedAt(r, x)
        BY <1>1, <3>1 DEF RequestInv, FreshInv, Faded
      <3> QED BY <3>2, GoneEntries DEF FadedAt
    <2>4. TaskInv(r)'
      BY <2>0 DEF TaskInv, Dimensions
    <2>5. PlaceInv(r)'
      <3>1. bill[r] # Unsettled => bill'[r] # Unsettled
        BY <2>0
      <3> QED BY <2>0, <2>2 DEF PlaceInv, Calling, Before, Sent
    <2>6. PartInv(r)'
      BY <2>1 DEF PartInv, Parts
    <2>7. EstInv(r)' /\ CallInv(r)'
      BY <2>0, <2>2 DEF EstInv, CallInv
    <2>8. TokenInv(r)'
      <3> SUFFICES ASSUME bill[r] # Unsettled,
                          NEW x \in WindowKeys, x[3] = "tpm", log'[x][r].age # Gone
                   PROVE  TokenAt(r, x)'
        BY <2>0 DEF TokenInv
      <3>1. FadedAt(r, x)
        BY <1>1 DEF Faded
      <3>2. log'[x][r].cost = log[x][r].cost /\ log[x][r].age # Gone
        BY <3>1, GoneEntries DEF FadedAt
      <3>3. TokenAt(r, x)
        BY <2>0, <3>2 DEF RequestInv, TokenInv
      <3>4. CASE x \in orphan[r]
        BY <2>0, <3>4 DEF TokenAt
      <3>5. CASE x \in Estimates(r)
        BY <3>5 DEF RequestInv, PlaceInv
      <3>6. CASE \E c \in todo[r] : c.key = x
        <4>1. {c.key : c \in todo[r]} \subseteq Named(r)
          BY PartsOf
        <4>2. x \in orphan'[r]
          BY <2>0, <3>6, <4>1
        <4> QED BY <4>2 DEF TokenAt
      <3>7. CASE GoodCost(r, x, log[x][r].cost)
        <4>1. GoodCost(r, x, log[x][r].cost)'
          BY <2>0, <3>2, <3>7 DEF GoodCost
        <4> QED BY <4>1 DEF TokenAt
      <3> QED BY <3>3, <3>4, <3>5, <3>6, <3>7 DEF TokenAt
    <2>9. SlotInv(r)'
      BY <1>1, <2>0 DEF RequestInv, SlotInv, Faded
    <2>10. CountInv(r)'
      BY <2>0 DEF CountInv, Before
    <2> QED BY <2>3, <2>4, <2>5, <2>6, <2>7, <2>8, <2>9, <2>10 DEF RequestInv
  <1> QED BY <1>2, <1>3

\* Time, the clean-up and Redis's outages touch no request.
LEMMA WorldKeeps ==
  ASSUME LocalType, StoreInv, StoreInv', NEW r \in Requests, RequestInv(r),
         Tick \/ Outage \/ (\E x \in WindowKeys : Forget(x)) \/ UNCHANGED vars
  PROVE  RequestInv(r)'
  <1>1. Still(r)
    BY DEF Tick, Outage, Forget, vars, Still
  <1>2. CASE Tick
    <2>1. \A x \in WindowKeys : log'[x][r] = IF log[x][r].age < Window
                                             THEN [log[x][r] EXCEPT !.age = @ + 1] ELSE log[x][r]
      BY <1>2 DEF Tick
    <2>2. \A x \in WindowKeys : FadedAt(r, x)
      <3> SUFFICES ASSUME NEW x \in WindowKeys PROVE FadedAt(r, x)
        OBVIOUS
      <3>1. log[x][r] \in Entry
        BY DEF StoreInv, Entries
      <3>2. CASE log[x][r].age < Window
        <4>1. log'[x][r] = [log[x][r] EXCEPT !.age = @ + 1]
          BY <2>1, <3>2
        <4>2. log'[x][r].cost = log[x][r].cost /\ log'[x][r].age = log[x][r].age + 1
          BY <3>1, <4>1 DEF Entry
        <4>3. log[x][r].age # Gone /\ log'[x][r].age # Gone
          BY <3>1, <3>2, <4>2, RateAssumption DEF Entry, Gone
        <4> QED BY <4>2, <4>3 DEF FadedAt
      <3>3. CASE ~(log[x][r].age < Window)
        BY <2>1, <3>3 DEF FadedAt
      <3> QED BY <3>2, <3>3
    <2>3. \A x \in SlotKeys : lease'[x][r] > 0 => lease[x][r] > 0
      BY <1>2 DEF Tick
    <2> QED BY <1>1, <2>2, <2>3, AsideKeeps DEF Faded
  <1>3. CASE Outage \/ UNCHANGED vars
    <2>1. log' = log /\ lease' = lease
      BY <1>3 DEF Outage, vars
    <2> QED BY <1>1, <2>1, AsideKeeps DEF Faded, FadedAt
  <1>4. ASSUME NEW y \in WindowKeys, Forget(y) PROVE RequestInv(r)'
    <2>1. \A x \in WindowKeys : log'[x][r] = NoEntry \/ log'[x][r] = log[x][r]
      BY <1>4 DEF Forget, StoreInv
    <2>2. lease' = lease
      BY <1>4 DEF Forget
    <2>3. \A x \in WindowKeys : FadedAt(r, x)
      BY <2>1 DEF FadedAt
    <2> QED BY <1>1, <2>2, <2>3, AsideKeeps DEF Faded
  <1> QED BY <1>2, <1>3, <1>4

\* A request's step changes nothing that is another's own.
LEMMA StepAside ==
  ASSUME LocalType, NEW r \in Requests, Step(r) \/ Cancel(r), NEW q \in Requests \ {r}
  PROVE  Still(q)
  <1>1. \A f, S, v : f \in [Requests -> S] => [f EXCEPT ![r] = v][q] = f[q]
    OBVIOUS
  <1>2. \A state, calls : Await(r, state, calls) => pc'[q] = pc[q] /\ todo'[q] = todo[q]
    BY DEF Await, LocalType
  <1>3. \A K : Begin(r, K) => task'[q] = task[q]
    BY DEF Begin, LocalType
  <1>4. \A k, x : Noted(r, k, x) => task'[q] = task[q] /\ held'[q] = held[q]
    BY DEF Noted, LocalType
  <1>5. held' = Settled(r) \/ held' = Released(r) => held'[q] = held[q]
    BY DEF Settled, Released, LocalType
  <1>6. CASE Admit(r) \/ EndPhase(r) \/ HandOver(r) \/ ModelRefused(r) \/ ModelAdmitted(r)
    BY <1>2, <1>3, <1>6 DEF Admit, EndPhase, HandOver, ModelRefused, ModelAdmitted, Still, LocalType
  <1>7. CASE Settle(r) \/ Close(r) \/ Release(r)
    BY <1>2, <1>5, <1>7 DEF Settle, Close, Release, Still, LocalType
  <1>8. ASSUME NEW k \in Rules, CountRule(r, k) PROVE Still(q)
    <2>1. /\ task'[q] = task[q] /\ held'[q] = held[q] /\ orphan'[q] = orphan[q]
      BY <1>4, <1>8 DEF CountRule, LocalType
    <2> QED BY <1>8, <2>1 DEF CountRule, Still
  <1>9. ASSUME NEW k \in Rules, TooLarge(r, k) PROVE Still(q)
    BY <1>9 DEF TooLarge, Still, LocalType
  <1>10. ASSUME NEW m \in Models, AdmitModel(r, m) PROVE Still(q)
    BY <1>3, <1>10 DEF AdmitModel, Still, LocalType
  <1>11. ASSUME NEW sent \in BOOLEAN, Drop(r, sent) PROVE Still(q)
    BY <1>2, <1>11 DEF Drop, Still, LocalType
  <1>12. ASSUME NEW call \in todo[r], GiveBack(r, call) PROVE Still(q)
    <2>1. orphan'[q] = orphan[q]
      BY <1>12 DEF GiveBack, LocalType
    <2> QED BY <1>2, <1>12, <2>1 DEF GiveBack, Still
  <1>13. CASE Cancel(r)
    <2>1. orphan'[q] = orphan[q]
      BY <1>13 DEF Cancel, LocalType
    <2>2. pc'[q] = pc[q] /\ todo'[q] = todo[q] /\ held'[q] = held[q] /\ task'[q] = task[q]
      BY <1>2, <1>13 DEF Cancel, LocalType
    <2> QED BY <1>13, <2>1, <2>2 DEF Cancel, Still
  <1> QED BY <1>6, <1>7, <1>8, <1>9, <1>10, <1>11, <1>12, <1>13 DEF Step

\* A request's own steps keep what the stores promise, its own invariant, and
\* what the others have stored.
LEMMA OwnKeeps ==
  ASSUME LocalType, LocalType', StoreInv, NEW r \in Requests, RequestInv(r), Step(r) \/ Cancel(r)
  PROVE  /\ StoreInv' /\ RequestInv(r)'
         /\ \A q \in Requests \ {r} : Faded(q)
  <1>1. log' = log /\ total' = total /\ lease' = lease =>
          StoreInv' /\ \A q \in Requests \ {r} : Faded(q)
    BY DEF StoreInv, SlotsBounded, Faded, FadedAt
  <1>2. CASE Admit(r) \/ EndPhase(r) \/ HandOver(r) \/ ModelRefused(r) \/ ModelAdmitted(r)
    <2>1. log' = log /\ total' = total /\ lease' = lease
      BY <1>2 DEF Admit, EndPhase, HandOver, ModelRefused, ModelAdmitted
    <2>2. RequestInv(r)'
      BY <1>2, BeginKeeps, MoveKeeps, RefuseKeeps, AttemptKeeps
    <2> QED BY <1>1, <2>1, <2>2
  <1>3. CASE Settle(r) \/ Close(r) \/ Release(r)
    <2>1. log' = log /\ total' = total /\ lease' = lease
      BY <1>3 DEF Settle, Close, Release
    <2> QED BY <1>1, <1>3, <2>1, SettleKeeps, CloseKeeps, ReleaseKeeps
  <1>4. ASSUME NEW k \in Rules, TooLarge(r, k)
        PROVE  StoreInv' /\ RequestInv(r)' /\ \A q \in Requests \ {r} : Faded(q)
    <2>1. log' = log /\ total' = total /\ lease' = lease
      BY <1>4 DEF TooLarge
    <2> QED BY <1>1, <1>4, <2>1, MoveKeeps
  <1>5. ASSUME NEW m \in Models, AdmitModel(r, m)
        PROVE  StoreInv' /\ RequestInv(r)' /\ \A q \in Requests \ {r} : Faded(q)
    <2>1. log' = log /\ total' = total /\ lease' = lease
      BY <1>5 DEF AdmitModel
    <2> QED BY <1>1, <1>5, <2>1, BeginKeeps
  <1>6. ASSUME NEW sent \in BOOLEAN, Drop(r, sent)
        PROVE  StoreInv' /\ RequestInv(r)' /\ \A q \in Requests \ {r} : Faded(q)
    <2>1. log' = log /\ total' = total /\ lease' = lease
      BY <1>6 DEF Drop
    <2> QED BY <1>1, <1>6, <2>1, AttemptKeeps
  <1>7. CASE \E k \in Rules : CountRule(r, k)
    BY <1>7, CountKeeps
  <1>8. CASE \E call \in todo[r] : GiveBack(r, call)
    BY <1>8, GiveBackKeeps
  <1>9. CASE Cancel(r)
    BY <1>9, CancelKeeps
  <1> QED BY <1>2, <1>3, <1>4, <1>5, <1>6, <1>7, <1>8, <1>9 DEF Step

-----------------------------------------------------------------------------
(* The theorems.                                                           *)

\* The inductive invariant: types, exact windows and bounded slots, and every
\* request's own invariant.
Inv == LocalType /\ StoreInv /\ \A r \in Requests : RequestInv(r)

\* Nothing is counted and nothing held before the first request.
LEMMA InvInit == Init => Inv
  <1> SUFFICES ASSUME Init PROVE Inv
    OBVIOUS
  <1>0. NoHold \in Hold
    BY DEF NoHold, Hold
  <1>1. LocalType
    BY <1>0, RateAssumption DEF Init, LocalType, States, Unsettled
  <1>2. StoreInv
    <2>1. \A x \in WindowKeys : /\ log[x] = [q \in Requests |-> NoEntry] /\ total[x] = 0
      BY DEF Init
    <2>2. \A x \in WindowKeys : log[x] \in Entries /\ total[x] \in Nat /\ ExactAt(x, log[x], total[x])
      BY <2>1, NoneExact
    <2>3. lease \in [SlotKeys -> [Requests -> 0..LeaseSec]]
      BY RateAssumption DEF Init
    <2>4. SlotsBounded
      <3> SUFFICES ASSUME NEW x \in SlotKeys
                   PROVE  Cardinality({q \in Requests : lease[x][q] > 0}) <= Limit[x[2]]["slot"]
        BY DEF SlotsBounded
      <3>1. {q \in Requests : lease[x][q] > 0} = {}
        BY DEF Init
      <3>2. Cardinality({}) = 0
        BY FS_EmptySet
      <3>3. Cardinality({q \in Requests : lease[x][q] > 0}) = 0
        BY <3>1, <3>2, Zenon
      <3> QED BY <3>3, SlotLimit
    <2> QED BY <2>2, <2>3, <2>4 DEF StoreInv, Init
  <1>3. ASSUME NEW r \in Requests PROVE RequestInv(r)
    <2>0. /\ pc[r] = "new" /\ task[r] = [k \in Rules |-> "done"] /\ todo[r] = {}
          /\ held[r]["admission"] = NoHold /\ held[r]["attempt"] = NoHold
          /\ handed[r] = FALSE /\ bill[r] = Unsettled
          /\ NoHold.entries = {} /\ NoHold.estimates = {} /\ NoHold.leases = {}
          /\ \A x \in SlotKeys : lease[x][r] = 0
          /\ \A x \in WindowKeys : log[x][r] = NoEntry
      BY DEF Init, NoHold, Parts
    <2>1. Estimates(r) = {} /\ Leases(r) = {}
      BY <2>0, PartsOf
    <2>2. FreshInv(r) /\ TaskInv(r)
      BY <2>0 DEF FreshInv, TaskInv, Dimensions
    <2>3. PlaceInv(r)
      BY <2>0, <2>1 DEF PlaceInv, Calling, Before, Sent
    <2>4. PartInv(r) /\ EstInv(r) /\ CallInv(r)
      BY <2>0, <2>1 DEF PartInv, EstInv, CallInv, Parts
    <2>5. TokenInv(r) /\ SlotInv(r) /\ CountInv(r)
      BY <2>0, GoneEntries DEF TokenInv, SlotInv, CountInv
    <2> QED BY <2>2, <2>3, <2>4, <2>5 DEF RequestInv
  <1> QED BY <1>1, <1>2, <1>3 DEF Inv

\* Every step of every request, of a process or of time keeps it.
LEMMA InvNext == Inv /\ [Next]_vars => Inv'
  <1> SUFFICES ASSUME Inv, [Next]_vars PROVE Inv'
    OBVIOUS
  <1>0. LocalType /\ StoreInv /\ \A r \in Requests : RequestInv(r)
    BY DEF Inv
  <1>1. ASSUME NEW r \in Requests, Step(r) \/ Cancel(r) PROVE Inv'
    <2>1. \A k \in Rules : task[r][k] \in Dims[k] \union {"done", "over"}
      BY <1>0 DEF RequestInv, TaskInv
    <2>2. LocalType'
      BY <1>0, <1>1, <2>1, StepTypes
    <2>3. StoreInv' /\ RequestInv(r)' /\ \A q \in Requests \ {r} : Faded(q)
      BY <1>0, <1>1, <2>2, OwnKeeps
    <2>4. ASSUME NEW q \in Requests \ {r} PROVE RequestInv(q)'
      <3>1. Still(q)
        BY <1>0, <1>1, StepAside
      <3> QED BY <1>0, <2>3, <3>1, AsideKeeps
    <2> QED BY <2>2, <2>3, <2>4 DEF Inv
  <1>2. ASSUME NEW p \in Procs, Crash(p) PROVE Inv'
    <2>1. LocalType' /\ StoreInv'
      BY <1>0, <1>2, WorldTypes, WorldStore
    <2>2. \A r \in Requests : RequestInv(r)'
      BY <1>0, <1>2, <2>1, CrashKeeps
    <2> QED BY <2>1, <2>2 DEF Inv
  <1>3. CASE Tick \/ Outage \/ (\E x \in WindowKeys : Forget(x)) \/ UNCHANGED vars
    <2>1. CASE UNCHANGED vars
      <3>1. LocalType' /\ StoreInv'
        BY <1>0, <2>1 DEF vars, LocalType, StoreInv, SlotsBounded
      <3>2. \A r \in Requests : RequestInv(r)'
        BY <1>0, <1>3, <3>1, WorldKeeps
      <3> QED BY <3>1, <3>2 DEF Inv
    <2>2. CASE Tick \/ Outage \/ (\E x \in WindowKeys : Forget(x))
      <3>1. LocalType' /\ StoreInv'
        BY <1>0, <2>2, WorldTypes, WorldStore
      <3>2. \A r \in Requests : RequestInv(r)'
        BY <1>0, <1>3, <3>1, WorldKeeps
      <3> QED BY <3>1, <3>2 DEF Inv
    <2> QED BY <1>3, <2>1, <2>2
  <1> QED BY <1>1, <1>2, <1>3 DEF Next

\* The invariant holds in every reachable state.
LEMMA InvHolds == Spec => []Inv
  BY InvInit, InvNext, PTL DEF Spec

\* max_concurrent holds in every store whatever is lost (SlidingWindow.acquire,
\* the acquire script), and a slot that is out is named by its request's grant
\* or a call in progress until a fault loses it; a request that ended names none.
THEOREM ConsistentCorrect == Spec => []Consistent
  <1>1. Inv => Consistent
    <2> SUFFICES ASSUME Inv PROVE Consistent
      OBVIOUS
    <2>0. LocalType /\ StoreInv /\ \A r \in Requests : RequestInv(r)
      BY DEF Inv
    <2>1. TypeOK
      <3>1. /\ log \in [WindowKeys -> [Requests -> Entry]] /\ total \in [WindowKeys -> Nat]
            /\ lease \in [SlotKeys -> [Requests -> 0..LeaseSec]]
        BY <2>0 DEF StoreInv, Entries
      <3> QED BY <2>0, <3>1 DEF TypeOK, LocalType
    <2>2. SlotsNamed
      <3> SUFFICES ASSUME NEW r \in Requests
                   PROVE  /\ \A x \in SlotKeys : lease[x][r] > 0 => x \in Named(r) \union orphan[r]
                          /\ pc[r] = "closed" => Leases(r) = {} /\ todo[r] = {}
        BY DEF SlotsNamed
      <3>1. RequestInv(r)
        BY <2>0
      <3> QED BY <3>1 DEF RequestInv, SlotInv, PlaceInv, Calling
    <2> QED BY <2>0, <2>1, <2>2 DEF Consistent, StoreInv
  <1> QED BY <1>1, InvHolds, PTL

\* The running total of a window is always what its stored entries cost, and the
\* entries in it, each at no more than it was admitted for, fit its limit
\* (SlidingWindow.hit, settle and the clean-up; the Redis scripts).
THEOREM WindowsCorrect == Spec => []WindowsExact
  <1>1. Inv => WindowsExact
    BY ExactIs DEF Inv, StoreInv, WindowsExact
  <1> QED BY <1>1, InvHolds, PTL

\* A refused request is counted nowhere once its calls returned: every entry and
\* slot it took is uncounted unless a fault lost the handle (RateLimitRules.admit).
THEOREM RefusedCorrect == Spec => []RefusedUncounted
  <1>1. Inv => RefusedUncounted
    <2> SUFFICES ASSUME Inv, NEW r \in Requests, pc[r] = "refused"
                 PROVE  /\ \A x \in WindowKeys : log[x][r].cost > 0 => x \in orphan[r]
                        /\ \A x \in SlotKeys : lease[x][r] > 0 => x \in orphan[r]
      BY DEF RefusedUncounted
    <2>0. RequestInv(r)
      BY DEF Inv
    <2>1. held[r]["admission"] = NoHold /\ held[r]["attempt"] = NoHold /\ todo[r] = {}
      BY <2>0 DEF RequestInv, PlaceInv, Before, Calling
    <2>2. NoHold.entries = {} /\ NoHold.leases = {}
      BY DEF NoHold
    <2>3. Named(r) = {}
      BY <2>1, <2>2, PartsOf
    <2> QED BY <2>0, <2>3 DEF RequestInv, SlotInv, CountInv, Before
  <1> QED BY <1>1, InvHolds, PTL

\* Once a request has ended its token entries say what it was settled on
\* (RateLimitGrant.settle and close), the dropped attempts' none.
THEOREM TokensCorrect == Spec => []TokensTrue
  <1>1. Inv => TokensTrue
    <2> SUFFICES ASSUME Inv, NEW r \in Requests, NEW x \in WindowKeys,
                        pc[r] = "closed", bill[r] # Unsettled, x[3] = "tpm",
                        log[x][r].age # Gone, x \notin orphan[r]
                 PROVE  \/ log[x][r].cost = bill[r]
                        \/ Per[x[2]] = "model" /\ log[x][r].cost = 0
      BY DEF TokensTrue
    <2>0. RequestInv(r)
      BY DEF Inv
    <2>1. Estimates(r) = {} /\ todo[r] = {}
      BY <2>0 DEF RequestInv, PlaceInv, Calling
    <2>2. TokenAt(r, x)
      BY <2>0 DEF RequestInv, TokenInv
    <2>3. GoodCost(r, x, log[x][r].cost)
      BY <2>1, <2>2 DEF TokenAt
    <2> QED BY <2>3 DEF GoodCost
  <1> QED BY <1>1, InvHolds, PTL
=====
