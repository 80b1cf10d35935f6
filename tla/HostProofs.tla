----------------------------- MODULE HostProofs -----------------------------
(*****************************************************************************)
(* The usage ledger by itself, then what the web host counts and says.       *)
(*                                                                           *)
(* For any accounts, turns, limits and costs, the usage ledger keeps its     *)
(* types, concurrent admissions fit the budget, a turn that ends leaves      *)
(* nothing reserved, admission is refused exactly when the budget has no     *)
(* room, and an answer in time is booked at its cost. The ledger adds up     *)
(* rows and days, so the module starts with what such sums obey. The         *)
(* properties of MCHost follow, for any number of accounts, requests,        *)
(* commands and models, the ledger being one of its components.              *)
(*****************************************************************************)
EXTENDS MCHost, SequenceTheorems, FiniteSetTheorems, WellFoundedInduction, TLAPS

-----------------------------------------------------------------------------
(* Induction over the naturals and over the subsets of a finite set, both    *)
(* with a set in the place of a predicate.                                  *)

LEMMA NatSetInduction ==
    ASSUME NEW N \in SUBSET Nat, 0 \in N, \A n \in N : n + 1 \in N
    PROVE  N = Nat
<1> DEFINE Less == OpToRel(<, Nat)
           Rest == Nat \ N
<1>1. IsWellFoundedOn(Less, Nat)
  BY NatLessThanWellFounded
<1> SUFFICES ASSUME Rest # {} PROVE FALSE
  OBVIOUS
<1>2. Rest \subseteq Nat
  OBVIOUS
<1>3. PICK k \in Rest : \A j \in Rest : <<j, k>> \notin Less
  <2> HIDE DEF Rest, Less
  <2> QED
    BY <1>1, <1>2, WFMin
<1>4. k \in Nat /\ k # 0
  OBVIOUS
<1>5. k - 1 \in Nat /\ k - 1 < k /\ (k - 1) + 1 = k
  BY <1>4
<1>6. k - 1 \in Rest
  BY <1>5
<1>7. <<k - 1, k>> \in Less
  BY <1>4, <1>5 DEF OpToRel
<1> QED
  BY <1>3, <1>6, <1>7

\* The element a sum takes first.
First(s) == CHOOSE x \in s : TRUE

LEMMA FirstIsIn ==
    ASSUME NEW s, s # {}
    PROVE  First(s) \in s
BY DEF First

LEMMA SubsetInduction ==
    ASSUME NEW S, IsFiniteSet(S), NEW T,
           {} \in T,
           \A s \in SUBSET S : s # {} /\ s \ {First(s)} \in T => s \in T
    PROVE  SUBSET S \subseteq T
<1> DEFINE N == {n \in Nat : \A s \in SUBSET S : Cardinality(s) = n => s \in T}
<1>1. \A s \in SUBSET S : IsFiniteSet(s) /\ Cardinality(s) \in Nat
  BY FS_Subset, FS_CardinalityType
<1>2. 0 \in N
  BY <1>1, FS_EmptySet
<1>3. ASSUME NEW n \in N PROVE n + 1 \in N
  <2> SUFFICES ASSUME NEW s \in SUBSET S, Cardinality(s) = n + 1 PROVE s \in T
    OBVIOUS
  <2>1. s # {}
    BY FS_EmptySet
  <2>2. First(s) \in s
    BY <2>1, FirstIsIn
  <2>3. Cardinality(s \ {First(s)}) = Cardinality(s) - 1
    BY <1>1, <2>2, FS_RemoveElement
  <2>4. s \ {First(s)} \in T
    BY <2>3
  <2> QED
    BY <2>1, <2>4
<1>4. N = Nat
  <2> HIDE DEF N
  <2>1. N \in SUBSET Nat
    BY DEF N
  <2> QED
    BY <1>2, <1>3, <2>1, NatSetInduction
<1> QED
  BY <1>1, <1>4

-----------------------------------------------------------------------------
(* Sums of weights over the subsets of a finite set.                        *)

IsSum(g, w, S) ==
    g = [s \in SUBSET S |-> IF s = {} THEN 0 ELSE w[First(s)] + g[s \ {First(s)}]]

SumFn(w, S) == CHOOSE g : IsSum(g, w, S)

\* The weights of the elements of S together.
Sum(w, S) == SumFn(w, S)[S]

\* One recursion defines one function.
LEMMA SumIsUnique ==
    ASSUME NEW S, IsFiniteSet(S), NEW w, NEW g, NEW h, IsSum(g, w, S), IsSum(h, w, S)
    PROVE  g = h
<1> DEFINE T == {s \in SUBSET S : g[s] = h[s]}
<1>1. {} \in T
  BY DEF IsSum
<1>2. \A s \in SUBSET S : s # {} /\ s \ {First(s)} \in T => s \in T
  <2> SUFFICES ASSUME NEW s \in SUBSET S, s # {}, s \ {First(s)} \in T PROVE s \in T
    OBVIOUS
  <2>1. g[s] = w[First(s)] + g[s \ {First(s)}]
    BY DEF IsSum
  <2>2. h[s] = w[First(s)] + h[s \ {First(s)}]
    BY DEF IsSum
  <2> QED
    BY <2>1, <2>2
<1>3. SUBSET S \subseteq T
  <2> HIDE DEF T
  <2> QED
    BY <1>1, <1>2, SubsetInduction
<1>4. \A s \in SUBSET S : g[s] = h[s]
  BY <1>3
<1> QED
  BY <1>4 DEF IsSum

\* The recursion of a sum up to the size n.
SumUpTo(g, w, S, n) ==
    /\ g \in [SUBSET S -> Nat]
    /\ \A s \in SUBSET S : Cardinality(s) <= n =>
          g[s] = IF s = {} THEN 0 ELSE w[First(s)] + g[s \ {First(s)}]

LEMMA SumsOfEverySize ==
    ASSUME NEW S, IsFiniteSet(S), NEW w \in [S -> Nat], NEW n \in Nat
    PROVE  \E g : SumUpTo(g, w, S, n)
<1> DEFINE N == {k \in Nat : \E g : SumUpTo(g, w, S, k)}
<1>1. \A s \in SUBSET S : IsFiniteSet(s) /\ Cardinality(s) \in Nat
  BY FS_Subset, FS_CardinalityType
<1>2. 0 \in N
  <2> DEFINE g == [s \in SUBSET S |-> 0]
  <2>1. ASSUME NEW s \in SUBSET S, Cardinality(s) <= 0 PROVE s = {}
    BY <1>1, <2>1, FS_EmptySet
  <2>2. SumUpTo(g, w, S, 0)
    BY <2>1 DEF SumUpTo
  <2> QED
    BY <2>2
<1>3. ASSUME NEW k \in N PROVE k + 1 \in N
  <2>1. PICK g : SumUpTo(g, w, S, k)
    OBVIOUS
  <2> DEFINE h == [s \in SUBSET S |-> IF s = {} THEN 0 ELSE w[First(s)] + g[s \ {First(s)}]]
  <2>2. h \in [SUBSET S -> Nat]
    <3> SUFFICES ASSUME NEW s \in SUBSET S, s # {} PROVE w[First(s)] + g[s \ {First(s)}] \in Nat
      OBVIOUS
    <3>1. First(s) \in S
      BY FirstIsIn
    <3>2. w[First(s)] \in Nat
      BY <3>1
    <3>3. g[s \ {First(s)}] \in Nat
      BY <2>1 DEF SumUpTo
    <3> QED
      BY <3>2, <3>3
  <2>3. \A s \in SUBSET S : Cardinality(s) <= k => h[s] = g[s]
    BY <2>1 DEF SumUpTo
  <2>4. ASSUME NEW s \in SUBSET S, Cardinality(s) <= k + 1, s # {}
        PROVE  h[s \ {First(s)}] = g[s \ {First(s)}]
    <3>1. First(s) \in s
      BY <2>4, FirstIsIn
    <3>2. Cardinality(s \ {First(s)}) = Cardinality(s) - 1
      BY <1>1, <3>1, FS_RemoveElement
    <3>3. Cardinality(s \ {First(s)}) <= k
      BY <1>1, <3>2, <2>4
    <3>4. s \ {First(s)} \in SUBSET S
      OBVIOUS
    <3> HIDE DEF h
    <3> QED
      BY <2>3, <3>3, <3>4
  <2>5. ASSUME NEW s \in SUBSET S, Cardinality(s) <= k + 1
        PROVE  h[s] = IF s = {} THEN 0 ELSE w[First(s)] + h[s \ {First(s)}]
    <3>1. h[s] = IF s = {} THEN 0 ELSE w[First(s)] + g[s \ {First(s)}]
      OBVIOUS
    <3> HIDE DEF h
    <3> QED
      BY <2>4, <2>5, <3>1
  <2>6. SumUpTo(h, w, S, k + 1)
    <3> HIDE DEF h
    <3> QED
      BY <2>2, <2>5 DEF SumUpTo
  <2> QED
    BY <2>6
<1>4. N = Nat
  <2> HIDE DEF N
  <2>1. N \in SUBSET Nat
    BY DEF N
  <2> QED
    BY <1>2, <1>3, <2>1, NatSetInduction
<1> QED
  BY <1>4

\* The sum of natural weights exists, and is natural on every subset.
LEMMA SumExists ==
    ASSUME NEW S, IsFiniteSet(S), NEW w \in [S -> Nat]
    PROVE  IsSum(SumFn(w, S), w, S) /\ SumFn(w, S) \in [SUBSET S -> Nat]
<1>1. Cardinality(S) \in Nat
  BY FS_CardinalityType
<1>2. PICK g : SumUpTo(g, w, S, Cardinality(S))
  BY <1>1, SumsOfEverySize
<1>3. \A s \in SUBSET S : Cardinality(s) <= Cardinality(S)
  BY FS_Subset
<1>4. IsSum(g, w, S)
  BY <1>2, <1>3 DEF SumUpTo, IsSum
<1>5. IsSum(SumFn(w, S), w, S)
  BY <1>4, Zenon DEF SumFn
<1>6. SumFn(w, S) = g
  BY <1>4, <1>5, SumIsUnique
<1> QED
  BY <1>2, <1>5, <1>6 DEF SumUpTo

\* What the sums over the subsets of S obey.
LEMMA SumSteps ==
    ASSUME NEW S, IsFiniteSet(S), NEW w \in [S -> Nat]
    PROVE  /\ SumFn(w, S)[{}] = 0
           /\ \A s \in SUBSET S : s # {} =>
                 /\ First(s) \in s
                 /\ s \ {First(s)} \in SUBSET S
                 /\ w[First(s)] \in Nat
                 /\ SumFn(w, S)[s \ {First(s)}] \in Nat
                 /\ SumFn(w, S)[s] = w[First(s)] + SumFn(w, S)[s \ {First(s)}]
<1> DEFINE g == SumFn(w, S)
<1>1. IsSum(g, w, S) /\ g \in [SUBSET S -> Nat]
  BY SumExists
<1> HIDE DEF g
<1>2. g[{}] = 0
  BY <1>1 DEF IsSum
<1>3. ASSUME NEW s \in SUBSET S, s # {}
      PROVE  /\ First(s) \in s
             /\ s \ {First(s)} \in SUBSET S
             /\ w[First(s)] \in Nat
             /\ g[s \ {First(s)}] \in Nat
             /\ g[s] = w[First(s)] + g[s \ {First(s)}]
  <2>1. First(s) \in s
    BY <1>3, FirstIsIn
  <2>2. s \ {First(s)} \in SUBSET S
    OBVIOUS
  <2>3. g[s] = w[First(s)] + g[s \ {First(s)}]
    BY <1>1, <1>3 DEF IsSum
  <2> QED
    BY <1>1, <2>1, <2>2, <2>3
<1> QED
  BY <1>2, <1>3 DEF g

\* One weight that grows makes the sum grow as much.
LEMMA SumGrows ==
    ASSUME NEW S, IsFiniteSet(S), NEW w \in [S -> Nat], NEW v \in [S -> Nat],
           NEW x \in S, NEW c \in Nat,
           v[x] = w[x] + c, \A y \in S : y # x => v[y] = w[y]
    PROVE  Sum(v, S) = Sum(w, S) + c
<1> DEFINE g == SumFn(w, S)
           h == SumFn(v, S)
           T == {s \in SUBSET S : g[s] \in Nat /\ h[s] = IF x \in s THEN g[s] + c ELSE g[s]}
<1>1. /\ g[{}] = 0
      /\ \A s \in SUBSET S : s # {} =>
            /\ First(s) \in s /\ s \ {First(s)} \in SUBSET S
            /\ w[First(s)] \in Nat /\ g[s \ {First(s)}] \in Nat
            /\ g[s] = w[First(s)] + g[s \ {First(s)}]
  BY SumSteps
<1>2. /\ h[{}] = 0
      /\ \A s \in SUBSET S : s # {} => h[s] = v[First(s)] + h[s \ {First(s)}]
  BY SumSteps
<1> HIDE DEF g, h
<1>3. {} \in T
  BY <1>1, <1>2
<1>4. \A s \in SUBSET S : s # {} /\ s \ {First(s)} \in T => s \in T
  <2> SUFFICES ASSUME NEW s \in SUBSET S, s # {}, s \ {First(s)} \in T PROVE s \in T
    OBVIOUS
  <2> DEFINE y == First(s)
             r == s \ {First(s)}
  <2>1. y \in s /\ y \in S /\ w[y] \in Nat /\ g[r] \in Nat /\ g[s] = w[y] + g[r]
    BY <1>1
  <2>2. h[s] = v[y] + h[r]
    BY <1>2
  <2>3. h[r] = IF x \in r THEN g[r] + c ELSE g[r]
    OBVIOUS
  <2>4. x \in r <=> x \in s /\ x # y
    OBVIOUS
  <2> HIDE DEF y, r
  <2>5. CASE x = y
    BY <2>1, <2>2, <2>3, <2>4, <2>5
  <2>6. CASE x # y
    <3>1. v[y] = w[y]
      BY <2>1, <2>6
    <3> QED
      BY <2>1, <2>2, <2>3, <2>4, <2>6, <3>1
  <2> QED
    BY <2>5, <2>6
<1>5. SUBSET S \subseteq T
  <2> HIDE DEF T
  <2> QED
    BY <1>3, <1>4, SubsetInduction
<1> QED
  BY <1>5 DEF Sum, g, h

\* When each element of P weighs at least n, the sum is at least n for each of them.
LEMMA SumCounts ==
    ASSUME NEW S, IsFiniteSet(S), NEW w \in [S -> Nat], NEW P \in SUBSET S,
           NEW n \in Nat, \A x \in P : n <= w[x]
    PROVE  Sum(w, S) \in Nat /\ n * Cardinality(P) <= Sum(w, S)
<1> DEFINE g == SumFn(w, S)
           T == {s \in SUBSET S : g[s] \in Nat /\ n * Cardinality(s \cap P) <= g[s]}
<1>1. /\ g[{}] = 0
      /\ \A s \in SUBSET S : s # {} =>
            /\ First(s) \in s /\ s \ {First(s)} \in SUBSET S
            /\ w[First(s)] \in Nat /\ g[s \ {First(s)}] \in Nat
            /\ g[s] = w[First(s)] + g[s \ {First(s)}]
  BY SumSteps
<1> HIDE DEF g
<1>2. \A s \in SUBSET S : IsFiniteSet(s \cap P) /\ Cardinality(s \cap P) \in Nat
  BY FS_Subset, FS_Intersection, FS_CardinalityType
<1>3. {} \in T
  <2>1. {} \cap P = {}
    OBVIOUS
  <2>2. n * Cardinality({} \cap P) = 0
    BY <2>1, FS_EmptySet
  <2> QED
    BY <1>1, <2>2
<1>4. \A s \in SUBSET S : s # {} /\ s \ {First(s)} \in T => s \in T
  <2> SUFFICES ASSUME NEW s \in SUBSET S, s # {}, s \ {First(s)} \in T PROVE s \in T
    OBVIOUS
  <2> DEFINE y == First(s)
             r == s \ {First(s)}
             k == Cardinality(r \cap P)
  <2>1. y \in s /\ w[y] \in Nat /\ g[r] \in Nat /\ g[s] = w[y] + g[r]
    BY <1>1
  <2>2. k \in Nat /\ n * k <= g[r]
    BY <1>2
  <2>3. CASE y \in P
    <3>1. s \cap P = (r \cap P) \cup {y} /\ y \notin r \cap P
      BY <2>1, <2>3
    <3>2. Cardinality(s \cap P) = k + 1
      BY <1>2, <3>1, FS_AddElement
    <3>3. n <= w[y]
      BY <2>3
    <3> HIDE DEF y, r, k
    <3>4. n * (k + 1) = n * k + n
      BY <2>2
    <3>5. n * k \in Nat
      BY <2>2
    <3>6. n * (k + 1) <= g[s]
      BY <2>1, <2>2, <3>3, <3>4, <3>5
    <3>7. g[s] \in Nat
      BY <2>1
    <3> QED
      BY <3>2, <3>6, <3>7
  <2>4. CASE y \notin P
    <3>1. s \cap P = r \cap P
      BY <2>4
    <3> HIDE DEF y, r
    <3>2. n * k \in Nat
      BY <2>2
    <3>3. n * k <= g[s] /\ g[s] \in Nat
      BY <2>1, <2>2, <3>2
    <3> QED
      BY <3>1, <3>3
  <2> QED
    BY <2>3, <2>4
<1>5. SUBSET S \subseteq T
  <2> HIDE DEF T
  <2> QED
    BY <1>3, <1>4, SubsetInduction
<1>6. S \cap P = P
  OBVIOUS
<1> QED
  BY <1>5, <1>6 DEF Sum, g

\* No weight is more than the sum, and a sum of natural numbers is one.
LEMMA SumIsNat ==
    ASSUME NEW S, IsFiniteSet(S), NEW w \in [S -> Nat]
    PROVE  Sum(w, S) \in Nat /\ \A x \in S : w[x] <= Sum(w, S)
<1>1. Sum(w, S) \in Nat
  <2> DEFINE g == SumFn(w, S)
  <2>1. g \in [SUBSET S -> Nat]
    BY SumExists
  <2>2. S \in SUBSET S
    OBVIOUS
  <2> HIDE DEF g
  <2>3. g[S] \in Nat
    BY <2>1, <2>2
  <2> QED
    BY <2>3 DEF Sum, g
<1>2. ASSUME NEW x \in S PROVE w[x] <= Sum(w, S)
  <2>1. w[x] \in Nat /\ {x} \in SUBSET S
    OBVIOUS
  <2>2. w[x] * Cardinality({x}) <= Sum(w, S)
    BY <2>1, SumCounts
  <2>3. w[x] * 1 = w[x]
    BY <2>1
  <2> QED
    BY <2>2, <2>3, FS_Singleton
<1> QED
  BY <1>1, <1>2

-----------------------------------------------------------------------------
(* The sums of the ledger.                                                   *)

Rows == [status : Statuses, cost : Nat, expires : Nat]

\* What the open reservations of each turn count.
HeldBy(some, holds, calls) == [t \in some |-> Counted(holds[t]) + Counted(calls[t])]

LEMMA ReservedIsSum ==
    ASSUME NEW some \in SUBSET Turns, NEW holds, NEW calls,
           HeldBy(some, holds, calls) \in [some -> Nat]
    PROVE  Reserved(some, holds, calls) = Sum(HeldBy(some, holds, calls), some)
<1> DEFINE w == HeldBy(some, holds, calls)
           Step(iter) == [s \in SUBSET some |->
                    IF s = {} THEN 0
                    ELSE (Counted(holds[First(s)]) + Counted(calls[First(s)])) + iter[s \ {First(s)}]]
           F == CHOOSE iter : iter = Step(iter)
<1>1. IsFiniteSet(some)
  BY UsageAssumption, FS_Subset
<1>2. Reserved(some, holds, calls) = F[some]
  BY Zenon DEF Reserved, MapThenSumSet, MapThenFoldSet, First
<1>3. IsSum(SumFn(w, some), w, some)
  BY <1>1, SumExists
<1>4. ASSUME NEW s \in SUBSET some, s # {}
      PROVE  w[First(s)] = Counted(holds[First(s)]) + Counted(calls[First(s)])
  <2>1. First(s) \in some
    BY <1>4, FirstIsIn
  <2> QED
    BY <2>1 DEF HeldBy
<1> HIDE DEF w
<1>5. ASSUME NEW iter
      PROVE  IsSum(iter, w, some) <=> iter = Step(iter)
  BY <1>4 DEF IsSum
<1>6. IsSum(F, w, some)
  <2>1. SumFn(w, some) = Step(SumFn(w, some))
    BY <1>3, <1>5
  <2> HIDE DEF Step
  <2>2. F = Step(F)
    BY <2>1
  <2> QED
    BY <1>5, <2>2
<1>7. F = SumFn(w, some)
  <2> HIDE DEF F
  <2> QED
    BY <1>1, <1>3, <1>6, SumIsUnique
<1> QED
  BY <1>2, <1>7 DEF Sum, w

\* What the reservations of each turn whose time is not up count.
LiveBy(some) == [t \in some |-> (IF Live(hold[t]) THEN hold[t].cost ELSE 0)
                                   + (IF Live(call[t]) THEN call[t].cost ELSE 0)]

LEMMA LiveCostIsSum ==
    ASSUME NEW some \in SUBSET Turns,
           LiveBy(some) \in [some -> Nat]
    PROVE  LiveCost(some) = Sum(LiveBy(some), some)
<1> DEFINE w == LiveBy(some)
           Step(iter) == [s \in SUBSET (some) |->
                    IF s = {} THEN 0
                    ELSE ((IF Live(hold[First(s)]) THEN hold[First(s)].cost ELSE 0)
                            + (IF Live(call[First(s)]) THEN call[First(s)].cost ELSE 0)) + iter[s \ {First(s)}]]
           F == CHOOSE iter : iter = Step(iter)
<1>1. IsFiniteSet(some)
  BY UsageAssumption, FS_Subset
<1>2. LiveCost(some) = F[some]
  BY Zenon DEF LiveCost, MapThenSumSet, MapThenFoldSet, First
<1>3. IsSum(SumFn(w, some), w, some)
  BY <1>1, SumExists
<1>4. ASSUME NEW s \in SUBSET (some), s # {}
      PROVE  w[First(s)] = (IF Live(hold[First(s)]) THEN hold[First(s)].cost ELSE 0)
                            + (IF Live(call[First(s)]) THEN call[First(s)].cost ELSE 0)
  <2>1. First(s) \in some
    BY <1>4, FirstIsIn
  <2> QED
    BY <2>1 DEF LiveBy
<1> HIDE DEF w
<1>5. ASSUME NEW iter
      PROVE  IsSum(iter, w, some) <=> iter = Step(iter)
  BY <1>4 DEF IsSum
<1>6. IsSum(F, w, some)
  <2>1. SumFn(w, some) = Step(SumFn(w, some))
    BY <1>3, <1>5
  <2> HIDE DEF Step
  <2>2. F = Step(F)
    BY <2>1
  <2> QED
    BY <1>5, <2>2
<1>7. F = SumFn(w, some)
  <2> HIDE DEF F
  <2> QED
    BY <1>1, <1>3, <1>6, SumIsUnique
<1> QED
  BY <1>2, <1>7 DEF Sum, w

\* The provider calls of each turn.
CallsBy(works) == [t \in Turns |-> works[t].calls]

LEMMA CallsMadeIsSum ==
    ASSUME CallsBy(work) \in [Turns -> Nat]
    PROVE  CallsMade = Sum(CallsBy(work), Turns)
<1> DEFINE w == CallsBy(work)
           Step(iter) == [s \in SUBSET (Turns) |->
                    IF s = {} THEN 0
                    ELSE (work[First(s)].calls) + iter[s \ {First(s)}]]
           F == CHOOSE iter : iter = Step(iter)
<1>1. IsFiniteSet(Turns)
  BY UsageAssumption
<1>2. CallsMade = F[Turns]
  BY Zenon DEF CallsMade, MapThenSumSet, MapThenFoldSet, First
<1>3. IsSum(SumFn(w, Turns), w, Turns)
  BY <1>1, SumExists
<1>4. ASSUME NEW s \in SUBSET (Turns), s # {}
      PROVE  w[First(s)] = work[First(s)].calls
  <2>1. First(s) \in Turns
    BY <1>4, FirstIsIn
  <2> QED
    BY <2>1 DEF CallsBy
<1> HIDE DEF w
<1>5. ASSUME NEW iter
      PROVE  IsSum(iter, w, Turns) <=> iter = Step(iter)
  BY <1>4 DEF IsSum
<1>6. IsSum(F, w, Turns)
  <2>1. SumFn(w, Turns) = Step(SumFn(w, Turns))
    BY <1>3, <1>5
  <2> HIDE DEF Step
  <2>2. F = Step(F)
    BY <2>1
  <2> QED
    BY <1>5, <2>2
<1>7. F = SumFn(w, Turns)
  <2> HIDE DEF F
  <2> QED
    BY <1>1, <1>3, <1>6, SumIsUnique
<1> QED
  BY <1>2, <1>7 DEF Sum, w

\* What days books for accounts, of any books.
SpentOf(books, accounts, days) == MapThenSumSet(LAMBDA p : books[p[1]][p[2]], accounts \X days)

\* What is booked of each account and day.
BookedOn(books, accounts, days) == [p \in accounts \X days |-> books[p[1]][p[2]]]

LEMMA SpentIsSum ==
    ASSUME NEW books, NEW accounts \in SUBSET Accounts, NEW days \in SUBSET Days,
           IsFiniteSet(Days),
           BookedOn(books, accounts, days) \in [accounts \X days -> Nat]
    PROVE  SpentOf(books, accounts, days) = Sum(BookedOn(books, accounts, days), accounts \X days)
<1> DEFINE w == BookedOn(books, accounts, days)
           Step(iter) == [s \in SUBSET (accounts \X days) |->
                    IF s = {} THEN 0
                    ELSE (books[First(s)[1]][First(s)[2]]) + iter[s \ {First(s)}]]
           F == CHOOSE iter : iter = Step(iter)
<1>1. IsFiniteSet(accounts \X days)
  BY UsageAssumption, FS_Subset, FS_Product
<1>2. SpentOf(books, accounts, days) = F[accounts \X days]
  BY Zenon DEF SpentOf, MapThenSumSet, MapThenFoldSet, First
<1>3. IsSum(SumFn(w, accounts \X days), w, accounts \X days)
  BY <1>1, SumExists
<1>4. ASSUME NEW s \in SUBSET (accounts \X days), s # {}
      PROVE  w[First(s)] = books[First(s)[1]][First(s)[2]]
  <2>1. First(s) \in accounts \X days
    BY <1>4, FirstIsIn
  <2> QED
    BY <2>1 DEF BookedOn
<1> HIDE DEF w
<1>5. ASSUME NEW iter
      PROVE  IsSum(iter, w, accounts \X days) <=> iter = Step(iter)
  BY <1>4 DEF IsSum
<1>6. IsSum(F, w, accounts \X days)
  <2>1. SumFn(w, accounts \X days) = Step(SumFn(w, accounts \X days))
    BY <1>3, <1>5
  <2> HIDE DEF Step
  <2>2. F = Step(F)
    BY <2>1
  <2> QED
    BY <1>5, <2>2
<1>7. F = SumFn(w, accounts \X days)
  <2> HIDE DEF F
  <2> QED
    BY <1>1, <1>3, <1>6, SumIsUnique
<1> QED
  BY <1>2, <1>7 DEF Sum, w

-----------------------------------------------------------------------------
(* The inductive invariant: what each turn's rows and phase have to do with  *)
(* one another at the time n, and that the admissions fit the budget.        *)

TurnFits(w, h, c, n) ==
    /\ w \in [phase : Phases, calls : 0..MaxCalls]
    /\ h \in Rows /\ c \in Rows
    /\ h.status # "settled"
    /\ h.expires <= n + Ttl /\ c.expires <= n + Ttl
    /\ h.cost = (IF w.phase \in {"new", "refused"} THEN 0 ELSE Hold)
    /\ c.cost = (IF w.calls = 0 THEN 0 ELSE Estimate)
    /\ h.status = "reserved" => w.phase \in Running \cup {"crashed"}
    /\ c.status = "reserved" => w.phase \in Calling \cup {"crashed"}
    /\ w.phase \in Calling /\ c.status # "reserved" => c.status = "expired" /\ c.expires <= n

BooksFit ==
    /\ now \in 0..MaxTime
    /\ booked \in [Accounts -> [Days -> Nat]]
    /\ paid \in [Accounts -> Nat]

TurnsFit ==
    /\ work \in [Turns -> [phase : Phases, calls : 0..MaxCalls]]
    /\ hold \in [Turns -> Rows]
    /\ call \in [Turns -> Rows]
    /\ \A t \in Turns : TurnFits(work[t], hold[t], call[t], now)

LedgerInv == BooksFit /\ TurnsFit /\ HoldsWithinBudget

LEMMA ConstantFacts ==
    /\ IsFiniteSet(Turns) /\ IsFiniteSet(Accounts)
    /\ Owner \in [Turns -> Accounts]
    /\ FreeDaily \in Nat /\ FreeMonthly \in Nat /\ PassMonthly \in Nat
    /\ GlobalDaily \in Nat /\ GlobalMonthly \in Nat
    /\ Hold \in Nat /\ Estimate \in Nat /\ Ttl \in Nat /\ MaxTime \in Nat /\ MaxCalls \in Nat
    /\ Costs \subseteq Nat
    /\ DayLength \in Nat \ {0} /\ MonthLength \in Nat \ {0}
BY UsageAssumption

LEMMA DaysAreFinite ==
    IsFiniteSet(Days) /\ Days \subseteq Nat /\ 0 \in Days
<1>1. DayLength \in Nat \ {0} /\ MaxTime \in Nat
  BY ConstantFacts
<1>2. MaxTime \div DayLength \in Nat
  BY <1>1
<1> QED
  BY <1>2, FS_Interval DEF Days

LEMMA TodayIsDay ==
    ASSUME now \in 0..MaxTime
    PROVE  Today \in Days
<1>1. DayLength \in Nat \ {0} /\ MaxTime \in Nat
  BY ConstantFacts
<1> DEFINE q == now \div DayLength
           m == MaxTime \div DayLength
<1>2. q \in Nat /\ m \in Nat
  BY <1>1
<1>3. q <= m
  BY <1>1
<1> QED
  BY <1>2, <1>3 DEF Today, Days

-----------------------------------------------------------------------------
(* What happens to one turn's rows.                                         *)

Sweep(r) == IF Due(r) THEN [r EXCEPT !.status = "expired"] ELSE r

LEMMA SweepRow ==
    ASSUME NEW r \in Rows
    PROVE  /\ Sweep(r) \in Rows
           /\ Sweep(r).cost = r.cost /\ Sweep(r).expires = r.expires
           /\ Sweep(r).status = IF Due(r) THEN "expired" ELSE r.status
BY DEF Sweep, Rows, Due, Statuses

\* The sweep marks what is due of each turn.
LEMMA SweptTurns ==
    ASSUME NEW table \in [Turns -> Rows]
    PROVE  /\ Swept(table) \in [Turns -> Rows]
           /\ \A t \in Turns : Swept(table)[t] = Sweep(table[t])
<1>1. \A t \in Turns : Swept(table)[t] = Sweep(table[t])
  BY DEF Swept, Sweep
<1>2. \A t \in Turns : Sweep(table[t]) \in Rows
  BY SweepRow
<1>3. Swept(table) = [t \in Turns |-> Sweep(table[t])]
  BY DEF Swept, Sweep
<1> QED
  BY <1>1, <1>2, <1>3

LEMMA SweepKeepsTurn ==
    ASSUME now \in Nat, NEW w, NEW h, NEW c, TurnFits(w, h, c, now)
    PROVE  TurnFits(w, Sweep(h), Sweep(c), now)
<1>1. h \in Rows /\ c \in Rows
  BY DEF TurnFits
<1>2. /\ Sweep(h) \in Rows
      /\ Sweep(h).cost = h.cost /\ Sweep(h).expires = h.expires
      /\ Sweep(h).status = IF Due(h) THEN "expired" ELSE h.status
  BY <1>1, SweepRow
<1>3. /\ Sweep(c) \in Rows
      /\ Sweep(c).cost = c.cost /\ Sweep(c).expires = c.expires
      /\ Sweep(c).status = IF Due(c) THEN "expired" ELSE c.status
  BY <1>1, SweepRow
<1>4. Due(c) => c.expires <= now
  BY DEF Due
<1> QED
  BY <1>2, <1>3, <1>4 DEF TurnFits

LEMMA TimeKeepsTurn ==
    ASSUME NEW n \in Nat, NEW w, NEW h, NEW c, TurnFits(w, h, c, n)
    PROVE  TurnFits(w, h, c, n + 1)
BY ConstantFacts DEF TurnFits, Rows

\* A row that was just reserved.
LEMMA RowFits ==
    ASSUME now \in Nat, NEW cost \in Nat
    PROVE  /\ Row(cost) \in Rows
           /\ Row(cost).status = "reserved" /\ Row(cost).cost = cost
           /\ Row(cost).expires = now + Ttl
BY ConstantFacts DEF Row, Rows, Statuses

\* A row that is closed is not reserved, keeps its cost and no time.
LEMMA CloseRow ==
    ASSUME NEW r \in Rows, NEW status \in Statuses
    PROVE  /\ Closed(r, status) \in Rows
           /\ Closed(r, status).status = status
           /\ Closed(r, status).cost = r.cost /\ Closed(r, status).expires = 0
BY DEF Closed, Rows

LEMMA ReleaseRow ==
    ASSUME NEW r \in Rows
    PROVE  /\ Released(r) \in Rows
           /\ Released(r).status # "reserved" /\ Released(r).cost = r.cost
           /\ Released(r).status = IF r.status = "reserved" THEN "released" ELSE r.status
           /\ Released(r).expires = r.expires \/ Released(r).expires = 0
<1>1. "released" \in Statuses
  BY DEF Statuses
<1>2. CASE r.status = "reserved"
  BY <1>1, <1>2, CloseRow DEF Released
<1>3. CASE r.status # "reserved"
  BY <1>3 DEF Released
<1> QED
  BY <1>2, <1>3

\* One turn changes, and the others may be swept.
LEMMA OneTurnChanges ==
    ASSUME BooksFit, TurnsFit, now' = now,
           NEW t \in Turns, NEW w, NEW h, NEW c,
           TurnFits(w, h, c, now),
           work' = [work EXCEPT ![t] = w],
           \/ hold' = [hold EXCEPT ![t] = h] /\ call' = [call EXCEPT ![t] = c]
           \/ hold' = [Swept(hold) EXCEPT ![t] = h] /\ call' = [Swept(call) EXCEPT ![t] = c]
    PROVE  TurnsFit'
<1>1. now \in Nat
  BY ConstantFacts DEF BooksFit
<1>2. /\ work \in [Turns -> [phase : Phases, calls : 0..MaxCalls]]
      /\ hold \in [Turns -> Rows] /\ call \in [Turns -> Rows]
      /\ \A u \in Turns : TurnFits(work[u], hold[u], call[u], now)
  BY DEF TurnsFit
<1>3. /\ Swept(hold) \in [Turns -> Rows] /\ Swept(call) \in [Turns -> Rows]
      /\ \A u \in Turns : Swept(hold)[u] = Sweep(hold[u]) /\ Swept(call)[u] = Sweep(call[u])
  BY <1>2, SweptTurns
<1>4. \A u \in Turns : TurnFits(work[u], Sweep(hold[u]), Sweep(call[u]), now)
  BY <1>1, <1>2, SweepKeepsTurn
<1>5. w \in [phase : Phases, calls : 0..MaxCalls] /\ h \in Rows /\ c \in Rows
  BY DEF TurnFits
<1>6. work' \in [Turns -> [phase : Phases, calls : 0..MaxCalls]]
  BY <1>2, <1>5
<1>7. hold' \in [Turns -> Rows] /\ call' \in [Turns -> Rows]
  BY <1>2, <1>3, <1>5
<1>8. ASSUME NEW u \in Turns PROVE TurnFits(work'[u], hold'[u], call'[u], now)
  <2>1. CASE u = t
    <3>1. work'[u] = w /\ hold'[u] = h /\ call'[u] = c
      BY <1>2, <1>3, <2>1
    <3> QED
      BY <3>1
  <2>2. CASE u # t
    <3>1. work'[u] = work[u]
      BY <1>2, <2>2
    <3>2. \/ hold'[u] = hold[u] /\ call'[u] = call[u]
          \/ hold'[u] = Sweep(hold[u]) /\ call'[u] = Sweep(call[u])
      BY <1>2, <1>3, <2>2
    <3> QED
      BY <1>2, <1>4, <3>1, <3>2
  <2> QED
    BY <2>1, <2>2
<1> QED
  BY <1>6, <1>7, <1>8 DEF TurnsFit

\* A turn that goes on to a phase keeps its calls.
LEMMA MovedTurn ==
    ASSUME TurnsFit, NEW t \in Turns, NEW to \in Phases, Move(t, to)
    PROVE  \E w \in [phase : Phases, calls : 0..MaxCalls] :
              w.phase = to /\ w.calls = work[t].calls /\ work' = [work EXCEPT ![t] = w]
<1>1. work \in [Turns -> [phase : Phases, calls : 0..MaxCalls]]
  BY DEF TurnsFit
<1> DEFINE w == [work[t] EXCEPT !.phase = to]
<1>2. w \in [phase : Phases, calls : 0..MaxCalls] /\ w.phase = to /\ w.calls = work[t].calls
  BY <1>1
<1>3. work' = [work EXCEPT ![t] = w]
  BY DEF Move
<1> QED
  BY <1>2, <1>3

LEMMA TurnFacts ==
    ASSUME TurnsFit, NEW t \in Turns
    PROVE  /\ work[t] \in [phase : Phases, calls : 0..MaxCalls]
           /\ hold[t] \in Rows /\ call[t] \in Rows
           /\ TurnFits(work[t], hold[t], call[t], now)
           /\ hold = [hold EXCEPT ![t] = hold[t]] /\ call = [call EXCEPT ![t] = call[t]]
BY DEF TurnsFit

LEMMA AdmitKeepsTurns ==
    ASSUME BooksFit, TurnsFit, NEW t \in Turns, Admit(t)
    PROVE  TurnsFit'
<1>1. now \in Nat /\ now' = now /\ work[t].phase = "new"
  BY ConstantFacts DEF BooksFit, Admit
<1>2. "round" \in Phases
  BY DEF Phases, Running
<1>3. PICK w \in [phase : Phases, calls : 0..MaxCalls] :
          w.phase = "round" /\ w.calls = work[t].calls /\ work' = [work EXCEPT ![t] = w]
  BY <1>2, MovedTurn DEF Admit
<1>4. TurnFits(work[t], Sweep(hold[t]), Sweep(call[t]), now)
  BY <1>1, TurnFacts, SweepKeepsTurn
<1>5. Row(Hold) \in Rows /\ Row(Hold).status = "reserved" /\ Row(Hold).cost = Hold
      /\ Row(Hold).expires = now + Ttl
  BY <1>1, ConstantFacts, RowFits
<1>6. TurnFits(w, Row(Hold), Sweep(call[t]), now)
  BY <1>1, <1>3, <1>4, <1>5, ConstantFacts DEF TurnFits, Running, Calling
<1>7. hold' = [Swept(hold) EXCEPT ![t] = Row(Hold)]
  BY DEF Admit
<1>8. call' = [Swept(call) EXCEPT ![t] = Sweep(call[t])]
  BY SweptTurns DEF Admit, TurnsFit
<1> QED
  BY <1>1, <1>3, <1>6, <1>7, <1>8, OneTurnChanges

LEMMA RefuseKeepsTurns ==
    ASSUME BooksFit, TurnsFit, NEW t \in Turns, Refuse(t)
    PROVE  TurnsFit'
<1>1. now' = now /\ hold' = hold /\ call' = call /\ work[t].phase = "new"
  BY DEF Refuse
<1>2. "refused" \in Phases
  BY DEF Phases, Ended
<1>3. PICK w \in [phase : Phases, calls : 0..MaxCalls] :
          w.phase = "refused" /\ w.calls = work[t].calls /\ work' = [work EXCEPT ![t] = w]
  BY <1>2, MovedTurn DEF Refuse
<1>4. TurnFits(work[t], hold[t], call[t], now)
  BY TurnFacts
<1>5. TurnFits(w, hold[t], call[t], now)
  BY <1>1, <1>3, <1>4 DEF TurnFits, Running, Calling
<1> QED
  BY <1>1, <1>3, <1>5, TurnFacts, OneTurnChanges

\* A call is reserved only while the budget of calls lasts.
LEMMA CallsAreBounded ==
    ASSUME TurnsFit, NEW t \in Turns, CallsMade < MaxCalls
    PROVE  work[t].calls + 1 \in 0..MaxCalls
<1>1. \A u \in Turns : work[u].calls \in 0..MaxCalls
  BY TurnFacts
<1>2. CallsBy(work) \in [Turns -> Nat]
  BY <1>1, ConstantFacts DEF CallsBy
<1>3. CallsMade = Sum(CallsBy(work), Turns)
  BY <1>2, CallsMadeIsSum
<1>4. CallsBy(work)[t] <= Sum(CallsBy(work), Turns) /\ Sum(CallsBy(work), Turns) \in Nat
  BY <1>2, ConstantFacts, SumIsNat
<1>5. CallsBy(work)[t] = work[t].calls
  BY DEF CallsBy
<1> QED
  BY <1>1, <1>3, <1>4, <1>5, ConstantFacts

LEMMA ReserveKeepsTurns ==
    ASSUME BooksFit, TurnsFit, NEW t \in Turns, NEW to \in Calling, Reserve(t, to),
           work[t].phase \in Running
    PROVE  TurnsFit'
<1>1. now \in Nat /\ now' = now
  BY ConstantFacts DEF BooksFit, Reserve
<1> DEFINE w == Waiting(to, work[t].calls + 1)
<1>2. work[t].calls + 1 \in 0..MaxCalls /\ work[t].calls \in 0..MaxCalls
  BY CallsAreBounded, TurnFacts DEF Reserve
<1>3. to \in Phases
  BY DEF Phases, Running
<1>4. w \in [phase : Phases, calls : 0..MaxCalls] /\ w.phase = to /\ w.calls = work[t].calls + 1
  BY <1>2, <1>3 DEF Waiting
<1>5. work' = [work EXCEPT ![t] = w]
  BY DEF Reserve
<1> HIDE DEF w
<1>6. TurnFits(work[t], Sweep(hold[t]), Sweep(call[t]), now)
  BY <1>1, TurnFacts, SweepKeepsTurn
<1>7. Row(Estimate) \in Rows /\ Row(Estimate).status = "reserved" /\ Row(Estimate).cost = Estimate
      /\ Row(Estimate).expires = now + Ttl
  BY <1>1, ConstantFacts, RowFits
<1>8. to \in Running /\ to \notin {"new", "refused"}
  BY DEF Running, Calling
<1>9. work[t].phase \notin {"new", "refused"}
  BY DEF Running, Calling
<1>10. w.calls # 0
  BY <1>2, <1>4, ConstantFacts
<1>11. TurnFits(w, Sweep(hold[t]), Row(Estimate), now)
  BY <1>1, <1>4, <1>6, <1>7, <1>8, <1>9, <1>10, ConstantFacts DEF TurnFits
<1>12. call' = [Swept(call) EXCEPT ![t] = Row(Estimate)]
  BY DEF Reserve
<1>13. hold' = [Swept(hold) EXCEPT ![t] = Sweep(hold[t])]
  BY SweptTurns DEF Reserve, TurnsFit
<1> QED
  BY <1>1, <1>5, <1>11, <1>12, <1>13, OneTurnChanges

LEMMA ReservesKeepsTurns ==
    ASSUME BooksFit, TurnsFit, NEW t \in Turns, Reserves(t)
    PROVE  TurnsFit'
<1>1. work[t].phase \in Running /\ \E to \in Calling : Reserve(t, to)
  BY DEF Reserves, Running, Calling
<1> QED
  BY <1>1, ReserveKeepsTurns

\* A running turn whose call is closed goes on, or ends and gives its hold back.
LEMMA ClosedCallKeepsTurns ==
    ASSUME BooksFit, TurnsFit, now' = now, NEW t \in Turns,
           work[t].phase \in Running,
           NEW to,
           \/ to \in {"failed", "done"} /\ End(t, to)
           \/ to \in {"round", "retry", "drafted", "narrated"} /\ Move(t, to) /\ hold' = hold,
           NEW c \in Rows, c.status # "reserved", c.cost = call[t].cost, c.expires <= now + Ttl,
           call' = [call EXCEPT ![t] = c]
    PROVE  TurnsFit'
<1>1. to \in Phases /\ to \notin Calling /\ to \notin {"new", "refused"}
  BY DEF Phases, Running, Calling, Ended
<1>2. PICK w \in [phase : Phases, calls : 0..MaxCalls] :
          w.phase = to /\ w.calls = work[t].calls /\ work' = [work EXCEPT ![t] = w]
  BY <1>1, MovedTurn DEF End
<1>3. TurnFits(work[t], hold[t], call[t], now) /\ hold[t] \in Rows
  BY TurnFacts
<1>4. work[t].phase \notin {"new", "refused"}
  BY DEF Running, Calling
<1>5. /\ Released(hold[t]) \in Rows
      /\ Released(hold[t]).status # "reserved" /\ Released(hold[t]).cost = hold[t].cost
      /\ Released(hold[t]).status = IF hold[t].status = "reserved" THEN "released" ELSE hold[t].status
      /\ Released(hold[t]).expires = hold[t].expires \/ Released(hold[t]).expires = 0
  BY <1>3, ReleaseRow
<1>6. now \in Nat /\ Ttl \in Nat
  BY ConstantFacts DEF BooksFit
<1>7. PICK h \in Rows :
          /\ hold' = [hold EXCEPT ![t] = h]
          /\ h.status # "settled" /\ h.cost = hold[t].cost
          /\ h.expires = hold[t].expires \/ h.expires = 0
          /\ h.status = "reserved" => to \in Running
  <2>1. CASE to \in {"failed", "done"} /\ End(t, to)
    <3>1. hold' = [hold EXCEPT ![t] = Released(hold[t])]
      BY <2>1 DEF End
    <3>2. hold[t].status # "settled"
      BY <1>3 DEF TurnFits
    <3> QED
      BY <1>5, <3>1, <3>2
  <2>2. CASE to \in {"round", "retry", "drafted", "narrated"} /\ Move(t, to) /\ hold' = hold
    <3>1. hold' = [hold EXCEPT ![t] = hold[t]] /\ hold[t].status # "settled"
      BY <2>2, <1>3, TurnFacts DEF TurnFits
    <3>2. to \in Running
      BY <2>2 DEF Running
    <3> QED
      BY <1>3, <3>1, <3>2
  <2> QED
    BY <2>1, <2>2
<1>8. h.expires <= now + Ttl
  BY <1>3, <1>6, <1>7 DEF TurnFits
<1>9. TurnFits(w, h, c, now)
  BY <1>1, <1>2, <1>3, <1>4, <1>7, <1>8 DEF TurnFits
<1> QED
  BY <1>2, <1>7, <1>9, OneTurnChanges

\* Where an answer, an error and a late answer may lead.
LEMMA LeadsOn ==
    ASSUME NEW t \in Turns, NEW to \in {"round", "retry", "drafted", "narrated", "failed"},
           Leads(t, to)
    PROVE  \/ to \in {"failed", "done"} /\ End(t, to)
           \/ to \in {"round", "retry", "drafted", "narrated"} /\ Move(t, to) /\ hold' = hold
BY DEF Leads

LEMMA AnswerKeepsTurns ==
    ASSUME BooksFit, TurnsFit, NEW t \in Turns, NEW cost \in Costs, Answer(t, cost)
    PROVE  TurnsFit'
<1>1. now' = now /\ work[t].phase \in Running /\ call[t] \in Rows /\ now \in Nat
  BY TurnFacts, ConstantFacts DEF Answer, Running, BooksFit
<1>2. PICK to \in AfterAnswer(work[t].phase) : Leads(t, to)
  BY DEF Answer
<1>3. work[t].phase \in Calling
  BY DEF Answer
<1>4. to \in {"round", "retry", "drafted", "narrated", "failed"}
  BY <1>2, <1>3 DEF AfterAnswer, Calling
<1> DEFINE c == Closed(call[t], "settled")
<1>5. c \in Rows /\ c.status = "settled" /\ c.cost = call[t].cost /\ c.expires = 0
  BY <1>1, CloseRow DEF Statuses
<1>6. call' = [call EXCEPT ![t] = c]
  BY DEF Answer
<1> HIDE DEF c
<1>7. c.expires <= now + Ttl
  BY <1>1, <1>5, ConstantFacts
<1> QED
  BY <1>1, <1>2, <1>4, <1>5, <1>6, <1>7, LeadsOn, ClosedCallKeepsTurns

LEMMA AnswerTooLateKeepsTurns ==
    ASSUME BooksFit, TurnsFit, NEW t \in Turns, NEW cost \in Costs, AnswerTooLate(t, cost)
    PROVE  TurnsFit'
<1>1. now' = now /\ work[t].phase \in Running /\ call[t] \in Rows /\ call[t].status # "reserved"
  BY TurnFacts DEF AnswerTooLate, Running
<1>2. PICK to \in {"narrated", "failed"} : Leads(t, to)
  BY DEF AnswerTooLate
<1>3. call[t].expires <= now + Ttl
  BY TurnFacts DEF TurnFits
<1>4. call' = [call EXCEPT ![t] = call[t]]
  BY TurnFacts DEF AnswerTooLate
<1> QED
  BY <1>1, <1>2, <1>3, <1>4, LeadsOn, ClosedCallKeepsTurns

LEMMA NoAnswerKeepsTurns ==
    ASSUME BooksFit, TurnsFit, NEW t \in Turns, NoAnswer(t)
    PROVE  TurnsFit'
<1>1. now' = now /\ work[t].phase \in Running /\ call[t] \in Rows /\ now \in Nat
  BY TurnFacts, ConstantFacts DEF NoAnswer, Running, BooksFit
<1>2. PICK to \in AfterError(work[t].phase) : Leads(t, to)
  BY DEF NoAnswer
<1>3. work[t].phase \in Calling
  BY DEF NoAnswer
<1>4. to \in {"round", "retry", "drafted", "narrated", "failed"}
  BY <1>2, <1>3 DEF AfterError, Calling
<1> DEFINE c == Released(call[t])
<1>5. /\ c \in Rows /\ c.status # "reserved" /\ c.cost = call[t].cost
      /\ c.expires = call[t].expires \/ c.expires = 0
  BY <1>1, ReleaseRow
<1>6. call' = [call EXCEPT ![t] = c]
  BY DEF NoAnswer
<1> HIDE DEF c
<1>7. c.expires <= now + Ttl
  BY <1>1, <1>5, ConstantFacts, TurnFacts DEF TurnFits
<1> QED
  BY <1>1, <1>2, <1>4, <1>5, <1>6, <1>7, LeadsOn, ClosedCallKeepsTurns

LEMMA FinishKeepsTurns ==
    ASSUME BooksFit, TurnsFit, NEW t \in Turns, Finish(t)
    PROVE  TurnsFit'
<1>1. now' = now /\ work[t].phase \in Running /\ work[t].phase \notin Calling /\ call[t] \in Rows
  BY TurnFacts DEF Finish
<1>2. PICK to \in {"failed", "done"} : End(t, to)
  BY DEF Finish
<1>3. call[t].status # "reserved" /\ call[t].expires <= now + Ttl
  <2>1. work[t].phase # "crashed"
    BY <1>1 DEF Running, Calling
  <2> QED
    BY <1>1, <2>1, TurnFacts DEF TurnFits
<1>4. call' = [call EXCEPT ![t] = call[t]]
  BY TurnFacts DEF Finish
<1> QED
  BY <1>1, <1>2, <1>3, <1>4, ClosedCallKeepsTurns

LEMMA CrashKeepsTurns ==
    ASSUME BooksFit, TurnsFit, Crash
    PROVE  TurnsFit'
<1>1. now' = now /\ hold' = hold /\ call' = call
  BY DEF Crash
<1>2. ASSUME NEW t \in Turns
      PROVE  /\ work'[t] \in [phase : Phases, calls : 0..MaxCalls]
             /\ TurnFits(work'[t], hold[t], call[t], now)
  <2>1. work[t] \in [phase : Phases, calls : 0..MaxCalls] /\ TurnFits(work[t], hold[t], call[t], now)
    BY TurnFacts
  <2>2. CASE work[t].phase \in Running
    <3> DEFINE w == [work[t] EXCEPT !.phase = "crashed"]
    <3>1. work'[t] = w
      BY <2>2 DEF Crash
    <3>2. w \in [phase : Phases, calls : 0..MaxCalls] /\ w.phase = "crashed" /\ w.calls = work[t].calls
      BY <2>1 DEF Phases, Ended
    <3>3. "crashed" \notin Calling /\ work[t].phase \notin {"new", "refused"}
      BY <2>2 DEF Calling, Running
    <3> HIDE DEF w
    <3>4. TurnFits(w, hold[t], call[t], now)
      BY <2>1, <3>2, <3>3 DEF TurnFits
    <3> QED
      BY <3>1, <3>2, <3>4
  <2>3. CASE work[t].phase \notin Running
    BY <2>1, <2>3 DEF Crash
  <2> QED
    BY <2>2, <2>3
<1>3. work' = [t \in Turns |-> work'[t]]
  BY DEF Crash
<1>4. work' \in [Turns -> [phase : Phases, calls : 0..MaxCalls]]
  BY <1>2, <1>3
<1> QED
  BY <1>1, <1>2, <1>4 DEF TurnsFit

LEMMA TickKeepsTurns ==
    ASSUME BooksFit, TurnsFit, Tick
    PROVE  TurnsFit'
<1>1. now \in Nat /\ now' = now + 1 /\ UNCHANGED <<hold, call, work>>
  BY ConstantFacts DEF BooksFit, Tick
<1>2. \A t \in Turns : TurnFits(work[t], hold[t], call[t], now + 1)
  BY <1>1, TimeKeepsTurn, TurnFacts
<1> QED
  BY <1>1, <1>2 DEF TurnsFit

LEMMA NextKeepsTurns ==
    ASSUME BooksFit, TurnsFit, Next
    PROVE  TurnsFit'
<1>1. CASE \E t \in Turns : Admit(t) \/ Refuse(t) \/ Reserves(t) \/ NoAnswer(t) \/ Finish(t)
  BY <1>1, AdmitKeepsTurns, RefuseKeepsTurns, ReservesKeepsTurns, NoAnswerKeepsTurns,
     FinishKeepsTurns
<1>2. CASE \E t \in Turns, c \in Costs : Answer(t, c) \/ AnswerTooLate(t, c)
  BY <1>2, AnswerKeepsTurns, AnswerTooLateKeepsTurns
<1>3. CASE Crash
  BY <1>3, CrashKeepsTurns
<1>4. CASE Tick
  BY <1>4, TickKeepsTurns
<1> QED
  BY <1>1, <1>2, <1>3, <1>4 DEF Next

\* Only an answer books, and only the clock moves the time.
LEMMA OtherStepsBookNothing ==
    ASSUME NEW t \in Turns, Admit(t) \/ Refuse(t) \/ Reserves(t) \/ NoAnswer(t) \/ Finish(t)
    PROVE  UNCHANGED <<now, booked, paid>>
<1>1. Reserves(t) => UNCHANGED <<now, booked, paid>>
  BY DEF Reserves, Reserve
<1> QED
  BY <1>1 DEF Admit, Refuse, NoAnswer, Finish

LEMMA NextKeepsBooks ==
    ASSUME BooksFit, Next
    PROVE  BooksFit'
<1>1. /\ now \in 0..MaxTime
      /\ booked \in [Accounts -> [Days -> Nat]]
      /\ paid \in [Accounts -> Nat]
  BY DEF BooksFit
<1>2. CASE \E t \in Turns : Admit(t) \/ Refuse(t) \/ Reserves(t) \/ NoAnswer(t) \/ Finish(t)
  BY <1>1, <1>2, OtherStepsBookNothing DEF BooksFit
<1>3. CASE \E t \in Turns, c \in Costs : Answer(t, c) \/ AnswerTooLate(t, c)
  <2>1. PICK t \in Turns, c \in Costs : Answer(t, c) \/ AnswerTooLate(t, c)
    BY <1>3
  <2> DEFINE a == Owner[t]
  <2>2. a \in Accounts /\ c \in Nat /\ Today \in Days
    BY <1>1, ConstantFacts, TodayIsDay
  <2>3. now' = now /\ paid' = [paid EXCEPT ![a] = @ + c]
    BY <2>1 DEF Answer, AnswerTooLate
  <2>4. \/ booked' = booked
        \/ booked' = [booked EXCEPT ![a][Today] = @ + c]
    BY <2>1 DEF Answer, AnswerTooLate
  <2> HIDE DEF a
  <2>5. paid' \in [Accounts -> Nat]
    BY <1>1, <2>2, <2>3
  <2>6. booked' \in [Accounts -> [Days -> Nat]]
    <3>1. booked[a] \in [Days -> Nat] /\ booked[a][Today] + c \in Nat
      BY <1>1, <2>2
    <3>2. [booked[a] EXCEPT ![Today] = @ + c] \in [Days -> Nat]
      BY <2>2, <3>1
    <3> QED
      BY <1>1, <2>2, <2>4, <3>2
  <2> QED
    BY <1>1, <2>3, <2>5, <2>6 DEF BooksFit
<1>4. CASE Crash
  BY <1>1, <1>4 DEF Crash, BooksFit
<1>5. CASE Tick
  <2>1. now < MaxTime /\ now' = now + 1 /\ UNCHANGED <<booked, paid>>
    BY <1>5 DEF Tick
  <2>2. now' \in 0..MaxTime
    BY <1>1, <2>1, ConstantFacts
  <2> QED
    BY <1>1, <2>1, <2>2 DEF BooksFit
<1> QED
  BY <1>2, <1>3, <1>4, <1>5 DEF Next

-----------------------------------------------------------------------------
(* Admission and the budget.                                                *)

LiveIn(some) == {t \in some : Live(hold[t])}

LEMMA TimesGrows ==
    ASSUME NEW h \in Nat, NEW k \in Nat, NEW m \in Nat, k <= m
    PROVE  h * k \in Nat /\ h * k <= h * m /\ h * (k + 1) = h * k + h
<1> DEFINE d == m - k
<1>1. d \in Nat /\ m = k + d
  OBVIOUS
<1> HIDE DEF d
<1>2. h * (k + d) = h * k + h * d
  BY <1>1
<1>3. h * k \in Nat /\ h * d \in Nat
  BY <1>1
<1>4. h * k <= h * m
  BY <1>1, <1>2, <1>3
<1>5. h * (k + 1) = h * k + h
  OBVIOUS
<1> QED
  BY <1>3, <1>4, <1>5

\* What is left of a turn's rows after a sweep counts what is live of them.
LEMMA SweptCounts ==
    ASSUME BooksFit, TurnsFit, NEW t \in Turns
    PROVE  /\ Counted(Sweep(hold[t])) = IF Live(hold[t]) THEN hold[t].cost ELSE 0
           /\ Counted(Sweep(call[t])) = IF Live(call[t]) THEN call[t].cost ELSE 0
           /\ hold[t].cost \in Nat /\ call[t].cost \in Nat
           /\ Live(hold[t]) => hold[t].cost = Hold
<1>1. /\ hold[t] \in Rows /\ call[t] \in Rows /\ now \in Nat
      /\ TurnFits(work[t], hold[t], call[t], now)
  BY TurnFacts, ConstantFacts DEF BooksFit
<1>2. ASSUME NEW r \in Rows
      PROVE  Counted(Sweep(r)) = (IF Live(r) THEN r.cost ELSE 0) /\ r.cost \in Nat
  <2>1. /\ Sweep(r).cost = r.cost
        /\ Sweep(r).status = IF Due(r) THEN "expired" ELSE r.status
    BY SweepRow
  <2>2. r.expires \in Nat /\ r.cost \in Nat
    BY DEF Rows
  <2> QED
    BY <1>1, <2>1, <2>2 DEF Counted, Live, Due
<1>3. Live(hold[t]) => hold[t].cost = Hold
  BY <1>1 DEF Live, TurnFits, Running, Calling
<1> QED
  BY <1>1, <1>2, <1>3

\* What the transaction of an admission adds up is what is live, and it covers
\* the live holds.
LEMMA ReservedIsLive ==
    ASSUME BooksFit, TurnsFit, NEW S \in SUBSET Turns
    PROVE  /\ Reserved(S, Swept(hold), Swept(call)) = LiveCost(S)
           /\ LiveCost(S) \in Nat
           /\ LiveHolds(S) <= LiveCost(S)
<1>1. IsFiniteSet(S)
  BY ConstantFacts, FS_Subset
<1> DEFINE w == LiveBy(S)
<1>2. ASSUME NEW t \in S
      PROVE  /\ w[t] = Counted(Swept(hold)[t]) + Counted(Swept(call)[t])
             /\ w[t] \in Nat
             /\ Live(hold[t]) => Hold <= w[t]
  <2>1. /\ Counted(Sweep(hold[t])) = IF Live(hold[t]) THEN hold[t].cost ELSE 0
        /\ Counted(Sweep(call[t])) = IF Live(call[t]) THEN call[t].cost ELSE 0
        /\ hold[t].cost \in Nat /\ call[t].cost \in Nat
        /\ Live(hold[t]) => hold[t].cost = Hold
    BY SweptCounts
  <2>2. w[t] = (IF Live(hold[t]) THEN hold[t].cost ELSE 0) + (IF Live(call[t]) THEN call[t].cost ELSE 0)
    BY DEF LiveBy
  <2>3. Swept(hold)[t] = Sweep(hold[t]) /\ Swept(call)[t] = Sweep(call[t])
    BY SweptTurns DEF TurnsFit
  <2> QED
    BY <2>1, <2>2, <2>3
<1>3. w = HeldBy(S, Swept(hold), Swept(call))
  BY <1>2 DEF HeldBy, LiveBy
<1>4. w \in [S -> Nat]
  BY <1>2 DEF LiveBy
<1>5. LiveCost(S) = Sum(w, S)
  BY <1>4, LiveCostIsSum
<1>6. Reserved(S, Swept(hold), Swept(call)) = Sum(w, S)
  BY <1>3, <1>4, ReservedIsSum
<1>7. Sum(w, S) \in Nat /\ Hold * Cardinality(LiveIn(S)) <= Sum(w, S)
  <2>1. LiveIn(S) \in SUBSET S /\ \A t \in LiveIn(S) : Hold <= w[t]
    BY <1>2 DEF LiveIn
  <2> HIDE DEF w
  <2> QED
    BY <1>1, <1>4, <2>1, ConstantFacts, SumCounts
<1> QED
  BY <1>5, <1>6, <1>7 DEF LiveHolds, LiveIn

\* The four tests of admitTurn() are the room the budget has.
LEMMA AdmissibleIsAffordable ==
    ASSUME BooksFit, TurnsFit, NEW t \in Turns
    PROVE  Admissible(t, Swept(hold), Swept(call)) <=> Affordable(Owner[t])
<1>1. TurnsOf(Owner[t]) \in SUBSET Turns /\ Turns \in SUBSET Turns
  BY DEF TurnsOf
<1>2. /\ Reserved(TurnsOf(Owner[t]), Swept(hold), Swept(call)) = LiveCost(TurnsOf(Owner[t]))
      /\ Reserved(Turns, Swept(hold), Swept(call)) = LiveCost(Turns)
  BY <1>1, ReservedIsLive
<1> QED
  BY <1>2 DEF Admissible, Affordable, Within, MonthlyLimit

LEMMA SpentIsNat ==
    ASSUME BooksFit, NEW accounts \in SUBSET Accounts, NEW days \in SUBSET Days
    PROVE  Spent(accounts, days) \in Nat
<1>1. IsFiniteSet(accounts \X days)
  BY ConstantFacts, DaysAreFinite, FS_Subset, FS_Product
<1>2. BookedOn(booked, accounts, days) \in [accounts \X days -> Nat]
  BY DEF BooksFit, BookedOn
<1>3. SpentOf(booked, accounts, days) = Sum(BookedOn(booked, accounts, days), accounts \X days)
  BY <1>2, DaysAreFinite, SpentIsSum
<1>4. Spent(accounts, days) = SpentOf(booked, accounts, days)
  BY DEF Spent, SpentOf
<1> QED
  BY <1>1, <1>2, <1>3, <1>4, SumIsNat

\* When no hold becomes live, the live holds do not grow.
LEMMA FewerLiveHolds ==
    ASSUME NEW S \in SUBSET Turns, \A u \in S : Live(hold[u])' => Live(hold[u])
    PROVE  /\ LiveHolds(S) \in Nat /\ LiveHolds(S)' \in Nat
           /\ LiveHolds(S)' <= LiveHolds(S)
<1> DEFINE L == {u \in S : Live(hold[u])}
           M == {u \in S : Live(hold[u])'}
<1>1. IsFiniteSet(L) /\ M \in SUBSET L
  BY ConstantFacts, FS_Subset
<1>2. Cardinality(M) \in Nat /\ Cardinality(L) \in Nat /\ Cardinality(M) <= Cardinality(L)
  <2> HIDE DEF L, M
  <2> QED
    BY <1>1, FS_Subset, FS_CardinalityType
<1>3. LiveHolds(S) = Hold * Cardinality(L) /\ LiveHolds(S)' = Hold * Cardinality(M)
  BY DEF LiveHolds
<1> HIDE DEF L, M
<1>4. Hold * Cardinality(L) \in Nat /\ Hold * Cardinality(M) \in Nat
      /\ Hold * Cardinality(M) <= Hold * Cardinality(L)
  BY <1>2, ConstantFacts, TimesGrows
<1> QED
  BY <1>3, <1>4

\* One more hold that becomes live adds its cost once.
LEMMA OneMoreLiveHold ==
    ASSUME NEW S \in SUBSET Turns, NEW t \in Turns,
           \A u \in S : u # t => (Live(hold[u])' => Live(hold[u]))
    PROVE  LiveHolds(S) \in Nat /\ LiveHolds(S)' \in Nat /\ LiveHolds(S)' <= LiveHolds(S) + Hold
<1> DEFINE L == {u \in S : Live(hold[u])}
           M == {u \in S : Live(hold[u])'}
<1>1. IsFiniteSet(L) /\ M \in SUBSET (L \cup {t})
  BY ConstantFacts, FS_Subset
<1>2. /\ Cardinality(M) \in Nat /\ Cardinality(L) \in Nat
      /\ Cardinality(M) <= Cardinality(L) + 1
  <2> HIDE DEF L, M
  <2>1. IsFiniteSet(L \cup {t}) /\ Cardinality(L) \in Nat
        /\ Cardinality(L \cup {t}) = IF t \in L THEN Cardinality(L) ELSE Cardinality(L) + 1
    BY <1>1, FS_AddElement, FS_CardinalityType
  <2>2. IsFiniteSet(M) /\ Cardinality(M) <= Cardinality(L \cup {t})
    BY <1>1, <2>1, FS_Subset
  <2>3. Cardinality(M) \in Nat
    BY <2>2, FS_CardinalityType
  <2> QED
    BY <2>1, <2>2, <2>3
<1>3. LiveHolds(S) = Hold * Cardinality(L) /\ LiveHolds(S)' = Hold * Cardinality(M)
  BY DEF LiveHolds
<1> HIDE DEF L, M
<1>4. /\ Hold * Cardinality(L) \in Nat
      /\ Hold * (Cardinality(L) + 1) = Hold * Cardinality(L) + Hold
  BY <1>2, ConstantFacts, TimesGrows
<1>5. Hold * Cardinality(M) \in Nat /\ Hold * Cardinality(M) <= Hold * (Cardinality(L) + 1)
  BY <1>2, ConstantFacts, TimesGrows
<1> QED
  BY <1>3, <1>4, <1>5

\* Every other step only lets holds lapse or gives them back.
LEMMA HoldsOnlyLapse ==
    ASSUME BooksFit, TurnsFit, Next, NEW u \in Turns,
           ~Admit(u)
    PROVE  Live(hold[u])' => Live(hold[u])
<1>1. /\ hold[u] \in Rows /\ now \in Nat
      /\ hold \in [Turns -> Rows]
      /\ Swept(hold) \in [Turns -> Rows] /\ Swept(hold)[u] = Sweep(hold[u])
  BY TurnFacts, SweptTurns, ConstantFacts DEF BooksFit, TurnsFit
<1>2. /\ Sweep(hold[u]).expires = hold[u].expires
      /\ Sweep(hold[u]).status = IF Due(hold[u]) THEN "expired" ELSE hold[u].status
  BY <1>1, SweepRow
<1>3. Released(hold[u]).status # "reserved"
  BY <1>1, ReleaseRow
<1>4. ASSUME hold'[u] \in {hold[u], Sweep(hold[u]), Released(hold[u])}, now' \in {now, now + 1}
      PROVE  Live(hold[u])' => Live(hold[u])
  <2>1. hold[u].expires \in Nat
    BY <1>1 DEF Rows
  <2>2. CASE hold'[u] = hold[u]
    BY <1>1, <1>4, <2>1, <2>2 DEF Live
  <2>3. CASE hold'[u] = Sweep(hold[u])
    BY <1>1, <1>2, <1>4, <2>1, <2>3 DEF Live, Due
  <2>4. CASE hold'[u] = Released(hold[u])
    BY <1>3, <2>4 DEF Live
  <2> QED
    BY <1>4, <2>2, <2>3, <2>4
<1>5. ASSUME NEW t \in Turns, NEW to, End(t, to) \/ Leads(t, to)
      PROVE  hold'[u] \in {hold[u], Released(hold[u])}
  <2>1. hold' = hold \/ hold' = [hold EXCEPT ![t] = Released(hold[t])]
    BY <1>5 DEF End, Leads
  <2> QED
    BY <1>1, <2>1
<1>6. ASSUME NEW t \in Turns, Admit(t)
      PROVE  hold'[u] = Sweep(hold[u]) /\ now' = now
  <2>1. u # t /\ hold' = [Swept(hold) EXCEPT ![t] = Row(Hold)] /\ now' = now
    BY <1>6 DEF Admit
  <2> QED
    BY <1>1, <2>1
<1>7. ASSUME NEW t \in Turns, Reserves(t)
      PROVE  hold'[u] = Sweep(hold[u]) /\ now' = now
  BY <1>1, <1>7 DEF Reserves, Reserve
<1>8. ASSUME NEW t \in Turns, NoAnswer(t)
      PROVE  hold'[u] \in {hold[u], Released(hold[u])} /\ now' = now
  <2>1. now' = now /\ \E to \in AfterError(work[t].phase) : Leads(t, to)
    BY <1>8 DEF NoAnswer
  <2> QED
    BY <1>5, <2>1
<1>9. ASSUME NEW t \in Turns, Finish(t)
      PROVE  hold'[u] \in {hold[u], Released(hold[u])} /\ now' = now
  <2>1. now' = now /\ (End(t, "failed") \/ End(t, "done"))
    BY <1>9 DEF Finish
  <2> QED
    BY <1>5, <2>1
<1>10. ASSUME NEW t \in Turns, NEW c \in Costs, Answer(t, c) \/ AnswerTooLate(t, c)
       PROVE  hold'[u] \in {hold[u], Released(hold[u])} /\ now' = now
  <2>1. now' = now
    BY <1>10 DEF Answer, AnswerTooLate
  <2>2. \E to : Leads(t, to)
    BY <1>10 DEF Answer, AnswerTooLate
  <2> QED
    BY <1>5, <2>1, <2>2
<1>11. CASE \E t \in Turns : Admit(t) \/ Refuse(t) \/ Reserves(t) \/ NoAnswer(t) \/ Finish(t)
  BY <1>4, <1>6, <1>7, <1>8, <1>9, <1>11 DEF Refuse
<1>12. CASE \E t \in Turns, c \in Costs : Answer(t, c) \/ AnswerTooLate(t, c)
  BY <1>4, <1>10, <1>12
<1>13. CASE Crash
  BY <1>4, <1>13 DEF Crash
<1>14. CASE Tick
  BY <1>4, <1>14 DEF Tick
<1> QED
  BY <1>11, <1>12, <1>13, <1>14 DEF Next

LEMMA AdmitsOne ==
    ASSUME TurnsFit, NEW t \in Turns, Admit(t), NEW u \in Turns, u # t
    PROVE  ~Admit(u)
<1>1. work[u].phase = "new" => work'[u].phase = "new"
  BY DEF Admit, Move, TurnsFit
<1>2. Admit(u) => work[u].phase = "new" /\ work'[u].phase = "round"
  BY DEF Admit, Move, TurnsFit
<1> QED
  BY <1>1, <1>2

\* The admitted turn's hold has room next to every live one: of its account,
\* and of the deployment.
LEMMA AdmittedHoldsFit ==
    ASSUME BooksFit, TurnsFit, HoldsWithinBudget, NEW t \in Turns, Admit(t)
    PROVE  HoldsWithinBudget'
<1>1. Next
  BY DEF Next
<1>2. \A u \in Turns : u # t => (Live(hold[u])' => Live(hold[u]))
  BY <1>1, AdmitsOne, HoldsOnlyLapse
<1>3. Affordable(Owner[t])
  BY AdmissibleIsAffordable DEF Admit
<1>4. ThisMonth \in SUBSET Days /\ {Today} \in SUBSET Days
  BY TodayIsDay DEF ThisMonth, BooksFit
<1>5. Owner[t] \in Accounts
  BY ConstantFacts
<1>6. ASSUME NEW S \in SUBSET Turns, NEW limit \in Nat, NEW spent \in Nat,
             spent + LiveCost(S) + Hold <= limit
      PROVE  LiveHolds(S)' <= limit
  <2>1. LiveCost(S) \in Nat /\ LiveHolds(S) <= LiveCost(S)
    BY ReservedIsLive
  <2>2. LiveHolds(S) \in Nat /\ LiveHolds(S)' \in Nat /\ LiveHolds(S)' <= LiveHolds(S) + Hold
    BY <1>2, OneMoreLiveHold
  <2> QED
    BY <1>6, <2>1, <2>2, ConstantFacts
<1>7. ASSUME NEW S \in SUBSET Turns, t \notin S, NEW limit \in Nat, LiveHolds(S) <= limit
      PROVE  LiveHolds(S)' <= limit
  <2>1. LiveHolds(S) \in Nat /\ LiveHolds(S)' \in Nat /\ LiveHolds(S)' <= LiveHolds(S)
    BY <1>2, <1>7, FewerLiveHolds
  <2> QED
    BY <1>7, <2>1
<1>8. LiveHolds(Turns)' <= GlobalDaily
  <2>1. Spent(Accounts, {Today}) \in Nat
    BY <1>4, SpentIsNat
  <2>2. Spent(Accounts, {Today}) + LiveCost(Turns) + Hold <= GlobalDaily
    BY <1>3 DEF Affordable
  <2> QED
    BY <1>6, <2>1, <2>2, ConstantFacts
<1>9. LiveHolds(Turns)' <= GlobalMonthly
  <2>1. Spent(Accounts, ThisMonth) \in Nat
    BY <1>4, SpentIsNat
  <2>2. Spent(Accounts, ThisMonth) + LiveCost(Turns) + Hold <= GlobalMonthly
    BY <1>3 DEF Affordable
  <2> QED
    BY <1>6, <2>1, <2>2, ConstantFacts
<1>10. ASSUME NEW a \in Accounts PROVE LiveHolds(TurnsOf(a))' <= MonthlyLimit(a)
  <2>1. TurnsOf(a) \in SUBSET Turns /\ MonthlyLimit(a) \in Nat
    BY ConstantFacts DEF TurnsOf, MonthlyLimit
  <2>2. CASE a = Owner[t]
    <3>1. Spent({a}, ThisMonth) \in Nat
      BY <1>4, SpentIsNat
    <3>2. Spent({a}, ThisMonth) + LiveCost(TurnsOf(a)) + Hold <= MonthlyLimit(a)
      BY <1>3, <2>2 DEF Affordable
    <3> QED
      BY <1>6, <2>1, <3>1, <3>2
  <2>3. CASE a # Owner[t]
    <3>1. t \notin TurnsOf(a)
      BY <2>3 DEF TurnsOf
    <3>2. LiveHolds(TurnsOf(a)) <= MonthlyLimit(a)
      BY DEF HoldsWithinBudget
    <3> QED
      BY <1>7, <2>1, <3>1, <3>2
  <2> QED
    BY <2>2, <2>3
<1>11. ASSUME NEW a \in Accounts, a \notin Pass, FreeDaily > 0
       PROVE  LiveHolds(TurnsOf(a))' <= FreeDaily
  <2>1. TurnsOf(a) \in SUBSET Turns
    BY DEF TurnsOf
  <2>2. CASE a = Owner[t]
    <3>1. Spent({a}, {Today}) \in Nat
      BY <1>4, SpentIsNat
    <3>2. Spent({a}, {Today}) + LiveCost(TurnsOf(a)) + Hold <= FreeDaily
      BY <1>3, <1>11, <2>2 DEF Affordable
    <3> QED
      BY <1>6, <2>1, <3>1, <3>2, ConstantFacts
  <2>3. CASE a # Owner[t]
    <3>1. t \notin TurnsOf(a)
      BY <2>3 DEF TurnsOf
    <3>2. LiveHolds(TurnsOf(a)) <= FreeDaily
      BY <1>11 DEF HoldsWithinBudget
    <3> QED
      BY <1>7, <2>1, <3>1, <3>2, ConstantFacts
  <2> QED
    BY <2>2, <2>3
<1>12. \A a \in Accounts : MonthlyLimit(a)' = MonthlyLimit(a) /\ TurnsOf(a)' = TurnsOf(a)
  BY DEF MonthlyLimit, TurnsOf
<1> QED
  BY <1>8, <1>9, <1>10, <1>11, <1>12 DEF HoldsWithinBudget

LEMMA LapsingHoldsFit ==
    ASSUME HoldsWithinBudget, \A u \in Turns : Live(hold[u])' => Live(hold[u])
    PROVE  HoldsWithinBudget'
<1>1. ASSUME NEW S \in SUBSET Turns, NEW limit \in Nat, LiveHolds(S) <= limit
      PROVE  LiveHolds(S)' <= limit
  <2>1. LiveHolds(S) \in Nat /\ LiveHolds(S)' \in Nat /\ LiveHolds(S)' <= LiveHolds(S)
    BY FewerLiveHolds
  <2> QED
    BY <1>1, <2>1
<1>2. LiveHolds(Turns)' <= GlobalDaily /\ LiveHolds(Turns)' <= GlobalMonthly
  BY <1>1, ConstantFacts DEF HoldsWithinBudget
<1>3. ASSUME NEW a \in Accounts
      PROVE  /\ LiveHolds(TurnsOf(a))' <= MonthlyLimit(a)
             /\ a \notin Pass /\ FreeDaily > 0 => LiveHolds(TurnsOf(a))' <= FreeDaily
  <2>1. TurnsOf(a) \in SUBSET Turns /\ MonthlyLimit(a) \in Nat
    BY ConstantFacts DEF TurnsOf, MonthlyLimit
  <2> QED
    BY <1>1, <2>1, ConstantFacts DEF HoldsWithinBudget
<1>4. \A a \in Accounts : MonthlyLimit(a)' = MonthlyLimit(a) /\ TurnsOf(a)' = TurnsOf(a)
  BY DEF MonthlyLimit, TurnsOf
<1> QED
  BY <1>2, <1>3, <1>4 DEF HoldsWithinBudget

LEMMA NextKeepsBudget ==
    ASSUME LedgerInv, Next
    PROVE  HoldsWithinBudget'
<1>1. CASE \E t \in Turns : Admit(t)
  BY <1>1, AdmittedHoldsFit DEF LedgerInv
<1>2. CASE ~\E t \in Turns : Admit(t)
  BY <1>2, HoldsOnlyLapse, LapsingHoldsFit DEF LedgerInv
<1> QED
  BY <1>1, <1>2

-----------------------------------------------------------------------------
(* The theorems.                                                            *)

LEMMA InitLedger ==
    ASSUME Init
    PROVE  LedgerInv
<1>1. BooksFit
  BY DaysAreFinite, ConstantFacts DEF Init, BooksFit
<1>2. NoRow \in Rows /\ NoRow.status = "none" /\ NoRow.cost = 0 /\ NoRow.expires = 0
  BY DEF NoRow, Rows, Statuses
<1> DEFINE w == Waiting("new", 0)
<1>3. w \in [phase : Phases, calls : 0..MaxCalls] /\ w.phase = "new" /\ w.calls = 0
  BY ConstantFacts DEF Waiting, Phases
<1>4. /\ now = 0
      /\ hold = [t \in Turns |-> NoRow] /\ call = [t \in Turns |-> NoRow]
      /\ work = [t \in Turns |-> w]
  BY DEF Init
<1> HIDE DEF w
<1>5. TurnFits(w, NoRow, NoRow, now)
  BY <1>2, <1>3, <1>4, ConstantFacts DEF TurnFits, Calling
<1>6. TurnsFit
  BY <1>2, <1>3, <1>4, <1>5 DEF TurnsFit
<1>7. ASSUME NEW S \in SUBSET Turns PROVE LiveHolds(S) = 0
  <2>1. {t \in S : Live(hold[t])} = {}
    BY <1>2, <1>4 DEF Live
  <2>2. Hold * 0 = 0
    BY ConstantFacts
  <2> QED
    BY <2>1, <2>2, FS_EmptySet DEF LiveHolds
<1>8. HoldsWithinBudget
  <2>1. \A a \in Accounts : TurnsOf(a) \in SUBSET Turns /\ MonthlyLimit(a) \in Nat
    BY ConstantFacts DEF TurnsOf, MonthlyLimit
  <2> QED
    BY <1>7, <2>1, ConstantFacts DEF HoldsWithinBudget
<1> QED
  BY <1>1, <1>6, <1>8 DEF LedgerInv

LEMMA StutterKeepsLedger ==
    ASSUME LedgerInv, UNCHANGED vars
    PROVE  LedgerInv'
<1>1. now' = now /\ booked' = booked /\ hold' = hold /\ call' = call /\ work' = work /\ paid' = paid
  BY DEF vars
<1>2. BooksFit' /\ TurnsFit'
  BY <1>1 DEF LedgerInv, BooksFit, TurnsFit
<1>3. HoldsWithinBudget'
  BY <1>1, LapsingHoldsFit DEF LedgerInv, Live
<1> QED
  BY <1>2, <1>3 DEF LedgerInv

LEMMA LedgerInvariant == Spec => []LedgerInv
<1>1. LedgerInv /\ [Next]_vars => LedgerInv'
  <2> SUFFICES ASSUME LedgerInv, [Next]_vars PROVE LedgerInv'
    OBVIOUS
  <2>1. CASE Next
    BY <2>1, NextKeepsBooks, NextKeepsTurns, NextKeepsBudget DEF LedgerInv
  <2>2. CASE UNCHANGED vars
    BY <2>2, StutterKeepsLedger
  <2> QED
    BY <2>1, <2>2
<1> QED
  BY <1>1, InitLedger, PTL DEF Spec

LEMMA LedgerTypes == LedgerInv => TypeOK
<1> SUFFICES ASSUME LedgerInv PROVE TypeOK
  OBVIOUS
<1>1. BooksFit /\ TurnsFit
  BY DEF LedgerInv
<1>2. ASSUME NEW t \in Turns
      PROVE  /\ work[t] \in [phase : Phases, calls : 0..MaxCalls]
             /\ hold[t].status \in Statuses \ {"settled"} /\ call[t].status \in Statuses
             /\ hold[t].expires <= now + Ttl /\ call[t].expires <= now + Ttl
             /\ hold[t].cost = (IF work[t].phase \in {"new", "refused"} THEN 0 ELSE Hold)
             /\ call[t].cost = (IF work[t].calls = 0 THEN 0 ELSE Estimate)
  <2>1. TurnFits(work[t], hold[t], call[t], now)
    BY <1>1, TurnFacts
  <2>2. hold[t].status \in Statuses /\ call[t].status \in Statuses
    BY <2>1 DEF TurnFits, Rows
  <2> QED
    BY <2>1, <2>2 DEF TurnFits
<1> QED
  BY <1>1, <1>2 DEF TypeOK, BooksFit

\* Every row has the cost its kind reserves, an admission is never settled, a
\* turn has a hold exactly once admitted, and no turn makes more calls than the
\* bound (admitTurn(), reserve(), settle(), release()).
THEOREM LedgerTypeCorrect == Spec => []TypeOK
BY LedgerTypes, LedgerInvariant, PTL

\* Turns that are admitted at the same time never hold more than a limit of
\* their account or of the deployment together, and a turn that ends, short of
\* a crash, leaves nothing reserved (admitTurn(), the finally and catch blocks
\* of its callers).
THEOREM HoldsStayKept == Spec => []HoldsKept
<1>1. LedgerInv => HoldsKept
  <2> SUFFICES ASSUME LedgerInv PROVE HoldsKept
    OBVIOUS
  <2>1. ASSUME NEW t \in Turns, work[t].phase \in {"refused", "done", "failed"}
        PROVE  hold[t].status # "reserved" /\ call[t].status # "reserved"
    <3>1. TurnFits(work[t], hold[t], call[t], now)
      BY TurnFacts DEF LedgerInv
    <3>2. work[t].phase \notin Running \cup {"crashed"} /\ work[t].phase \notin Calling \cup {"crashed"}
      BY <2>1 DEF Running, Calling
    <3> QED
      BY <3>1, <3>2 DEF TurnFits
  <2> QED
    BY <2>1 DEF LedgerInv, HoldsKept, NothingStranded
<1> QED
  BY <1>1, LedgerInvariant, PTL

\* What a turn's move does to the turns.
LEMMA OnlyItMoves ==
    ASSUME TurnsFit, NEW t \in Turns, NEW u \in Turns, u # t,
           \/ Admit(t) \/ Refuse(t) \/ Reserves(t) \/ NoAnswer(t) \/ Finish(t)
           \/ \E c \in Costs : Answer(t, c) \/ AnswerTooLate(t, c)
    PROVE  work'[u] = work[u]
<1>1. work \in [Turns -> [phase : Phases, calls : 0..MaxCalls]]
  BY DEF TurnsFit
<1>2. ASSUME NEW to, Move(t, to) \/ End(t, to) \/ Leads(t, to) \/ Reserve(t, to)
      PROVE  work'[u] = work[u]
  BY <1>1, <1>2 DEF Move, End, Leads, Reserve
<1>3. \E to : Move(t, to) \/ End(t, to) \/ Leads(t, to) \/ Reserve(t, to)
  BY DEF Admit, Refuse, Reserves, NoAnswer, Finish, Answer, AnswerTooLate
<1> QED
  BY <1>2, <1>3

\* A turn leaves "new" by being admitted or refused.
LEMMA NewTurnsAreDecided ==
    ASSUME TurnsFit, Next, NEW u \in Turns, work[u].phase = "new", work'[u].phase # "new"
    PROVE  Admit(u) \/ Refuse(u)
<1>1. work[u].phase \notin Running /\ work[u].phase \notin Calling
  BY DEF Running, Calling
<1>2. ~Reserves(u) /\ ~NoAnswer(u) /\ ~Finish(u)
      /\ \A c \in Costs : ~Answer(u, c) /\ ~AnswerTooLate(u, c)
  BY <1>1 DEF Reserves, NoAnswer, Finish, Answer, AnswerTooLate
<1>3. ~Crash
  BY <1>1 DEF Crash
<1>4. ~Tick
  BY DEF Tick
<1>5. work'[u] # work[u]
  OBVIOUS
<1>6. CASE \E t \in Turns : Admit(t) \/ Refuse(t) \/ Reserves(t) \/ NoAnswer(t) \/ Finish(t)
  BY <1>2, <1>5, <1>6, OnlyItMoves
<1>7. CASE \E t \in Turns, c \in Costs : Answer(t, c) \/ AnswerTooLate(t, c)
  BY <1>2, <1>5, <1>7, OnlyItMoves
<1> QED
  BY <1>3, <1>4, <1>6, <1>7 DEF Next

LEMMA DecidedExactly ==
    ASSUME LedgerInv, Next, NEW u \in Turns, work[u].phase = "new", work'[u].phase # "new"
    PROVE  work'[u].phase = "refused" <=> ~Affordable(Owner[u])
<1>1. BooksFit /\ TurnsFit /\ work \in [Turns -> [phase : Phases, calls : 0..MaxCalls]]
  BY DEF LedgerInv, TurnsFit
<1>2. Admissible(u, Swept(hold), Swept(call)) <=> Affordable(Owner[u])
  BY <1>1, AdmissibleIsAffordable
<1>3. CASE Admit(u)
  <2>1. work'[u].phase = "round"
    BY <1>1, <1>3 DEF Admit, Move
  <2> QED
    BY <1>2, <1>3, <2>1 DEF Admit
<1>4. CASE Refuse(u)
  <2>1. work'[u].phase = "refused"
    BY <1>1, <1>4 DEF Refuse, Move
  <2> QED
    BY <1>2, <1>4, <2>1 DEF Refuse
<1> QED
  BY <1>1, <1>3, <1>4, NewTurnsAreDecided

\* Booking on one day of an account adds the cost to what it spent.
LEMMA BookingAdds ==
    ASSUME BooksFit, NEW a \in Accounts, NEW cost \in Nat,
           booked' = [booked EXCEPT ![a][Today] = @ + cost]
    PROVE  Spent({a}, Days)' = Spent({a}, Days) + cost /\ Spent({a}, Days) \in Nat
<1> DEFINE S == {a} \X Days
           x == <<a, Today>>
           w == BookedOn(booked, {a}, Days)
           v == BookedOn(booked', {a}, Days)
<1>1. Today \in Days /\ IsFiniteSet(Days) /\ IsFiniteSet(S)
  BY TodayIsDay, DaysAreFinite, FS_Singleton, FS_Product DEF BooksFit
<1>2. booked \in [Accounts -> [Days -> Nat]]
  BY DEF BooksFit
<1>3. x \in S
  BY <1>1
<1>4. \A p \in S : p[1] = a /\ p[2] \in Days /\ w[p] = booked[a][p[2]] /\ v[p] = booked'[a][p[2]]
  BY DEF BookedOn
<1>5. /\ booked'[a][Today] = booked[a][Today] + cost
      /\ \A d \in Days : booked[a][d] \in Nat /\ (d # Today => booked'[a][d] = booked[a][d])
  BY <1>1, <1>2
<1>6. \A d \in Days : booked'[a][d] \in Nat
  BY <1>5
<1>7. w \in [S -> Nat]
  BY <1>4, <1>5 DEF BookedOn
<1>8. v \in [S -> Nat]
  BY <1>4, <1>6 DEF BookedOn
<1>9. v[x] = w[x] + cost
  BY <1>3, <1>4, <1>5
<1>10. ASSUME NEW p \in S, p # x PROVE v[p] = w[p]
  <2>1. p[1] = a /\ p[2] \in Days /\ p = <<p[1], p[2]>>
    OBVIOUS
  <2>2. p[2] # Today
    BY <1>10, <2>1
  <2>3. w[p] = booked[a][p[2]] /\ v[p] = booked'[a][p[2]]
    BY <1>4
  <2>4. booked'[a][p[2]] = booked[a][p[2]]
    BY <1>5, <2>1, <2>2
  <2> QED
    BY ONLY <2>3, <2>4
<1>11. {a} \in SUBSET Accounts /\ Days \in SUBSET Days
  OBVIOUS
<1>12. ASSUME NEW books, BookedOn(books, {a}, Days) \in [S -> Nat]
       PROVE  SpentOf(books, {a}, Days) = Sum(BookedOn(books, {a}, Days), S)
  <2> DEFINE only == {a}
  <2>1. only \in SUBSET Accounts /\ S = only \X Days
    OBVIOUS
  <2>2. BookedOn(books, only, Days) \in [only \X Days -> Nat]
    BY <1>12
  <2> HIDE DEF only
  <2>3. SpentOf(books, only, Days) = Sum(BookedOn(books, only, Days), only \X Days)
    BY <1>1, <1>11, <2>1, <2>2, SpentIsSum
  <2> QED
    BY <2>3 DEF only
<1>13. SpentOf(booked, {a}, Days) = Sum(w, S) /\ SpentOf(booked', {a}, Days) = Sum(v, S)
  BY <1>7, <1>8, <1>12
<1>14. Spent({a}, Days) = SpentOf(booked, {a}, Days)
  BY DEF Spent, SpentOf
<1>15. Spent({a}, Days)' = SpentOf(booked', {a}, Days)
  BY Zenon DEF Spent, SpentOf, MapThenSumSet, MapThenFoldSet, Days
<1> HIDE DEF w, v, S, x
<1>16. Sum(v, S) = Sum(w, S) + cost /\ Sum(w, S) \in Nat
  BY <1>1, <1>3, <1>7, <1>8, <1>9, <1>10, SumGrows, SumIsNat
<1> QED
  BY <1>13, <1>14, <1>15, <1>16

LEMMA TimelyAnswerIsBooked ==
    ASSUME LedgerInv, Next, NEW u \in Turns,
           paid' # paid, work'[u] # work[u], now < call[u].expires
    PROVE  Spent({Owner[u]}, Days)' - Spent({Owner[u]}, Days) = paid'[Owner[u]] - paid[Owner[u]]
<1>1. BooksFit /\ TurnsFit
  BY DEF LedgerInv
<1>2. PICK t \in Turns, c \in Costs : Answer(t, c) \/ AnswerTooLate(t, c)
  BY OtherStepsBookNothing DEF Next, Crash, Tick
<1>3. t = u
  BY <1>1, <1>2, OnlyItMoves
<1>4. Answer(u, c)
  <2>1. TurnFits(work[u], hold[u], call[u], now)
    BY <1>1, TurnFacts
  <2>2. call[u].expires \in Nat /\ now \in Nat
    BY <1>1, <2>1, ConstantFacts DEF TurnFits, Rows, BooksFit
  <2>3. work[u].phase \in Calling => call[u].status = "reserved"
    BY <2>1, <2>2 DEF TurnFits
  <2> QED
    BY <1>2, <1>3, <2>3 DEF AnswerTooLate
<1> DEFINE a == Owner[u]
<1>5. a \in Accounts /\ c \in Nat
  BY ConstantFacts
<1>6. paid' = [paid EXCEPT ![a] = @ + c] /\ booked' = [booked EXCEPT ![a][Today] = @ + c]
  BY <1>4 DEF Answer
<1> HIDE DEF a
<1>7. Spent({a}, Days)' = Spent({a}, Days) + c /\ Spent({a}, Days) \in Nat
  BY <1>1, <1>5, <1>6, BookingAdds
<1>8. paid \in [Accounts -> Nat]
  BY <1>1 DEF BooksFit
<1>9. paid'[a] = paid[a] + c /\ paid[a] \in Nat
  BY <1>5, <1>6, <1>8
<1>10. Spent({a}, Days)' - Spent({a}, Days) = paid'[a] - paid[a]
  BY <1>5, <1>7, <1>9
<1>11. Spent({a}, Days)' = Spent({Owner[u]}, Days)'
  BY DEF a
<1> QED
  BY <1>10, <1>11 DEF a

\* A turn is refused exactly when the budget has no room for it, whoever
\* crashed or ran too long before, and a completion that arrives within the
\* time of its reservation is booked at its cost, whatever other turns swept in
\* between (admitTurn(), settle()).
THEOREM BookingIsExact == Spec => BookedExactly
<1>1. LedgerInv /\ [Next]_vars
      => [\A t \in Turns : work[t].phase = "new" /\ work'[t].phase # "new" =>
             (work'[t].phase = "refused" <=> ~Affordable(Owner[t]))]_vars
  BY DecidedExactly
<1>2. LedgerInv /\ [Next]_vars
      => [\A t \in Turns : paid' # paid /\ work'[t] # work[t] /\ now < call[t].expires =>
             Spent({Owner[t]}, Days)' - Spent({Owner[t]}, Days)
                = paid'[Owner[t]] - paid[Owner[t]]]_vars
  BY TimelyAnswerIsBooked
<1> QED
  BY <1>1, <1>2, LedgerInvariant, PTL DEF Spec, BookedExactly, AdmissionExact, TimelyAnswersBooked

-----------------------------------------------------------------------------
(* The turns the host answers for.                                           *)

Commits == {"none", "not_committed", "uncertain", "unknown", "committed"}
Reasons == TurnHost!Causes \cup {"none", "rate_limited", "account_blocked", "stale_version",
                                "command_conflict", "campaign_not_found", "already_failed",
                                "resolved", "engine_unavailable"}
Answers == [reason : Reasons, commit : Commits, retryable : BOOLEAN]

TurnsTyped ==
    /\ turn \in [Commands -> [status : {"none", "processing", "failed", "resolved"},
                              commit : {"none", "not_committed", "uncertain"},
                              changed : BOOLEAN]]
    /\ post \in [Posts -> [at : {"idle", "sent", "running", "answered"}, cmd : Commands,
                           answer : Answers]]
    /\ told \in [Commands -> SUBSET TurnHost!Claims]

\* A turn has one request that runs it, and none once it has ended.
OneRunner ==
    /\ \A p \in Posts : post[p].at = "running" => turn[post[p].cmd].status = "processing"
    /\ \A p, q \in Posts :
          post[p].at = "running" /\ post[q].at = "running" /\ post[p].cmd = post[q].cmd => p = q

\* What may be told of a turn with this row.
SaidOf(t) ==
    {"refused"} \cup IF t.status = "failed" THEN {t.commit}
                    ELSE IF t.status = "resolved" THEN {"committed", "unknown"} ELSE {}

\* Nothing is told of a turn but what its row says, or that its request was refused.
ToldIsRow ==
    \A c \in Commands :
        /\ told[c] \subseteq SaidOf(turn[c])
        /\ turn[c].status = "failed" =>
              /\ turn[c].commit \in {"not_committed", "uncertain"}
              /\ turn[c].commit = "not_committed" => ~turn[c].changed

PostsInv == TurnsTyped /\ OneRunner /\ ToldIsRow

\* A turn has begun, and the engine changed state for it, only for a request that was let in.
Begun ==
    \A c \in Commands : turn[c].status # "none" \/ turn[c].changed =>
        \E p \in Posts : post[p].cmd = c /\ TurnHost!Entered(p)

TurnsInv == PostsInv /\ Begun

-----------------------------------------------------------------------------
(* The readiness of the host.                                                *)

Places == {"idle", "provider", "heard", "engine", "told"}

HealthTyped ==
    /\ up \in BOOLEAN /\ lastUp \in Nat /\ healthNow \in 0..HealthTime /\ lastUp <= healthNow
    /\ kept \in [there : BOOLEAN, at : 0..healthNow, ok : BOOLEAN]
    /\ check \in [Checks -> [step : Places, since : 0..healthNow, ok : BOOLEAN,
                             faults : 0..Threshold, ready : BOOLEAN]]
    /\ faults \in 0..Threshold

\* How old what a request has heard may be at each of its steps, and how old what is kept.
HeardRecently ==
    /\ up => lastUp = healthNow
    /\ kept.there /\ kept.ok => lastUp + 1 >= kept.at
    /\ \A h \in Checks :
          /\ check[h].step \notin {"idle", "told"} => healthNow <= check[h].since + 1
          /\ check[h].step = "heard" /\ check[h].ok => lastUp >= check[h].since
          /\ check[h].step = "engine" /\ check[h].ok => lastUp + CheckTtl >= check[h].since
          /\ check[h].ready => check[h].step = "told" /\ lastUp + CheckTtl + 1 >= healthNow

HealthInv == HealthTyped /\ HeardRecently

-----------------------------------------------------------------------------
(* The abuse guard.                                                          *)

Ticks == 0..GuardTime
Counts == [Ticks -> Nat]

GuardTyped ==
    /\ guardNow \in Ticks
    /\ attempts \in [GuardAccounts -> Counts] /\ history \in [GuardAccounts -> Counts]
    /\ origin \in [GuardAccounts -> [at : Ticks, from : Origins \cup {"none"}]]
    /\ blocks \subseteq GuardAccounts /\ guardPaid \subseteq GuardAccounts
    /\ IsFiniteSet(signups)
    /\ signups \subseteq [account : GuardAccounts, from : Origins, at : Ticks]

\* The table still holds every attempt of the window, and no others but some older ones.
TableIsWindow ==
    \A a \in GuardAccounts, t \in Ticks :
        /\ attempts[a][t] \in {0, history[a][t]}
        /\ t >= AbuseGuard!Started(TurnWindow) => attempts[a][t] = history[a][t]
        /\ t > guardNow => history[a][t] = 0

\* An account that signed up keeps the origin it signed up from.
SignedUpOnce == \A x \in signups : origin[x.account] = [at |-> x.at, from |-> x.from]

GuardInv ==
    GuardTyped /\ TableIsWindow /\ SignedUpOnce /\ AbuseGuard!BurstBounded /\ AbuseGuard!ClusterBounded

-----------------------------------------------------------------------------
(* The requests to the models.                                               *)

Events == [run : Runs, seq : Nat, selection : {"primary", "fallback"}, status : ModelUsage!Statuses]

\* The events of all the runs that are not in the ledger, and the runs that wait for an answer.
Unflushed(events) == UNION {events[r] : r \in Runs}
Out(sent) == {r \in Runs : sent[r] # "none"}

UsageTyped ==
    /\ asked \in [Runs -> 0..MaxRequests + 1]
    /\ inflight \in [Runs -> {"none", "primary", "fallback"}]
    /\ buffer \in [Runs -> SUBSET Events] /\ IsFiniteSet(Unflushed(buffer))
    /\ rows \subseteq Events /\ IsFiniteSet(rows)
    /\ flushed \in Nat /\ lost \in Nat
    /\ alive \subseteq Runs
    /\ \A r \in Runs : inflight[r] = "primary" => asked[r] <= MaxRequests

\* The number of an event is that of a request sent, and not the one that is out.
Past(e) == e.seq <= asked[e.run] /\ (inflight[e.run] # "none" => e.seq # asked[e.run])

\* One event for each run and number, in the buffer of its run or in the ledger.
EventsApart ==
    /\ \A r \in Runs : \A e \in buffer[r] : e.run = r /\ Past(e)
    /\ \A x \in rows : Past(x)
    /\ \A r \in Runs : \A e, f \in buffer[r] : e.seq = f.seq => e = f
    /\ \A x \in rows : \A e \in buffer[x.run] : x.seq # e.seq

\* The primary request before the one with this number produced nothing in time.
Silence(events, r, n) ==
    \E y \in events : y.run = r /\ y.seq + 1 = n /\ y.selection = "primary"
                       /\ y.status = "timeout_before_output"

FallbacksAnswerSilence ==
    /\ \A r \in Runs : inflight[r] = "fallback" => Silence(buffer[r], r, asked[r])
    /\ \A r \in Runs : \A e \in buffer[r] : e.selection = "fallback" => Silence(buffer[r], r, e.seq)
    /\ \A x \in rows : x.selection = "fallback" => Silence(rows, x.run, x.seq)

UsageInv == UsageTyped /\ EventsApart /\ FallbacksAnswerSilence /\ ModelUsage!RequestsAccounted

-----------------------------------------------------------------------------
(* The table.                                                                *)

Stages == {"idle", "sent", "refused", "calling", "called", "failed", "look", "sheet", "docket",
           "notes", "shown", "answered", "erased"}
Views == [counts : SUBSET Requests, sheet : SUBSET Requests,
          docket : SUBSET (Requests \cup {"none"}), notes : SUBSET Requests]
RequestRows == [kind : ReferenceTable!AllKinds \cup {"none"}, at : Stages, expected : Nat,
                fields : SUBSET Fields, landed : BOOLEAN, hero : BOOLEAN, view : Views]
TableRows == [live : BOOLEAN, version : Nat, hero : BOOLEAN, log : Seq(Requests), counts : SUBSET Requests]

\* The requests that are past the engine's answer.
Under == {"idle", "sent", "calling", "called"}
Passed == {r \in Requests : request[r].at \notin Under}

TableTyped ==
    /\ row \in TableRows
    /\ row.version <= Cardinality(Passed) /\ Len(row.log) <= MaxLog
    /\ docket \in [Fields -> Requests \cup {"none"}]
    /\ has \subseteq Requests
    /\ request \in [Requests -> RequestRows]
    /\ \A r \in Requests : request[r].kind # "details" /\ request[r].at # "idle"
                               => request[r].fields = Fields
    /\ reader \in [cursor : Requests \cup {"none"}, page : Seq(Requests), seen : SUBSET Requests]

\* What a page shows is at least as new as the version it has, part by part as it is read:
\* where x is the row of its request and y that of an edit q that the version counts,
\* h what the engine holds and d the docket.
Covered(x, q, y, h, d) ==
    /\ y.at \notin Under
    /\ y.kind = "create" => x.hero
    /\ x.at # "sheet" /\ x.hero => q \in x.view.sheet \/ q \notin h
    /\ x.at \in {"notes", "shown"} => q \in x.view.docket \/ \A f \in y.fields : d[f] # q
    /\ x.at = "shown" => q \in x.view.notes \/ q \notin h

ViewCovers(x, requests, h, d) ==
    x.at \in {"sheet", "docket", "notes", "shown"} =>
        \A q \in x.view.counts : Covered(x, q, requests[q], h, d)

ViewsFollowCounts ==
    /\ row.counts \subseteq Passed
    /\ \A q \in row.counts : request[q].kind = "create" => row.hero
    /\ \A r \in Requests : ViewCovers(request[r], request, has, docket)

\* A request is in the log once, and what is before the reader's cursor has been seen.
ReaderFollowsLog ==
    /\ \A i \in DOMAIN row.log : row.log[i] \in Passed
    /\ \A i, j \in DOMAIN row.log : row.log[i] = row.log[j] => i = j
    /\ reader.cursor \in Passed \cup {"none"}
    /\ \A i \in DOMAIN row.log : row.log[i] = reader.cursor => \A j \in 1..i : row.log[j] \in reader.seen

TableInv == TableTyped /\ ViewsFollowCounts /\ ReaderFollowsLog

-----------------------------------------------------------------------------
(* What a player is shown.                                                   *)

Knowledge == [who : Projection!Actors, fact : Projection!Facts, rev : 1..MaxRevision, stale : BOOLEAN]

\* A record that is not stale is of the revision the fact has.
KnowledgeFits ==
    /\ facts \in [Projection!Facts -> [rev : 0..MaxRevision, active : BOOLEAN]]
    /\ \A f \in Projection!Facts : facts[f].active => facts[f].rev > 0
    /\ knowledge \subseteq Knowledge
    /\ \A k \in knowledge : k.rev <= facts[k.fact].rev /\ (k.stale \/ k.rev = facts[k.fact].rev)
    /\ entitled \subseteq Projection!Things \ {Projection!Odds}

ViewsInv == KnowledgeFits /\ Projection!EvidenceWithheld

-----------------------------------------------------------------------------
(* The plan of a turn.                                                       *)

PlanTyped ==
    /\ mode \in Modes /\ object \in Objects \cup {"none"} /\ search \in BOOLEAN
    /\ clauses \subseteq Clauses
    /\ staged \in Seq(DmTurn!Effects) /\ Len(staged) <= MaxEffects
    /\ turns \in 0..MaxRounds
    /\ tried \subseteq DmTurn!Repairs /\ pending \in BOOLEAN
    /\ phase \in {"planning", "planned", "thrown", "committed", "done"}
    /\ planKept \subseteq DOMAIN staged
    /\ drafts \in 0..2
    /\ planTold \in {"nobody", "llm", "rules"}

\* A scene move is staged after the check it is bound to, with its outcome.
ScenesBound ==
    \A i \in DOMAIN staged : staged[i].kind = "scene" =>
        /\ staged[i].source \in 1..i - 1
        /\ staged[staged[i].source].outcome = staged[i].outcome

Player == mode = "player_turn"

PlanSound ==
    /\ phase = "planning" => planKept = {} /\ unresolved = {} /\ planTold = "nobody"
    /\ pending /\ Player => DmTurn!Orphans(staged) = {}
    /\ object # "held-transfer" => \E n \in 0..MaxEffects : planKept = 1..n
    /\ Player /\ object = "none" => DmTurn!Orphans(staged) \cap planKept = {}
    /\ unresolved # {} => planKept = {} /\ planTold # "llm"

PlanInv == PlanTyped /\ ScenesBound /\ PlanSound

-----------------------------------------------------------------------------
HostInv ==
    /\ part \in Parts
    /\ part = "TurnHost" => TurnsInv
    /\ part = "HostHealth" => HealthInv
    /\ part = "AbuseGuard" => GuardInv
    /\ part = "ModelUsage" => UsageInv
    /\ part = "ReferenceTable" => TableInv
    /\ part = "Projection" => ViewsInv
    /\ part = "DmTurn" => PlanInv

-----------------------------------------------------------------------------
(* Turns.                                                                    *)

LEMMA InitPosts == TurnHost!Init => PostsInv
<1> SUFFICES ASSUME TurnHost!Init PROVE PostsInv
  OBVIOUS
<1> USE DEF TurnHost!Init
<1>1. TurnsTyped
  <2>1. (CHOOSE c \in Commands : TRUE) \in Commands
    BY HostAssumption
  <2>2. TurnHost!NoAnswer \in Answers
    BY DEF TurnHost!NoAnswer, Answers, Commits, Reasons
  <2> QED
    BY <2>1, <2>2 DEF TurnsTyped, TurnHost!NoTurn
<1>2. OneRunner
  BY DEF OneRunner
<1>3. ToldIsRow
  BY DEF ToldIsRow, TurnHost!NoTurn
<1> QED
  BY <1>1, <1>2, <1>3 DEF PostsInv

ToldSets == [Commands -> SUBSET TurnHost!Claims]
Resting == [at : {"idle", "sent", "answered"}, cmd : Commands, answer : Answers]

\* What a step tells of a turn is what may be told of it.
ToldMore ==
    /\ told' \in ToldSets
    /\ \A c \in Commands : told'[c] \subseteq told[c] \cup SaidOf(turn[c])

LEMMA NothingTold ==
    ASSUME PostsInv, UNCHANGED told
    PROVE  ToldMore
BY DEF PostsInv, TurnsTyped, ToldMore, ToldSets

\* A request that no turn runs for moves, and nothing is told but the row of a turn.
LEMMA RequestMoves ==
    ASSUME PostsInv, NEW p \in Posts, post[p].at # "running",
           NEW q \in Resting, post' = [post EXCEPT ![p] = q], UNCHANGED turn, ToldMore
    PROVE  PostsInv'
<1>1. \A r \in Posts : post'[r] = IF r = p THEN q ELSE post[r]
  BY DEF PostsInv, TurnsTyped
<1>2. TurnsTyped'
  BY DEF PostsInv, TurnsTyped, Resting, ToldMore, ToldSets
<1>3. OneRunner'
  BY <1>1 DEF PostsInv, OneRunner, Resting
<1>4. ToldIsRow'
  BY DEF PostsInv, ToldIsRow, ToldMore
<1> QED
  BY <1>2, <1>3, <1>4 DEF PostsInv

LEMMA RowIsTold ==
    ASSUME PostsInv, NEW c \in Commands, NEW claim \in TurnHost!Claims,
           TurnHost!Tell(c, claim), claim \in SaidOf(turn[c])
    PROVE  ToldMore
BY DEF PostsInv, TurnsTyped, TurnHost!Tell, ToldMore, ToldSets

LEMMA AnswerFits ==
    ASSUME NEW reason \in Reasons, NEW commit \in Commits, NEW retryable \in BOOLEAN
    PROVE  TurnHost!Envelope(reason, commit, retryable) \in Answers
BY DEF TurnHost!Envelope, Answers

\* A result is told, or nothing is.
LEMMA ResultFits ==
    ASSUME NEW e \in TurnHost!Resolved
    PROVE  e \in Answers /\ e.commit \in {"committed", "unknown"}
<1>1. /\ TurnHost!Envelope("resolved", "committed", FALSE) \in Answers
      /\ TurnHost!Envelope("engine_unavailable", "unknown", TRUE) \in Answers
  BY AnswerFits DEF Reasons, Commits
<1>2. /\ TurnHost!Envelope("resolved", "committed", FALSE).commit = "committed"
      /\ TurnHost!Envelope("engine_unavailable", "unknown", TRUE).commit = "unknown"
  BY DEF TurnHost!Envelope
<1> QED
  BY <1>1, <1>2 DEF TurnHost!Resolved

\* An answer ends a request that runs no turn.
LEMMA Answered ==
    ASSUME PostsInv, NEW p \in Posts, NEW e \in Answers, TurnHost!Answer(p, e)
    PROVE  \E q \in Resting :
              q.at = "answered" /\ q.cmd = post[p].cmd /\ q.answer = e /\ post' = [post EXCEPT ![p] = q]
<1> DEFINE q == [post[p] EXCEPT !.at = "answered", !.answer = e]
<1>1. post[p] \in [at : {"idle", "sent", "running", "answered"}, cmd : Commands, answer : Answers]
  BY DEF PostsInv, TurnsTyped
<1>2. q \in Resting
      /\ q.at = "answered" /\ q.cmd = post[p].cmd /\ q.answer = e
  BY <1>1 DEF Resting
<1>3. post' = [post EXCEPT ![p] = q]
  BY DEF TurnHost!Answer, PostsInv, TurnsTyped
<1> QED
  BY <1>2, <1>3

LEMMA PostKeeps ==
    ASSUME PostsInv, NEW p \in Posts, NEW c \in Commands, TurnHost!Post(p, c)
    PROVE  PostsInv'
<1> DEFINE q == [post[p] EXCEPT !.at = "sent", !.cmd = c]
<1>1. post[p] \in [at : {"idle", "sent", "running", "answered"}, cmd : Commands, answer : Answers]
  BY DEF PostsInv, TurnsTyped
<1>2. q \in Resting
  BY <1>1 DEF Resting
<1>3. post' = [post EXCEPT ![p] = q] /\ post[p].at # "running" /\ UNCHANGED <<turn, told>>
  BY DEF TurnHost!Post, PostsInv, TurnsTyped
<1>4. ToldMore
  BY <1>3, NothingTold
<1> HIDE DEF q
<1> QED
  BY <1>2, <1>3, <1>4, RequestMoves

LEMMA RefusedKeeps ==
    ASSUME PostsInv, NEW p \in Posts,
           TurnHost!NotAdmitted(p) \/ TurnHost!Refuse(p) \/ TurnHost!Again(p)
    PROVE  PostsInv'
<1>0. post[p].cmd \in Commands
  BY DEF PostsInv, TurnsTyped
<1>1. post[p].at # "running" /\ UNCHANGED turn
  BY DEF TurnHost!NotAdmitted, TurnHost!Refuse, TurnHost!Again
<1>2. ASSUME NEW e \in Answers, TurnHost!Answer(p, e), UNCHANGED told PROVE PostsInv'
  <2>1. PICK q \in Resting : post' = [post EXCEPT ![p] = q]
    BY <1>2, Answered
  <2>2. ToldMore
    BY <1>2, NothingTold
  <2> QED
    BY <1>1, <1>2, <2>1, <2>2, RequestMoves
<1>t. ASSUME NEW e \in Answers, NEW claim \in TurnHost!Claims, TurnHost!Answer(p, e),
             TurnHost!Tell(post[p].cmd, claim), claim \in SaidOf(turn[post[p].cmd])
      PROVE  PostsInv'
  <2>1. PICK q \in Resting : post' = [post EXCEPT ![p] = q]
    BY <1>t, Answered
  <2>2. ToldMore
    BY <1>0, <1>t, RowIsTold
  <2> QED
    BY <1>1, <2>1, <2>2, RequestMoves
<1>3. CASE TurnHost!NotAdmitted(p)
  <2>1. PICK reason \in TurnHost!AtTheDoor :
           TurnHost!Answer(p, TurnHost!Envelope(reason, "not_committed", reason = "rate_limited"))
    BY <1>3 DEF TurnHost!NotAdmitted
  <2>2. TurnHost!Envelope(reason, "not_committed", reason = "rate_limited") \in Answers
    <3>1. reason \in Reasons /\ "not_committed" \in Commits /\ (reason = "rate_limited") \in BOOLEAN
      BY DEF Reasons, Commits, TurnHost!AtTheDoor
    <3> QED
      BY <3>1, AnswerFits
  <2>3. TurnHost!Tell(post[p].cmd, "refused") /\ "refused" \in TurnHost!Claims
        /\ "refused" \in SaidOf(turn[post[p].cmd])
    BY <1>3 DEF TurnHost!NotAdmitted, TurnHost!Claims, SaidOf
  <2> QED
    BY <1>t, <2>1, <2>2, <2>3
<1>4. CASE TurnHost!Refuse(p)
  <2>1. PICK reason \in {"stale_version", "campaign_not_found"} :
           TurnHost!Answer(p, TurnHost!Refused[reason]) /\ UNCHANGED told
    BY <1>4 DEF TurnHost!Refuse
  <2>2. TurnHost!Refused[reason] \in Answers
    <3>1. TurnHost!Envelope("stale_version", "not_committed", TRUE) \in Answers
          /\ TurnHost!Envelope("campaign_not_found", "not_committed", FALSE) \in Answers
      BY AnswerFits DEF Reasons, Commits
    <3>2. CASE reason = "stale_version"
      BY <3>1, <3>2 DEF TurnHost!Refused
    <3>3. CASE reason = "campaign_not_found"
      BY <3>1, <3>3 DEF TurnHost!Refused
    <3> QED
      BY <3>2, <3>3
  <2> QED
    BY <1>2, <2>1, <2>2
<1>5. CASE TurnHost!Again(p)
  <2> DEFINE c == post[p].cmd
  <2>1. c \in Commands
    BY <1>0
  <2>3. CASE turn[c].status = "processing"
    <3>1. TurnHost!Answer(p, TurnHost!Refused.command_conflict) /\ UNCHANGED told
      BY <1>5, <2>3 DEF TurnHost!Again
    <3>2. TurnHost!Refused.command_conflict \in Answers
      <4>1. TurnHost!Envelope("command_conflict", "unknown", FALSE) \in Answers
        BY AnswerFits DEF Reasons, Commits
      <4> QED
        BY <4>1 DEF TurnHost!Refused
    <3> QED
      BY <1>2, <3>1, <3>2
  <2>4. CASE turn[c].status = "failed"
    <3> DEFINE e == TurnHost!AlreadyFailed(turn[c].commit)
    <3>1. TurnHost!Answer(p, e) /\ TurnHost!Tell(c, e.commit)
      BY <1>5, <2>4 DEF TurnHost!Again
    <3>2. turn[c].commit \in {"not_committed", "uncertain"}
      BY <2>1, <2>4 DEF PostsInv, ToldIsRow
    <3>3. e.commit = turn[c].commit
      BY DEF TurnHost!AlreadyFailed, TurnHost!Envelope
    <3>4. e \in Answers
      <4>1. turn[c].commit \in Commits /\ "already_failed" \in Reasons
            /\ (turn[c].commit = "not_committed") \in BOOLEAN
        BY <3>2 DEF Commits, Reasons
      <4> QED
        BY <4>1, AnswerFits DEF TurnHost!AlreadyFailed
    <3>5. e.commit \in TurnHost!Claims /\ e.commit \in SaidOf(turn[c])
      BY <2>4, <3>2, <3>3 DEF TurnHost!Claims, SaidOf
    <3> HIDE DEF e
    <3> QED
      BY <1>t, <3>1, <3>4, <3>5
  <2>5. CASE turn[c].status = "resolved"
    <3>1. PICK e \in TurnHost!Resolved : TurnHost!Answer(p, e) /\ TurnHost!Tell(c, e.commit)
      BY <1>5, <2>5 DEF TurnHost!Again
    <3>2. e \in Answers /\ e.commit \in {"committed", "unknown"}
      BY ResultFits
    <3>3. e.commit \in TurnHost!Claims /\ e.commit \in SaidOf(turn[c])
      BY <2>5, <3>2 DEF TurnHost!Claims, SaidOf
    <3> QED
      BY <1>t, <3>1, <3>2, <3>3
  <2> QED
    BY <1>5, <2>3, <2>4, <2>5 DEF TurnHost!Again
<1> QED
  BY <1>3, <1>4, <1>5

PostRecords == [at : {"idle", "sent", "running", "answered"}, cmd : Commands, answer : Answers]
TurnRecords == [status : {"none", "processing", "failed", "resolved"},
                commit : {"none", "not_committed", "uncertain"}, changed : BOOLEAN]

LEMMA TurnFields ==
    ASSUME PostsInv, NEW p \in Posts
    PROVE  /\ post \in [Posts -> PostRecords] /\ turn \in [Commands -> TurnRecords]
           /\ told \in ToldSets
           /\ post[p] \in PostRecords /\ post[p].cmd \in Commands
           /\ turn[post[p].cmd] \in TurnRecords
           /\ post[p].at = "running" => turn[post[p].cmd].status = "processing"
           /\ turn[post[p].cmd].status \in {"none", "processing"} => told[post[p].cmd] \subseteq {"refused"}
<1>1. /\ post \in [Posts -> PostRecords] /\ turn \in [Commands -> TurnRecords]
      /\ told \in ToldSets
  BY DEF PostsInv, TurnsTyped, PostRecords, TurnRecords, ToldSets
<1>2. post[p].cmd \in Commands
  BY <1>1 DEF PostRecords
<1> QED
  BY <1>1, <1>2 DEF PostsInv, OneRunner, ToldIsRow, SaidOf

\* The request p, which runs a turn or begins one, moves with the turn's row.
LEMMA RunnerMoves ==
    ASSUME PostsInv, NEW p \in Posts, NEW c \in Commands, c = post[p].cmd,
           post[p].at = "running" \/ turn[c].status = "none",
           post' \in [Posts -> PostRecords], turn' \in [Commands -> TurnRecords], told' \in ToldSets,
           \A q \in Posts : q # p => post'[q] = post[q],
           \A d \in Commands : d # c => turn'[d] = turn[d] /\ told'[d] = told[d],
           post'[p].cmd = c, post'[p].at = "running" <=> turn'[c].status = "processing",
           told'[c] \subseteq SaidOf(turn'[c]),
           turn'[c].status = "failed" => /\ turn'[c].commit # "none"
                                         /\ turn'[c].commit = "not_committed" => ~turn'[c].changed,
           turn'[c].status # "none"
    PROVE  PostsInv'
<1>1. TurnsTyped'
  BY DEF TurnsTyped, PostRecords, TurnRecords, ToldSets
<1>2. \A q \in Posts : q # p /\ post[q].at = "running" => post[q].cmd # c
  BY DEF PostsInv, OneRunner
<1>3. OneRunner'
  <2>1. \A q \in Posts : post[q].cmd \in Commands
    BY DEF PostsInv, TurnsTyped
  <2> QED
    BY <1>2, <2>1 DEF PostsInv, OneRunner
<1>4. ToldIsRow'
  <2> SUFFICES ASSUME NEW d \in Commands
               PROVE  /\ told'[d] \subseteq SaidOf(turn'[d])
                      /\ turn'[d].status = "failed" =>
                            /\ turn'[d].commit \in {"not_committed", "uncertain"}
                            /\ turn'[d].commit = "not_committed" => ~turn'[d].changed
    BY DEF ToldIsRow
  <2>1. CASE d # c
    BY <2>1 DEF PostsInv, ToldIsRow
  <2>2. CASE d = c
    BY <2>2 DEF TurnRecords
  <2> QED
    BY <2>1, <2>2
<1> QED
  BY <1>1, <1>3, <1>4 DEF PostsInv

LEMMA BeginKeeps ==
    ASSUME PostsInv, NEW p \in Posts, TurnHost!Begin(p)
    PROVE  PostsInv'
<1> DEFINE c == post[p].cmd
<1> USE TurnFields
<1>1. /\ post' \in [Posts -> PostRecords] /\ post'[p].cmd = c /\ post'[p].at = "running"
      /\ \A q \in Posts : q # p => post'[q] = post[q]
  BY DEF TurnHost!Begin, PostRecords
<1>2. /\ turn' \in [Commands -> TurnRecords] /\ turn'[c].status = "processing"
      /\ \A d \in Commands : d # c => turn'[d] = turn[d]
  BY DEF TurnHost!Begin, TurnRecords
<1>3. told' = told /\ told[c] \subseteq {"refused"} /\ turn[c].status = "none"
  BY DEF TurnHost!Begin
<1>4. told' \in ToldSets /\ c \in Commands /\ told'[c] \subseteq SaidOf(turn'[c])
  BY <1>3 DEF SaidOf
<1> HIDE DEF c
<1> QED
  BY <1>1, <1>2, <1>3, <1>4, RunnerMoves DEF c

LEMMA AcceptedKeeps ==
    ASSUME PostsInv, NEW p \in Posts, TurnHost!Accepted(p)
    PROVE  PostsInv'
<1> DEFINE c == post[p].cmd
<1> USE TurnFields
<1>1. post' = post /\ told' = told /\ post[p].at = "running" /\ c \in Commands
      /\ turn[c].status = "processing" /\ told[c] \subseteq {"refused"}
  BY DEF TurnHost!Accepted
<1>2. /\ turn' \in [Commands -> TurnRecords] /\ turn'[c].status = turn[c].status
      /\ \A d \in Commands : d # c => turn'[d] = turn[d]
  BY DEF TurnHost!Accepted, TurnRecords
<1>3. post' \in [Posts -> PostRecords] /\ told' \in ToldSets /\ told'[c] \subseteq SaidOf(turn'[c])
  BY <1>1 DEF SaidOf
<1> HIDE DEF c
<1> QED
  BY <1>1, <1>2, <1>3, RunnerMoves DEF c

LEMMA FailKeeps ==
    ASSUME PostsInv, NEW p \in Posts, NEW cause \in TurnHost!Causes, TurnHost!Fail(p, cause)
    PROVE  PostsInv'
<1> DEFINE c == post[p].cmd
           receipt == IF turn[c].changed THEN "uncertain" ELSE "not_committed"
           e == TurnHost!Failed(cause, receipt)
<1> USE TurnFields
<1>1. c \in Commands /\ post[p].at = "running" /\ told[c] \subseteq {"refused"}
  <2>1. post[p].at = "running"
    BY DEF TurnHost!Fail
  <2>2. turn[post[p].cmd].status = "processing"
    BY <2>1, TurnFields
  <2> QED
    BY <2>1, <2>2, TurnFields
<1>2. /\ turn' \in [Commands -> TurnRecords]
      /\ turn'[c].status = "failed" /\ turn'[c].commit = receipt
      /\ turn'[c].changed = turn[c].changed
      /\ \A d \in Commands : d # c => turn'[d] = turn[d]
  BY DEF TurnHost!Fail, TurnRecords
<1>3. e \in Answers /\ e.commit = receipt
  <2>1. cause \in Reasons /\ receipt \in Commits
    BY DEF Reasons, Commits
  <2>2. (cause \in {"capacity", "provider_unavailable"} /\ receipt = "not_committed") \in BOOLEAN
    OBVIOUS
  <2>3. e \in Answers
    BY <2>1, <2>2, AnswerFits DEF TurnHost!Failed
  <2>4. e.commit = receipt
    BY DEF TurnHost!Failed, TurnHost!Envelope
  <2> QED
    BY <2>3, <2>4
<1>4. TurnHost!Answer(p, e) /\ TurnHost!Tell(c, receipt)
  BY <1>3 DEF TurnHost!Fail
<1>5. receipt \in {"not_committed", "uncertain"} /\ (receipt = "not_committed" => ~turn[c].changed)
  BY DEF TurnRecords
<1> HIDE DEF c, receipt, e
<1>6. /\ post' \in [Posts -> PostRecords] /\ post'[p].at = "answered" /\ post'[p].cmd = c
      /\ \A q \in Posts : q # p => post'[q] = post[q]
  BY <1>3, <1>4 DEF TurnHost!Answer, PostRecords, c
<1>7. /\ told' \in ToldSets /\ told'[c] \subseteq {receipt, "refused"}
      /\ \A d \in Commands : d # c => told'[d] = told[d]
  BY <1>1, <1>4, <1>5 DEF TurnHost!Tell, ToldSets, TurnHost!Claims
<1>8. turn'[c].status = "failed" => /\ turn'[c].commit # "none"
                                    /\ turn'[c].commit = "not_committed" => ~turn'[c].changed
  BY <1>2, <1>5
<1>9. told'[c] \subseteq SaidOf(turn'[c])
  BY <1>2, <1>7 DEF SaidOf
<1> QED
  BY <1>1, <1>2, <1>6, <1>7, <1>8, <1>9, RunnerMoves DEF c

LEMMA SucceedKeeps ==
    ASSUME PostsInv, NEW p \in Posts, TurnHost!Succeed(p)
    PROVE  PostsInv'
<1> DEFINE c == post[p].cmd
<1> USE TurnFields
<1>1. c \in Commands /\ post[p].at = "running" /\ told[c] \subseteq {"refused"}
  BY DEF TurnHost!Succeed
<1>2. /\ turn' \in [Commands -> TurnRecords] /\ turn'[c].status = "resolved"
      /\ \A d \in Commands : d # c => turn'[d] = turn[d]
  BY DEF TurnHost!Succeed, TurnRecords
<1>4. PICK e \in TurnHost!Resolved : TurnHost!Answer(p, e) /\ TurnHost!Tell(c, e.commit)
  BY DEF TurnHost!Succeed
<1>3. e \in Answers /\ e.commit \in {"committed", "unknown"}
  BY ResultFits
<1> HIDE DEF c
<1>6. /\ post' \in [Posts -> PostRecords] /\ post'[p].at = "answered" /\ post'[p].cmd = c
      /\ \A q \in Posts : q # p => post'[q] = post[q]
  BY <1>3, <1>4 DEF TurnHost!Answer, PostRecords, c
<1>7. /\ told' \in ToldSets /\ told'[c] \subseteq {"committed", "unknown", "refused"}
      /\ \A d \in Commands : d # c => told'[d] = told[d]
  BY <1>1, <1>3, <1>4 DEF TurnHost!Tell, ToldSets, TurnHost!Claims
<1>8. told'[c] \subseteq SaidOf(turn'[c])
  BY <1>2, <1>7 DEF SaidOf
<1> QED
  BY <1>1, <1>2, <1>6, <1>7, <1>8, RunnerMoves DEF c

LEMMA PollKeeps ==
    ASSUME PostsInv, NEW c \in Commands, TurnHost!Poll(c)
    PROVE  PostsInv'
<1>1. ToldMore
  <2>1. CASE turn[c].status = "failed"
    <3>1. turn[c].commit \in {"not_committed", "uncertain"}
      BY <2>1 DEF PostsInv, ToldIsRow
    <3>2. TurnHost!Tell(c, turn[c].commit)
      BY <2>1 DEF TurnHost!Poll, TurnHost!Status, TurnHost!Envelope
    <3>3. turn[c].commit \in TurnHost!Claims /\ turn[c].commit \in SaidOf(turn[c])
      BY <2>1, <3>1 DEF TurnHost!Claims, SaidOf
    <3> QED
      BY <3>2, <3>3, RowIsTold
  <2>2. CASE turn[c].status = "resolved"
    <3>1. TurnHost!Tell(c, "committed")
      BY <2>2 DEF TurnHost!Poll
    <3>2. "committed" \in TurnHost!Claims /\ "committed" \in SaidOf(turn[c])
      BY <2>2 DEF TurnHost!Claims, SaidOf
    <3> QED
      BY <3>1, <3>2, RowIsTold
  <2> QED
    BY <2>1, <2>2 DEF TurnHost!Poll
<1>2. UNCHANGED <<turn, post>>
  BY DEF TurnHost!Poll
<1>3. TurnsTyped'
  BY <1>1, <1>2 DEF PostsInv, TurnsTyped, ToldMore, ToldSets
<1>4. OneRunner'
  BY <1>2 DEF PostsInv, OneRunner
<1>5. ToldIsRow'
  BY <1>1, <1>2 DEF PostsInv, ToldIsRow, ToldMore
<1> QED
  BY <1>3, <1>4, <1>5 DEF PostsInv

LEMMA NextPosts ==
    ASSUME PostsInv, TurnHost!Next
    PROVE  PostsInv'
BY PostKeeps, RefusedKeeps, BeginKeeps, AcceptedKeeps, FailKeeps, SucceedKeeps, PollKeeps
   DEF TurnHost!Next

\* Only the request p moves.
LEMMA OthersRest ==
    ASSUME PostsInv, NEW p \in Posts, NEW r, post' = [post EXCEPT ![p] = r]
    PROVE  /\ post'[p] = r
           /\ \A q \in Posts : q # p => post'[q] = post[q]
BY DEF PostsInv, TurnsTyped

\* A request that was let in stays so, and of its command.
EnteredStay ==
    \A q \in Posts : TurnHost!Entered(q) => TurnHost!Entered(q)' /\ post'[q].cmd = post[q].cmd

\* A request that waits at the door moves.
LEMMA WaitingMoves ==
    ASSUME PostsInv, NEW p \in Posts, post[p].at \in {"idle", "sent"},
           NEW r, post' = [post EXCEPT ![p] = r]
    PROVE  EnteredStay
<1>1. \A q \in Posts : q # p => post'[q] = post[q]
  BY OthersRest
<1>2. ~TurnHost!Entered(p)
  BY DEF TurnHost!Entered
<1> QED
  BY <1>1, <1>2 DEF EnteredStay, TurnHost!Entered

\* A request that runs a turn gets its answer.
LEMMA RunnerAnswered ==
    ASSUME PostsInv, NEW p \in Posts, NEW e, TurnHost!Answer(p, e),
           e.reason \in TurnHost!Causes \cup {"resolved", "engine_unavailable"}
    PROVE  EnteredStay /\ TurnHost!Entered(p)' /\ post'[p].cmd = post[p].cmd
<1> DEFINE r == [post[p] EXCEPT !.at = "answered", !.answer = e]
<1>1. post[p] \in PostRecords
  BY DEF PostsInv, TurnsTyped, PostRecords
<1>2. r.at = "answered" /\ r.cmd = post[p].cmd /\ r.answer = e
  BY <1>1 DEF PostRecords
<1>3. post' = [post EXCEPT ![p] = r]
  BY DEF TurnHost!Answer, PostsInv, TurnsTyped
<1> HIDE DEF r
<1>4. post'[p] = r /\ \A q \in Posts : q # p => post'[q] = post[q]
  BY <1>3, OthersRest
<1> QED
  BY <1>2, <1>4 DEF EnteredStay, TurnHost!Entered

\* Only the row of c is written.
LEMMA OtherRowsRest ==
    ASSUME PostsInv, NEW c \in Commands, NEW r, turn' = [turn EXCEPT ![c] = r]
    PROVE  \A d \in Commands : d # c => turn'[d] = turn[d]
BY DEF PostsInv, TurnsTyped

\* A turn has begun only for a request that was let in: by step.
LEMMA NextBegun ==
    ASSUME PostsInv, Begun, TurnHost!Next
    PROVE  Begun'
<1>1. ASSUME EnteredStay, UNCHANGED turn PROVE Begun'
  BY <1>1 DEF Begun, EnteredStay
<1>2. ASSUME EnteredStay, NEW p \in Posts, TurnHost!Entered(p)', post'[p].cmd = post[p].cmd,
             \A d \in Commands : d # post[p].cmd => turn'[d] = turn[d]
      PROVE  Begun'
  BY <1>2 DEF Begun, EnteredStay
<1>3. ASSUME NEW p \in Posts, NEW c \in Commands, TurnHost!Post(p, c) PROVE Begun'
  <2> DEFINE r == [post[p] EXCEPT !.at = "sent", !.cmd = c]
  <2>0. post[p].at = "idle" /\ post' = [post EXCEPT ![p] = r]
    BY <1>3 DEF TurnHost!Post, PostsInv, TurnsTyped
  <2> HIDE DEF r
  <2>1. EnteredStay
    BY <2>0, WaitingMoves
  <2> QED
    BY <1>1, <1>3, <2>1 DEF TurnHost!Post
<1>4. ASSUME NEW p \in Posts,
             TurnHost!NotAdmitted(p) \/ TurnHost!Refuse(p) \/ TurnHost!Again(p)
      PROVE  Begun'
  <2>1. post[p].at = "sent" /\ UNCHANGED turn /\ \E e : TurnHost!Answer(p, e)
    BY <1>4 DEF TurnHost!NotAdmitted, TurnHost!Refuse, TurnHost!Again
  <2>2. \E r : post' = [post EXCEPT ![p] = r]
    BY <2>1 DEF TurnHost!Answer, PostsInv, TurnsTyped
  <2>3. EnteredStay
    BY <2>1, <2>2, WaitingMoves
  <2> QED
    BY <1>1, <2>1, <2>3
<1>5. ASSUME NEW p \in Posts, TurnHost!Begin(p) PROVE Begun'
  <2> DEFINE r == [post[p] EXCEPT !.at = "running"]
             w == [turn[post[p].cmd] EXCEPT !.status = "processing"]
  <2>1. /\ post[p].at = "sent" /\ post[p] \in PostRecords /\ post[p].cmd \in Commands
        /\ post' = [post EXCEPT ![p] = r] /\ turn' = [turn EXCEPT ![post[p].cmd] = w]
    BY <1>5, TurnFields DEF TurnHost!Begin, PostsInv, TurnsTyped
  <2>2. r.at = "running" /\ r.cmd = post[p].cmd
    BY <2>1 DEF PostRecords
  <2> HIDE DEF r, w
  <2>3. EnteredStay /\ post'[p] = r
    BY <2>1, WaitingMoves, OthersRest
  <2>4. \A d \in Commands : d # post[p].cmd => turn'[d] = turn[d]
    BY <2>1, OtherRowsRest
  <2> QED
    BY <1>2, <2>2, <2>3, <2>4 DEF TurnHost!Entered
<1>6. ASSUME NEW p \in Posts, TurnHost!Accepted(p) PROVE Begun'
  <2>1. post[p].at = "running" /\ UNCHANGED post /\ post[p].cmd \in Commands
        /\ \E w : turn' = [turn EXCEPT ![post[p].cmd] = w]
    BY <1>6, TurnFields DEF TurnHost!Accepted, PostsInv, TurnsTyped
  <2>2. EnteredStay /\ TurnHost!Entered(p)'
    BY <2>1 DEF EnteredStay, TurnHost!Entered
  <2>3. \A d \in Commands : d # post[p].cmd => turn'[d] = turn[d]
    BY <2>1, OtherRowsRest
  <2> QED
    BY <1>2, <2>1, <2>2, <2>3
<1>7. ASSUME NEW p \in Posts, NEW e, TurnHost!Answer(p, e),
             e.reason \in TurnHost!Causes \cup {"resolved", "engine_unavailable"},
             NEW w, turn' = [turn EXCEPT ![post[p].cmd] = w]
      PROVE  Begun'
  <2>1. EnteredStay /\ TurnHost!Entered(p)' /\ post'[p].cmd = post[p].cmd
    BY <1>7, RunnerAnswered
  <2>2. \A d \in Commands : d # post[p].cmd => turn'[d] = turn[d]
    BY <1>7, TurnFields, OtherRowsRest
  <2> QED
    BY <1>2, <2>1, <2>2
<1>8. ASSUME NEW p \in Posts, NEW cause \in TurnHost!Causes, TurnHost!Fail(p, cause) PROVE Begun'
  <2>1. \E w : turn' = [turn EXCEPT ![post[p].cmd] = w]
    BY <1>8, TurnFields DEF TurnHost!Fail, PostsInv, TurnsTyped
  <2>2. PICK e : TurnHost!Answer(p, e) /\ e.reason = cause
    BY <1>8 DEF TurnHost!Fail, TurnHost!Failed, TurnHost!Envelope
  <2> QED
    BY <1>7, <2>1, <2>2
<1>9. ASSUME NEW p \in Posts, TurnHost!Succeed(p) PROVE Begun'
  <2>1. \E w : turn' = [turn EXCEPT ![post[p].cmd] = w]
    BY <1>9, TurnFields DEF TurnHost!Succeed, PostsInv, TurnsTyped
  <2>2. PICK e \in TurnHost!Resolved : TurnHost!Answer(p, e)
    BY <1>9 DEF TurnHost!Succeed
  <2>3. e.reason \in {"resolved", "engine_unavailable"}
    BY DEF TurnHost!Resolved, TurnHost!Envelope
  <2> QED
    BY <1>7, <2>1, <2>2, <2>3
<1>10. ASSUME NEW c \in Commands, TurnHost!Poll(c) PROVE Begun'
  BY <1>1, <1>10 DEF TurnHost!Poll, EnteredStay, TurnHost!Entered
<1> QED
  BY <1>3, <1>4, <1>5, <1>6, <1>8, <1>9, <1>10 DEF TurnHost!Next

LEMMA InitTurns == TurnHost!Init => TurnsInv
<1>1. TurnHost!Init => Begun
  BY DEF TurnHost!Init, TurnHost!NoTurn, Begun
<1> QED
  BY <1>1, InitPosts DEF TurnsInv

LEMMA NextTurns ==
    ASSUME TurnsInv, TurnHost!Next
    PROVE  TurnsInv'
BY NextPosts, NextBegun DEF TurnsInv

\* One story is told of a turn, and it has its type.
LEMMA TurnsHold == TurnsInv => TurnHost!TypeOK /\ TurnHost!OneStory
<1> SUFFICES ASSUME TurnsInv PROVE TurnHost!TypeOK /\ TurnHost!OneStory
  OBVIOUS
<1>1. TurnHost!TypeOK
  BY DEF TurnsInv, PostsInv, TurnsTyped, TurnHost!TypeOK
<1>2. ASSUME NEW c \in Commands
      PROVE  LET read == told[c] \ {"unknown", "refused"}
             IN  TurnHost!Cardinality(read) <= 1 /\ ("not_committed" \in read => ~turn[c].changed)
  <2> DEFINE read == told[c] \ {"unknown", "refused"}
  <2>0. told[c] \subseteq SaidOf(turn[c])
    BY DEF TurnsInv, PostsInv, ToldIsRow
  <2>1. read = {} \/ \E x : read = {x}
    <3>1. \E x : read \subseteq {x}
      BY <2>0 DEF SaidOf
    <3> QED
      BY <3>1
  <2>3. "not_committed" \in read => ~turn[c].changed
    BY <2>0 DEF TurnsInv, PostsInv, ToldIsRow, SaidOf
  <2> HIDE DEF read
  <2>2. Cardinality(read) = 0 \/ Cardinality(read) = 1
    BY <2>1, FS_EmptySet, FS_Singleton
  <2> QED
    BY <2>2, <2>3 DEF TurnHost!Cardinality, Cardinality, read
<1>3. ASSUME NEW p \in Posts, TurnHost!TurnedAway(p), turn[post[p].cmd].changed
      PROVE  \E q \in Posts \ {p} : post[q].cmd = post[p].cmd /\ TurnHost!Entered(q)
  <2>1. ~TurnHost!Entered(p)
    BY <1>3 DEF TurnHost!TurnedAway, TurnHost!Entered, TurnHost!AtTheDoor, TurnHost!Causes
  <2>2. post[p].cmd \in Commands
    BY DEF TurnsInv, PostsInv, TurnsTyped
  <2> QED
    BY <1>3, <2>1, <2>2 DEF TurnsInv, Begun
<1> QED
  BY <1>1, <1>2, <1>3 DEF TurnHost!OneStory

\* The DM's own receipt wins.
LEMMA ReceiptsWin ==
    ASSUME PostsInv, TurnHost!Next
    PROVE  TurnHost!ReceiptWins
<1> SUFFICES ASSUME NEW p \in Posts, post[p].at = "running", post'[p].at = "answered",
                    turn'[post[p].cmd].changed
             PROVE  /\ post'[p].answer.commit # "not_committed"
                    /\ post'[p].answer.retryable => turn'[post[p].cmd].status = "resolved"
  BY DEF TurnHost!ReceiptWins
<1> USE TurnFields
<1>1. ASSUME NEW q \in Posts, NEW e, TurnHost!Answer(q, e) PROVE q = p /\ post'[p].answer = e
  BY <1>1 DEF TurnHost!Answer, PostRecords
<1>2. ASSUME NEW q \in Posts, NEW c, TurnHost!Post(q, c) PROVE FALSE
  BY <1>2 DEF TurnHost!Post, PostRecords
<1>4. ASSUME NEW q \in Posts, TurnHost!NotAdmitted(q) \/ TurnHost!Refuse(q) \/ TurnHost!Again(q)
      PROVE  FALSE
  <2>1. post[q].at = "sent" /\ \E e : TurnHost!Answer(q, e)
    BY <1>4 DEF TurnHost!NotAdmitted, TurnHost!Refuse, TurnHost!Again
  <2> QED
    BY <1>1, <2>1
<1>5. ASSUME NEW q \in Posts, TurnHost!Begin(q) PROVE FALSE
  BY <1>5 DEF TurnHost!Begin, PostRecords
<1>6. ASSUME UNCHANGED post PROVE FALSE
  BY <1>6
<1>7. ASSUME NEW q \in Posts, TurnHost!Accepted(q) PROVE FALSE
  BY <1>6, <1>7 DEF TurnHost!Accepted
<1>8. ASSUME NEW c, TurnHost!Poll(c) PROVE FALSE
  BY <1>6, <1>8 DEF TurnHost!Poll
<1>9. ASSUME NEW q \in Posts, NEW cause \in TurnHost!Causes, TurnHost!Fail(q, cause)
      PROVE  ~post'[p].answer.retryable /\ post'[p].answer.commit # "not_committed"
  <2> DEFINE receipt == IF turn[post[q].cmd].changed THEN "uncertain" ELSE "not_committed"
  <2>1. q = p /\ post'[p].answer = TurnHost!Failed(cause, receipt)
    <3>1. TurnHost!Answer(q, TurnHost!Failed(cause, receipt))
      BY <1>9 DEF TurnHost!Fail
    <3> HIDE DEF receipt
    <3> QED
      BY <1>1, <3>1
  <2>2. turn'[post[q].cmd].changed = turn[post[q].cmd].changed
    BY <1>9 DEF TurnHost!Fail, TurnRecords
  <2>3. receipt = "uncertain"
    BY <2>1, <2>2
  <2> HIDE DEF receipt
  <2>4. post'[p].answer = [reason |-> cause, commit |-> "uncertain", retryable |-> FALSE]
    BY <2>1, <2>3 DEF TurnHost!Failed, TurnHost!Envelope
  <2> QED
    BY ONLY <2>4
<1>10. ASSUME NEW q \in Posts, TurnHost!Succeed(q)
       PROVE  post'[p].answer.commit # "not_committed" /\ turn'[post[p].cmd].status = "resolved"
  <2>1. PICK e \in TurnHost!Resolved : TurnHost!Answer(q, e)
    BY <1>10 DEF TurnHost!Succeed
  <2>2. q = p /\ post'[p].answer = e
    BY <1>1, <2>1
  <2>3. turn'[post[p].cmd].status = "resolved"
    BY <1>10, <2>2 DEF TurnHost!Succeed, TurnRecords
  <2> QED
    BY <2>2, <2>3, ResultFits
<1> QED
  BY <1>2, <1>4, <1>5, <1>7, <1>8, <1>9, <1>10 DEF TurnHost!Next

-----------------------------------------------------------------------------
(* Readiness.                                                                *)

HealthConstants == CheckTtl \in Nat \ {0} /\ Threshold \in Nat /\ HealthTime \in Nat

CheckRecords(time) == [step : Places, since : 0..time, ok : BOOLEAN, faults : 0..Threshold, ready : BOOLEAN]

\* What a request knows at each of its steps is not older than it may be.
Recent(c, last, time) ==
    /\ c.step \notin {"idle", "told"} => time <= c.since + 1
    /\ c.step = "heard" /\ c.ok => last >= c.since
    /\ c.step = "engine" /\ c.ok => last + CheckTtl >= c.since
    /\ c.ready => c.step = "told" /\ last + CheckTtl + 1 >= time

LEMMA HealthFacts ==
    ASSUME HealthInv
    PROVE  /\ HealthConstants
           /\ up \in BOOLEAN /\ lastUp \in Nat /\ healthNow \in Nat /\ lastUp <= healthNow
           /\ healthNow <= HealthTime
           /\ kept \in [there : BOOLEAN, at : 0..healthNow, ok : BOOLEAN]
           /\ check \in [Checks -> CheckRecords(healthNow)] /\ faults \in 0..Threshold
           /\ up => lastUp = healthNow
           /\ kept.there /\ kept.ok => lastUp + 1 >= kept.at
           /\ \A h \in Checks : check[h] \in CheckRecords(healthNow) /\ Recent(check[h], lastUp, healthNow)
BY HostAssumption DEF HealthInv, HealthTyped, HeardRecently, HealthConstants, CheckRecords, Recent

LEMMA HealthFrom ==
    ASSUME up' \in BOOLEAN, lastUp' \in Nat, healthNow' \in Nat, lastUp' <= healthNow',
           healthNow' <= HealthTime, HealthConstants,
           kept' \in [there : BOOLEAN, at : 0..healthNow', ok : BOOLEAN],
           check' \in [Checks -> CheckRecords(healthNow')], faults' \in 0..Threshold,
           up' => lastUp' = healthNow',
           kept'.there /\ kept'.ok => lastUp' + 1 >= kept'.at,
           \A h \in Checks : Recent(check'[h], lastUp', healthNow')
    PROVE  HealthInv'
<1>1. HealthTyped'
  <2>1. healthNow' \in 0..HealthTime
    BY DEF HealthConstants
  <2> QED
    BY <2>1 DEF HealthTyped, CheckRecords
<1>2. HeardRecently'
  BY DEF HeardRecently, Recent
<1> QED
  BY <1>1, <1>2 DEF HealthInv

LEMMA InitHealth == HostHealth!Init => HealthInv
BY HostAssumption DEF HostHealth!Init, HealthInv, HealthTyped, HeardRecently, HostHealth!NoCheck, Places

\* One request moves.
LEMMA CheckMoves ==
    ASSUME HealthInv, NEW h \in Checks, NEW c \in CheckRecords(healthNow),
           check' = [check EXCEPT ![h] = c], Recent(c, lastUp, healthNow),
           UNCHANGED <<up, lastUp, faults, healthNow>>,
           kept' \in [there : BOOLEAN, at : 0..healthNow, ok : BOOLEAN],
           kept'.there /\ kept'.ok => lastUp + 1 >= kept'.at
    PROVE  HealthInv'
<1>1. check' \in [Checks -> CheckRecords(healthNow')]
  BY HealthFacts
<1>2. \A g \in Checks : Recent(check'[g], lastUp', healthNow')
  BY HealthFacts
<1> QED
  BY HealthFacts, HealthFrom, <1>1, <1>2

LEMMA NoCheckFits ==
    ASSUME HealthInv
    PROVE  HostHealth!NoCheck \in CheckRecords(healthNow) /\ HostHealth!NoCheck.step = "idle"
           /\ ~HostHealth!NoCheck.ready
BY HealthFacts DEF HostHealth!NoCheck, CheckRecords, Places, HealthConstants

\* The clock and the provider move, and requests are at rest or just asked.
LEMMA TickKeepsHealth ==
    ASSUME HealthInv, HostHealth!Tick
    PROVE  HealthInv'
<1> USE HealthFacts DEF HostHealth!Tick, HealthConstants
<1>1. ASSUME NEW h \in Checks
      PROVE  check'[h] \in CheckRecords(healthNow') /\ Recent(check'[h], lastUp', healthNow')
  <2>1. CASE HostHealth!Step(h, "told")
    BY <2>1, NoCheckFits DEF CheckRecords, Recent
  <2>2. CASE ~HostHealth!Step(h, "told")
    <3>1. check'[h] = check[h] /\ check[h].step # "told" /\ ~check[h].ready
      BY <2>2 DEF HostHealth!Step, Recent
    <3>2. check[h].step = "idle" \/ check[h].since = healthNow
      BY <3>1
    <3> QED
      BY <3>1, <3>2 DEF CheckRecords, Recent
  <2> QED
    BY <2>1, <2>2
<1>2. check' \in [Checks -> CheckRecords(healthNow')]
  BY <1>1
<1>3. kept' \in [there : BOOLEAN, at : 0..healthNow', ok : BOOLEAN]
  OBVIOUS
<1>4. /\ lastUp' \in Nat /\ lastUp' >= lastUp /\ lastUp' <= healthNow' /\ (up' => lastUp' = healthNow')
      /\ healthNow' <= HealthTime
  OBVIOUS
<1> QED
  BY <1>1, <1>2, <1>3, <1>4, HealthFrom

LEMMA ReadingFits ==
    ASSUME HealthInv, NEW h \in Checks, NEW b \in BOOLEAN, NEW c, c = HostHealth!Reading(h, b)
    PROVE  c \in CheckRecords(healthNow) /\ c.step = "engine" /\ c.since = healthNow /\ c.ok = b
           /\ c.ready = check[h].ready
<1>1. /\ check[h] \in [step : Places, since : 0..healthNow, ok : BOOLEAN, faults : 0..Threshold,
                       ready : BOOLEAN]
      /\ healthNow \in 0..healthNow /\ faults \in 0..Threshold /\ "engine" \in Places
  BY HealthFacts DEF CheckRecords, Places
<1>2. c = [check[h] EXCEPT !.step = "engine", !.since = healthNow, !.ok = b, !.faults = faults]
  BY DEF HostHealth!Reading
<1> QED
  BY <1>1, <1>2 DEF CheckRecords

LEMMA AskedFits ==
    ASSUME HealthInv, NEW h \in Checks, NEW c,
           c = [check[h] EXCEPT !.step = "provider", !.since = healthNow]
    PROVE  c \in CheckRecords(healthNow) /\ c.step = "provider" /\ c.since = healthNow
           /\ c.ready = check[h].ready
<1>1. /\ check[h] \in [step : Places, since : 0..healthNow, ok : BOOLEAN, faults : 0..Threshold,
                       ready : BOOLEAN]
      /\ healthNow \in 0..healthNow /\ "provider" \in Places
  BY HealthFacts DEF CheckRecords, Places
<1> QED
  BY <1>1 DEF CheckRecords

LEMMA AskKeeps ==
    ASSUME HealthInv, NEW h \in Checks, HostHealth!Ask(h)
    PROVE  HealthInv'
<1> USE HealthFacts DEF HealthConstants
<1>1. check[h].step = "idle" /\ UNCHANGED <<up, lastUp, kept, faults, healthNow>>
  BY DEF HostHealth!Ask, HostHealth!Step
<1>2. ~check[h].ready
  BY <1>1 DEF Recent
<1>3. CASE HostHealth!Fresh
  <2> DEFINE c == HostHealth!Reading(h, kept.ok)
  <2>1. check' = [check EXCEPT ![h] = c]
    BY <1>3 DEF HostHealth!Ask
  <2>2. c \in CheckRecords(healthNow) /\ c.step = "engine" /\ c.since = healthNow /\ c.ok = kept.ok
        /\ c.ready = check[h].ready
    <3>1. kept.ok \in BOOLEAN
      OBVIOUS
    <3> HIDE DEF c
    <3>2. c = HostHealth!Reading(h, kept.ok)
      BY DEF c
    <3> QED
      BY ONLY HealthInv, <3>1, <3>2, ReadingFits
  <2>3. Recent(c, lastUp, healthNow)
    BY <1>2, <1>3, <2>2 DEF Recent, HostHealth!Fresh
  <2> HIDE DEF c
  <2> QED
    BY <1>1, <2>1, <2>2, <2>3, CheckMoves
<1>4. CASE ~HostHealth!Fresh
  <2> DEFINE c == [check[h] EXCEPT !.step = "provider", !.since = healthNow]
  <2>1. check' = [check EXCEPT ![h] = c]
    BY <1>4 DEF HostHealth!Ask
  <2>2. c \in CheckRecords(healthNow) /\ c.step = "provider" /\ c.since = healthNow
        /\ c.ready = check[h].ready
    <3> HIDE DEF c
    <3>1. c = [check[h] EXCEPT !.step = "provider", !.since = healthNow]
      BY DEF c
    <3> QED
      BY ONLY HealthInv, <3>1, AskedFits
  <2>3. Recent(c, lastUp, healthNow)
    BY <1>2, <2>2 DEF Recent
  <2> HIDE DEF c
  <2> QED
    BY <1>1, <2>1, <2>2, <2>3, CheckMoves
<1> QED
  BY <1>3, <1>4

LEMMA ProviderAnswersKeeps ==
    ASSUME HealthInv, NEW h \in Checks, HostHealth!ProviderAnswers(h)
    PROVE  HealthInv'
<1> USE HealthFacts DEF HealthConstants
<1>1. check[h].step = "provider" /\ UNCHANGED <<up, lastUp, kept, faults, healthNow>>
  BY DEF HostHealth!ProviderAnswers, HostHealth!Step
<1>2. PICK answered \in BOOLEAN : check' = [check EXCEPT ![h].step = "heard", ![h].ok = answered /\ up]
  BY DEF HostHealth!ProviderAnswers
<1> DEFINE c == [check[h] EXCEPT !.step = "heard", !.ok = answered /\ up]
<1>3. check' = [check EXCEPT ![h] = c]
  BY <1>2
<1>4. c \in CheckRecords(healthNow) /\ c.step = "heard" /\ c.since = check[h].since
      /\ (c.ok => up) /\ c.ready = check[h].ready
  BY DEF CheckRecords, Places
<1>5. Recent(c, lastUp, healthNow)
  BY <1>1, <1>4 DEF Recent, CheckRecords
<1> HIDE DEF c
<1> QED
  BY <1>1, <1>3, <1>4, <1>5, CheckMoves

LEMMA KeepKeeps ==
    ASSUME HealthInv, NEW h \in Checks, HostHealth!Keep(h)
    PROVE  HealthInv'
<1> USE HealthFacts DEF HealthConstants
<1> DEFINE c == HostHealth!Reading(h, check[h].ok)
<1>1. /\ check[h].step = "heard" /\ UNCHANGED <<up, lastUp, faults, healthNow>>
      /\ check' = [check EXCEPT ![h] = c]
      /\ kept' = [there |-> TRUE, at |-> healthNow, ok |-> check[h].ok]
  BY DEF HostHealth!Keep, HostHealth!Step
<1>2. /\ check[h].since \in Nat /\ healthNow <= check[h].since + 1 /\ ~check[h].ready
      /\ check[h].ok => lastUp >= check[h].since
  BY <1>1 DEF Recent, CheckRecords
<1>3. c \in CheckRecords(healthNow) /\ c.step = "engine" /\ c.since = healthNow /\ c.ok = check[h].ok
      /\ c.ready = check[h].ready
  <2>1. check[h].ok \in BOOLEAN
    BY DEF CheckRecords
  <2> HIDE DEF c
  <2>2. c = HostHealth!Reading(h, check[h].ok)
    BY DEF c
  <2> QED
    BY ONLY HealthInv, <2>1, <2>2, ReadingFits
<1>4. Recent(c, lastUp, healthNow)
  BY <1>2, <1>3 DEF Recent
<1>5. kept' \in [there : BOOLEAN, at : 0..healthNow, ok : BOOLEAN]
  BY <1>1 DEF CheckRecords
<1>6. kept'.there /\ kept'.ok => lastUp + 1 >= kept'.at
  BY <1>1, <1>2
<1> HIDE DEF c
<1> QED
  BY <1>1, <1>3, <1>4, <1>5, <1>6, CheckMoves

LEMMA ReportKeeps ==
    ASSUME HealthInv, NEW h \in Checks, HostHealth!Report(h)
    PROVE  HealthInv'
<1> USE HealthFacts DEF HealthConstants
<1>1. check[h].step = "engine" /\ UNCHANGED <<up, lastUp, kept, faults, healthNow>>
  BY DEF HostHealth!Report, HostHealth!Step
<1>2. PICK engine \in BOOLEAN :
         check' = [check EXCEPT ![h].step = "told",
                                ![h].ready = engine /\ check[h].ok /\ check[h].faults < Threshold]
  BY DEF HostHealth!Report
<1> DEFINE c == [check[h] EXCEPT !.step = "told",
                                 !.ready = engine /\ check[h].ok /\ check[h].faults < Threshold]
<1>3. check' = [check EXCEPT ![h] = c]
  BY <1>2
<1>4. c \in CheckRecords(healthNow) /\ c.step = "told" /\ (c.ready => check[h].ok)
  BY DEF CheckRecords, Places
<1>5. Recent(c, lastUp, healthNow)
  BY <1>1, <1>4 DEF Recent, CheckRecords
<1> HIDE DEF c
<1> QED
  BY <1>1, <1>3, <1>4, <1>5, CheckMoves

LEMMA NextHealth ==
    ASSUME HealthInv, HostHealth!Next
    PROVE  HealthInv'
<1> USE HealthFacts DEF HealthConstants
<1>1. CASE HostHealth!TurnCompletes \/ HostHealth!TurnFaults
  <2>1. faults' \in 0..Threshold /\ UNCHANGED <<up, lastUp, kept, check, healthNow>>
    BY <1>1 DEF HostHealth!TurnCompletes, HostHealth!TurnFaults
  <2> QED
    BY <2>1, HealthFrom
<1>2. CASE HostHealth!ProviderMoves
  <2>1. lastUp' = healthNow /\ up' \in BOOLEAN /\ UNCHANGED <<kept, check, faults, healthNow>>
    BY <1>2 DEF HostHealth!ProviderMoves
  <2>2. \A h \in Checks : Recent(check'[h], lastUp', healthNow')
    BY <2>1 DEF Recent, CheckRecords
  <2> QED
    BY <2>1, <2>2, HealthFrom
<1>3. ASSUME NEW h \in Checks, HostHealth!AskAgain(h) PROVE HealthInv'
  <2>1. check' = [check EXCEPT ![h] = HostHealth!NoCheck] /\ UNCHANGED <<up, lastUp, kept, faults, healthNow>>
    BY <1>3 DEF HostHealth!AskAgain
  <2>2. Recent(HostHealth!NoCheck, lastUp, healthNow)
    BY NoCheckFits DEF Recent
  <2> QED
    BY <2>1, <2>2, NoCheckFits, CheckMoves
<1> QED
  BY <1>1, <1>2, <1>3, TickKeepsHealth, AskKeeps, ProviderAnswersKeeps, KeepKeeps, ReportKeeps
     DEF HostHealth!Next

LEMMA HealthHolds == HealthInv => HostHealth!TypeOK /\ HostHealth!ReadyIsRecent
BY HealthFacts DEF HealthConstants, HostHealth!TypeOK, HostHealth!ReadyIsRecent, CheckRecords, Recent, Places

-----------------------------------------------------------------------------
(* Views.                                                                    *)

FactsFit(table) ==
    /\ table \in [Projection!Facts -> [rev : 0..MaxRevision, active : BOOLEAN]]
    /\ \A f \in Projection!Facts : table[f].active => table[f].rev > 0

Fits(k, table) ==
    k \in Knowledge /\ k.rev <= table[k.fact].rev /\ (k.stale \/ k.rev = table[k.fact].rev)

\* The kinds of command whose arguments are never served.
Withheld == {"world_context", "challenge_attempt", "quest_create", "procedural_notice", "content_compile"}

\* Whatever the characters may see is a thing, and not the odds of a check.
LEMMA AllowedFits ==
    ASSUME knowledge' \subseteq Knowledge
    PROVE  Projection!Allowed \subseteq Projection!Things \ {Projection!Odds}
<1> USE DEF Projection!Things, Projection!Odds, Projection!Objective, Projection!Exit, Projection!Terms,
            Projection!Other, Projection!Fact
<1>1. ASSUME NEW r \in knowledge'
      PROVE  Projection!Fact(r.fact, r.rev) \in Projection!Things \ {Projection!Odds}
  <2>1. r.fact \in Projection!Facts /\ r.rev \in 1..MaxRevision
    BY DEF Knowledge
  <2> QED
    BY <2>1
<1>2. Projection!Fact("truth", 1) \in Projection!Things \ {Projection!Odds}
  <2>1. "truth" \in Projection!Facts /\ 1 \in 1..MaxRevision
    BY HostAssumption DEF Projection!Facts
  <2> QED
    BY <2>1
<1>3. {Projection!Objective, Projection!Exit, Projection!Terms} \subseteq Projection!Things \ {Projection!Odds}
  OBVIOUS
<1> HIDE DEF Projection!Things, Projection!Odds, Projection!Objective, Projection!Exit, Projection!Terms,
             Projection!Other, Projection!Fact
<1> QED
  BY <1>1, <1>2, <1>3 DEF Projection!Allowed, Projection!If

LEMMA AllowedParts ==
    /\ "hero" \in situation' => Projection!Fact("truth", 1) \in Projection!Allowed
    /\ quest' # "none" /\ Projection!ObjectiveSeen(quest', knowledge')
          => Projection!Objective \in Projection!Allowed
BY DEF Projection!Allowed, Projection!If

\* A command is committed with evidence that shows only what is allowed.
LEMMA CommitKeeps ==
    ASSUME ViewsInv, NEW kind, NEW args, NEW changes, NEW withheld,
           Projection!Commit(kind, args, changes, withheld),
           kind = "situation_create" \/
              /\ kind \in Withheld \/ args = {}
              /\ \A c \in changes : Projection!ChangeSeen(c) \subseteq Projection!Allowed,
           FactsFit(facts'), \A k \in knowledge' : Fits(k, facts')
    PROVE  ViewsInv'
<1>1. entitled' = entitled \cup Projection!Allowed
  BY DEF Projection!Commit
<1>2. KnowledgeFits'
  <2>1. knowledge' \subseteq Knowledge
    BY DEF Fits
  <2>2. entitled' \subseteq Projection!Things \ {Projection!Odds}
    BY <1>1, <2>1, AllowedFits DEF ViewsInv, KnowledgeFits
  <2> QED
    BY <2>1, <2>2 DEF KnowledgeFits, FactsFit, Fits
<1>3. PICK nested \in BOOLEAN :
         log' = log \cup {[kind |-> kind, nested |-> nested, args |-> args, changes |-> changes,
                           withheld |-> withheld, odds |-> Projection!If(withheld, {Projection!Odds})]}
  BY DEF Projection!Commit
<1> DEFINE new == [kind |-> kind, nested |-> nested, args |-> args, changes |-> changes,
                   withheld |-> withheld, odds |-> Projection!If(withheld, {Projection!Odds})]
<1>4. kind # "situation_create" => Projection!EventView(new) \subseteq entitled'
  <2> SUFFICES ASSUME kind # "situation_create" PROVE Projection!EventView(new) \subseteq entitled'
    OBVIOUS
  <2>1. Projection!CommandSeen(new) = {}
    BY DEF Projection!CommandSeen, Withheld
  <2>2. Projection!If(~new.withheld, new.odds) = {}
    BY DEF Projection!If
  <2>3. \A c \in new.changes : Projection!ChangeSeen(c) \subseteq entitled'
    BY <1>1
  <2> HIDE DEF new
  <2> QED
    BY <2>1, <2>2, <2>3 DEF Projection!EventView
<1>5. \A e \in log : e.kind # "situation_create" => Projection!EventView(e) \subseteq entitled'
  BY <1>1 DEF ViewsInv, Projection!EvidenceWithheld
<1>6. \A e \in log' : e.kind # "situation_create" => Projection!EventView(e) \subseteq entitled'
  <2>1. new.kind = kind
    OBVIOUS
  <2> HIDE DEF new
  <2>2. log' = log \cup {new}
    BY <1>3 DEF new
  <2> QED
    BY <1>4, <1>5, <2>1, <2>2
<1>7. Projection!EvidenceWithheld'
  BY <1>6 DEF Projection!EvidenceWithheld
<1> QED
  BY <1>2, <1>7 DEF ViewsInv

LEMMA ViewFacts ==
    ASSUME ViewsInv
    PROVE  FactsFit(facts) /\ \A k \in knowledge : Fits(k, facts)
BY DEF ViewsInv, KnowledgeFits, FactsFit, Fits

LEMMA FactFields ==
    ASSUME ViewsInv, NEW f \in Projection!Facts
    PROVE  /\ facts[f].rev \in 0..MaxRevision /\ facts[f].active \in BOOLEAN
           /\ facts[f].active => facts[f].rev \in 1..MaxRevision
BY HostAssumption, ViewFacts DEF FactsFit

LEMMA KnownFields ==
    ASSUME NEW table, FactsFit(table), NEW k, Fits(k, table)
    PROVE  /\ k.fact \in Projection!Facts /\ k.rev \in 1..MaxRevision
           /\ table[k.fact].rev \in 0..MaxRevision /\ k.rev <= table[k.fact].rev
           /\ k.stale \/ k.rev = table[k.fact].rev
BY DEF Fits, FactsFit, Knowledge

\* Facts and knowledge stay as they are.
LEMMA SameKnowledge ==
    ASSUME ViewsInv, facts' = facts, knowledge' = knowledge,
           NEW kind, NEW args, NEW changes, NEW withheld,
           Projection!Commit(kind, args, changes, withheld),
           kind \in Withheld \/ args = {},
           \A c \in changes : Projection!ChangeSeen(c) \subseteq Projection!Allowed
    PROVE  ViewsInv'
<1>1. FactsFit(facts') /\ \A k \in knowledge' : Fits(k, facts')
  BY ViewFacts
<1> QED
  BY <1>1, CommitKeeps

\* The facts stay, and a character learns of one as it is.
LEMMA LearnKeeps ==
    ASSUME ViewsInv, facts' = facts,
           NEW who \in Projection!Actors, NEW f \in Projection!Facts, facts[f].active,
           knowledge' \subseteq knowledge \cup {Projection!Record(who, f, facts[f].rev)},
           NEW kind, NEW args, NEW changes, NEW withheld,
           Projection!Commit(kind, args, changes, withheld),
           kind \in Withheld \/ args = {},
           \A c \in changes : Projection!ChangeSeen(c) \subseteq Projection!Allowed
    PROVE  ViewsInv'
<1>1. Fits(Projection!Record(who, f, facts[f].rev), facts)
  BY FactFields DEF Fits, Projection!Record, Knowledge
<1>2. FactsFit(facts') /\ \A k \in knowledge' : Fits(k, facts')
  BY <1>1, ViewFacts
<1> QED
  BY <1>2, CommitKeeps

LEMMA HiddenChange ==
    ASSUME NEW path \in {"/worldFacts", "/actorKnowledge"}, NEW before, NEW after, NEW things
    PROVE  Projection!ChangeSeen(Projection!Change(path, before, after, things)) = {}
BY DEF Projection!ChangeSeen, Projection!Change

LEMMA PlainChange ==
    ASSUME NEW path \in {"/quests", "/situation"}, NEW before, NEW after, NEW things,
           things \subseteq Projection!Allowed
    PROVE  \A c \in {Projection!Change(path, before, after, things)} :
              Projection!ChangeSeen(c) \subseteq Projection!Allowed
BY DEF Projection!ChangeSeen, Projection!Change

LEMMA WorldContextKeeps ==
    ASSUME ViewsInv, NEW f \in Projection!Facts, NEW remove \in BOOLEAN, NEW noticed \in BOOLEAN,
           Projection!WorldContext(f, remove, noticed)
    PROVE  ViewsInv'
<1> DEFINE r == facts[f].rev + 1
           changes == {Projection!Change("/worldFacts", "", "", {Projection!Fact(f, r)}),
                       Projection!Change("/actorKnowledge", "", "", {Projection!Fact(f, r)})}
           new == Projection!Record("hero", f, r)
<1>1. /\ r <= MaxRevision
      /\ facts' = [facts EXCEPT ![f] = [rev |-> r, active |-> ~remove]]
      /\ knowledge' = Projection!Stale(knowledge, f) \cup Projection!If(noticed, {new})
      /\ Projection!Commit("world_context", {Projection!Fact(f, r)}, changes, FALSE)
  BY DEF Projection!WorldContext
<1>2. r \in 1..MaxRevision /\ facts[f].rev < r
  <2>1. facts[f].rev \in Nat /\ MaxRevision \in Nat
    BY FactFields, HostAssumption
  <2>2. r <= MaxRevision
    BY <1>1
  <2> QED
    BY <2>1, <2>2
<1>3. \A c \in changes : Projection!ChangeSeen(c) \subseteq Projection!Allowed
  BY HiddenChange
<1>4. new \in Knowledge /\ new.fact = f /\ new.rev = r
  BY <1>2 DEF Projection!Record, Projection!Actors, Knowledge
<1> HIDE DEF r, changes, new
<1>5. FactsFit(facts')
  BY <1>1, <1>2, ViewFacts DEF FactsFit
<1>6. facts'[f].rev = r /\ \A g \in Projection!Facts : g # f => facts'[g] = facts[g]
  BY <1>1, ViewFacts DEF FactsFit
<1>7. ASSUME NEW k \in Projection!Stale(knowledge, f) PROVE Fits(k, facts')
  <2>1. PICK j \in knowledge : k = IF j.fact = f THEN [j EXCEPT !.stale = TRUE] ELSE j
    BY DEF Projection!Stale
  <2>2. Fits(j, facts) /\ FactsFit(facts)
    BY ViewFacts
  <2>3. CASE j.fact = f
    <3>1. k \in Knowledge /\ k.fact = f /\ k.stale /\ k.rev = j.rev
      BY <2>1, <2>2, <2>3 DEF Fits, Knowledge
    <3>2. j.rev \in Nat /\ facts[f].rev \in Nat /\ j.rev <= facts[f].rev
      BY <2>2, <2>3, KnownFields
    <3> QED
      BY <1>2, <1>6, <3>1, <3>2 DEF Fits
  <2>4. CASE j.fact # f
    BY <1>6, <2>1, <2>2, <2>4, KnownFields DEF Fits
  <2> QED
    BY <2>3, <2>4
<1>8. Fits(new, facts')
  BY <1>2, <1>4, <1>6 DEF Fits
<1>9. \A k \in knowledge' : Fits(k, facts')
  BY <1>1, <1>7, <1>8 DEF Projection!If
<1>10. "world_context" \in Withheld
  BY DEF Withheld
<1> QED
  BY <1>1, <1>3, <1>5, <1>9, <1>10, CommitKeeps

LEMMA SearchKeeps ==
    ASSUME ViewsInv, NEW f \in Projection!Facts, NEW success \in BOOLEAN, Projection!Search(f, success)
    PROVE  ViewsInv'
<1> DEFINE r == facts[f].rev
           changes == Projection!If(success, {Projection!Change("/actorKnowledge", "", "", {Projection!Fact(f, r)})})
<1>1. /\ facts[f].active /\ facts' = facts
      /\ knowledge' = knowledge \cup Projection!If(success, {Projection!Record("hero", f, r)})
      /\ Projection!Commit("challenge_attempt", {Projection!Fact(f, r)}, changes, TRUE)
  BY DEF Projection!Search
<1>2. knowledge' \subseteq knowledge \cup {Projection!Record("hero", f, r)} /\ "hero" \in Projection!Actors
  BY <1>1 DEF Projection!If, Projection!Actors
<1>3. \A c \in changes : Projection!ChangeSeen(c) \subseteq Projection!Allowed
  BY HiddenChange DEF Projection!If
<1>4. "challenge_attempt" \in Withheld
  BY DEF Withheld
<1> HIDE DEF changes
<1> QED
  BY <1>1, <1>2, <1>3, <1>4, LearnKeeps

LEMMA SituationCreateKeeps ==
    ASSUME ViewsInv, NEW b \in BOOLEAN, Projection!SituationCreate(b)
    PROVE  ViewsInv'
<1> DEFINE new == Projection!Record("ally", "truth", 1)
<1>1. /\ facts["truth"].rev = 0
      /\ facts' = [facts EXCEPT !["truth"] = [rev |-> 1, active |-> TRUE]]
      /\ knowledge' = knowledge \cup Projection!If(b, {new})
  BY DEF Projection!SituationCreate
<1>2. \E args, changes : Projection!Commit("situation_create", args, changes, FALSE)
  BY DEF Projection!SituationCreate
<1>3. "truth" \in Projection!Facts /\ 1 \in 1..MaxRevision
  BY HostAssumption DEF Projection!Facts
<1>4. new \in Knowledge /\ new.fact = "truth" /\ new.rev = 1
  BY <1>3 DEF Projection!Record, Projection!Actors, Knowledge
<1> HIDE DEF new
<1>5. FactsFit(facts')
  BY <1>1, <1>3, ViewFacts DEF FactsFit
<1>6. facts'["truth"].rev = 1 /\ \A g \in Projection!Facts : g # "truth" => facts'[g] = facts[g]
  BY <1>1, <1>3, ViewFacts DEF FactsFit
<1>7. ASSUME NEW k \in knowledge PROVE Fits(k, facts')
  <2>1. Fits(k, facts) /\ FactsFit(facts)
    BY ViewFacts
  <2>2. k.fact # "truth"
    BY <1>1, <2>1, KnownFields
  <2> QED
    BY <1>6, <2>1, <2>2, KnownFields DEF Fits
<1>8. Fits(new, facts')
  BY <1>4, <1>6 DEF Fits
<1>9. \A k \in knowledge' : Fits(k, facts')
  BY <1>1, <1>7, <1>8 DEF Projection!If
<1> QED
  BY <1>2, <1>5, <1>9, CommitKeeps

LEMMA DiscoverKeeps ==
    ASSUME ViewsInv, Projection!Discover
    PROVE  ViewsInv'
<1> DEFINE changes == {Projection!Change("/situation", "", "", {Projection!Fact("truth", 1)})}
<1>1. /\ facts["truth"].active /\ facts' = facts /\ "hero" \in situation'
      /\ knowledge' = knowledge \cup {Projection!Record("hero", "truth", facts["truth"].rev)}
      /\ Projection!Commit("situation_clue_attempt", {}, changes, FALSE)
  BY DEF Projection!Discover
<1>2. "truth" \in Projection!Facts /\ "hero" \in Projection!Actors
  BY DEF Projection!Facts, Projection!Actors
<1>3. {Projection!Fact("truth", 1)} \subseteq Projection!Allowed
  <2>1. "hero" \in situation'
    BY DEF Projection!Discover
  <2>2. Projection!Fact("truth", 1) \in Projection!Allowed
    BY ONLY <2>1, AllowedParts
  <2> QED
    BY ONLY <2>2
<1>4. \A c \in changes : Projection!ChangeSeen(c) \subseteq Projection!Allowed
  BY ONLY <1>3, PlainChange, Zenon
<1> HIDE DEF changes
<1> QED
  BY <1>1, <1>2, <1>4, LearnKeeps

LEMMA QuestKeeps ==
    ASSUME ViewsInv, Projection!QuestCreate \/ Projection!QuestTransition
    PROVE  ViewsInv'
<1> DEFINE changes == {Projection!Change("/quests", "", "", Projection!QuestEvidence(quest', knowledge))}
<1>1. facts' = facts /\ knowledge' = knowledge /\ quest' # "none"
  BY DEF Projection!QuestCreate, Projection!QuestTransition
<1>2. Projection!QuestEvidence(quest', knowledge) \subseteq Projection!Allowed
  <2>1. Projection!ObjectiveSeen(quest', knowledge) => Projection!Objective \in Projection!Allowed
    <3>1. quest' # "none" /\ knowledge' = knowledge
      BY <1>1
    <3> QED
      BY ONLY <3>1, AllowedParts
  <2> QED
    BY ONLY <2>1 DEF Projection!QuestEvidence, Projection!If
<1>3. \A c \in changes : Projection!ChangeSeen(c) \subseteq Projection!Allowed
  BY ONLY <1>2, PlainChange, Zenon
<1>4. \/ Projection!Commit("quest_create", {Projection!Objective}, changes, FALSE)
      \/ Projection!Commit("quest_transition", {}, changes, FALSE)
  BY DEF Projection!QuestCreate, Projection!QuestTransition
<1>5. "quest_create" \in Withheld
  BY DEF Withheld
<1> HIDE DEF changes
<1> QED
  BY <1>1, <1>3, <1>4, <1>5, SameKnowledge

LEMMA HiddenExitKeeps ==
    ASSUME ViewsInv, facts' = facts, knowledge' = knowledge,
           NEW before, NEW after, before = "hidden" \/ after = "hidden", NEW args,
           Projection!Commit("content_compile", args,
              {Projection!Change("/runtimeContent", before, after, {Projection!Exit})}, FALSE)
    PROVE  ViewsInv'
<1> DEFINE changes == {Projection!Change("/runtimeContent", before, after, {Projection!Exit})}
<1>1. \A c \in changes : Projection!ChangeSeen(c) \subseteq Projection!Allowed
  BY DEF Projection!ChangeSeen, Projection!Change, Projection!If
<1>2. Projection!Commit("content_compile", args, changes, FALSE)
  OBVIOUS
<1>3. "content_compile" \in Withheld
  BY DEF Withheld
<1> HIDE DEF changes
<1> QED
  BY <1>1, <1>2, <1>3, SameKnowledge

LEMMA ExitKeeps ==
    ASSUME ViewsInv, Projection!CompileExit \/ Projection!PatchExit
    PROVE  ViewsInv'
<1>1. facts' = facts /\ knowledge' = knowledge
  BY DEF Projection!CompileExit, Projection!PatchExit
<1>2. CASE Projection!CompileExit
  <2>1. Projection!Commit("content_compile", {Projection!Exit},
           {Projection!Change("/runtimeContent", "none", "hidden", {Projection!Exit})}, FALSE)
    BY <1>2 DEF Projection!CompileExit
  <2> QED
    BY <1>1, <2>1, HiddenExitKeeps
<1>3. CASE Projection!PatchExit
  <2>1. exit = "hidden" \/ exit' = "hidden"
    BY <1>3 DEF Projection!PatchExit
  <2>2. Projection!Commit("content_compile", {},
           {Projection!Change("/runtimeContent", exit, exit', {Projection!Exit})}, FALSE)
    BY <1>3 DEF Projection!PatchExit
  <2> QED
    BY <1>1, <2>1, <2>2, HiddenExitKeeps
<1> QED
  BY <1>2, <1>3

LEMMA NoticeKeeps ==
    ASSUME ViewsInv, NEW to, Projection!Notice(to)
    PROVE  ViewsInv'
<1> DEFINE changes == {Projection!Change("/proceduralNotices", notice, to, {Projection!Terms})}
           args == Projection!If(to = "sealed", {Projection!Terms})
<1>1. /\ facts' = facts /\ knowledge' = knowledge /\ notice' = to
      /\ Projection!Commit("procedural_notice", args, changes, FALSE)
  BY DEF Projection!Notice
<1>2. Projection!Delivered(notice) \/ Projection!Delivered(to) => Projection!Delivered(notice')
  BY DEF Projection!Notice, Projection!Delivered
<1>3. \A c \in changes : Projection!ChangeSeen(c) \subseteq Projection!Allowed
  BY <1>2 DEF Projection!ChangeSeen, Projection!Change, Projection!If, Projection!Allowed
<1>4. "procedural_notice" \in Withheld
  BY DEF Withheld
<1> HIDE DEF changes, args
<1> QED
  BY <1>1, <1>3, <1>4, SameKnowledge

LEMMA SelectKeeps ==
    ASSUME ViewsInv, NEW who, Projection!Select(who)
    PROVE  ViewsInv'
<1> DEFINE changes == {}
<1>1. facts' = facts /\ knowledge' = knowledge /\ Projection!Commit("party_set_viewpoint", {}, changes, FALSE)
  BY DEF Projection!Select
<1>2. \A c \in changes : Projection!ChangeSeen(c) \subseteq Projection!Allowed
  OBVIOUS
<1> HIDE DEF changes
<1> QED
  BY <1>1, <1>2, SameKnowledge

LEMMA InitViews == Projection!Init => ViewsInv
BY HostAssumption DEF Projection!Init, ViewsInv, KnowledgeFits, Projection!EvidenceWithheld

LEMMA NextViews ==
    ASSUME ViewsInv, Projection!Next
    PROVE  ViewsInv'
BY WorldContextKeeps, SearchKeeps, QuestKeeps, ExitKeeps, NoticeKeeps, SituationCreateKeeps, DiscoverKeeps,
   SelectKeeps DEF Projection!Next

LEMMA ViewsHold ==
    ViewsInv => Projection!TypeOK /\ Projection!EvidenceWithheld /\ Projection!ViewFollowsKnowledge
<1> SUFFICES ASSUME ViewsInv
             PROVE  Projection!TypeOK /\ Projection!EvidenceWithheld /\ Projection!ViewFollowsKnowledge
  OBVIOUS
<1>1. Projection!TypeOK
  BY DEF Projection!TypeOK, ViewsInv, KnowledgeFits, Knowledge
<1>2. Projection!ViewFollowsKnowledge
  <2> SUFFICES ASSUME quest \in {"hidden", "closed"},
                      Projection!Objective \in Projection!SessionView \cup Projection!ToolView
               PROVE  Projection!KnowsNow("hero", "cache")
    BY DEF Projection!ViewFollowsKnowledge
  <2>1. Projection!ObjectiveSeen(quest, knowledge)
    BY DEF Projection!SessionView, Projection!ToolView, Projection!FactsSeen, Projection!If, Projection!Objective,
           Projection!Exit, Projection!Terms, Projection!Other, Projection!Fact
  <2>2. PICK k \in knowledge : k.who = "hero" /\ k.fact = "cache" /\ ~k.stale
    BY <2>1 DEF Projection!ObjectiveSeen, Projection!Knows
  <2>3. k \in Knowledge /\ k.rev = facts["cache"].rev
    BY <2>2, ViewFacts DEF Fits
  <2>4. k = [who |-> "hero", fact |-> "cache", rev |-> facts["cache"].rev, stale |-> FALSE]
    BY <2>2, <2>3 DEF Knowledge
  <2> QED
    BY <2>4 DEF Projection!KnowsNow, Projection!Record
<1> QED
  BY <1>1, <1>2 DEF ViewsInv

-----------------------------------------------------------------------------
(* The plan of a turn.                                                       *)

LEMMA LeastIsIn ==
    ASSUME NEW S \in SUBSET Nat, S # {}
    PROVE  DmTurn!Min(S) \in S /\ \A y \in S : DmTurn!Min(S) <= y
<1> DEFINE Less == OpToRel(<, Nat)
<1>1. IsWellFoundedOn(Less, Nat)
  BY NatLessThanWellFounded
<1>2. PICK k \in S : \A j \in S : <<j, k>> \notin Less
  <2> HIDE DEF Less
  <2> QED
    BY <1>1, WFMin
<1>3. \A j \in S : k <= j
  <2> SUFFICES ASSUME NEW j \in S PROVE k <= j
    OBVIOUS
  <2>1. ~(j < k)
    BY <1>2 DEF OpToRel
  <2>2. j \in Nat /\ k \in Nat
    BY <1>2
  <2> QED
    BY <2>1, <2>2
<1>4. DmTurn!Min(S) = CHOOSE x \in S : \A y \in S : x <= y
  BY DEF DmTurn!Min
<1> QED
  BY <1>2, <1>3, <1>4

LEMMA GreatestOfPrefix ==
    ASSUME NEW n \in Nat, n # 0
    PROVE  DmTurn!Max(1..n) = n
<1>1. n \in 1..n /\ \A y \in 1..n : n >= y
  OBVIOUS
<1>2. \A x \in 1..n : (\A y \in 1..n : x >= y) => x = n
  OBVIOUS
<1>3. DmTurn!Max(1..n) = CHOOSE x \in 1..n : \A y \in 1..n : x >= y
  BY DEF DmTurn!Max
<1> QED
  BY <1>1, <1>2, <1>3

LEMMA PlanBounds ==
    ASSUME PlanInv
    PROVE  /\ staged \in Seq(DmTurn!Effects) /\ DOMAIN staged = 1..Len(staged)
           /\ Len(staged) \in 0..MaxEffects /\ MaxEffects \in Nat
           /\ turns \in 0..MaxRounds /\ MaxRounds \in Nat
<1>1. MaxEffects \in Nat /\ MaxRounds \in Nat
  BY HostAssumption
<1>2. staged \in Seq(DmTurn!Effects) /\ Len(staged) <= MaxEffects /\ turns \in 0..MaxRounds
  BY DEF PlanInv, PlanTyped
<1>3. DOMAIN staged = 1..Len(staged) /\ Len(staged) \in Nat
  BY <1>2, LenProperties
<1> QED
  BY <1>1, <1>2, <1>3

LEMMA NothingOrphaned == DmTurn!Orphans(<< >>) = {} /\ DOMAIN << >> = {}
BY DEF DmTurn!Orphans

\* What is left of a plan after its orphans are discarded is the start of it, without them.
LEMMA UndiscardedFits ==
    ASSUME PlanInv
    PROVE  /\ DmTurn!Undiscarded(staged) \subseteq DOMAIN staged
           /\ \E n \in 0..MaxEffects : DmTurn!Undiscarded(staged) = 1..n
           /\ DmTurn!Orphans(staged) \cap DmTurn!Undiscarded(staged) = {}
<1>1. CASE DmTurn!Orphans(staged) = {}
  BY <1>1, PlanBounds DEF DmTurn!Undiscarded
<1>2. CASE DmTurn!Orphans(staged) # {}
  <2> DEFINE S == DmTurn!Orphans(staged)
             m == DmTurn!Min(S)
  <2>1. S \subseteq 1..Len(staged)
    BY PlanBounds DEF DmTurn!Orphans
  <2>2. S \in SUBSET Nat /\ S # {}
    BY <1>2, <2>1
  <2> HIDE DEF S
  <2>3. m \in S /\ \A y \in S : m <= y
    BY <2>2, LeastIsIn
  <2>4. DmTurn!Undiscarded(staged) = 1..m - 1
    BY <1>2 DEF S, DmTurn!Undiscarded
  <2> HIDE DEF m
  <2>5. m \in 1..Len(staged) /\ Len(staged) \in 0..MaxEffects /\ MaxEffects \in Nat
    BY <2>1, <2>3, PlanBounds
  <2>6. m - 1 \in 0..MaxEffects /\ 1..m - 1 \subseteq 1..Len(staged)
    BY <2>5
  <2>7. S \cap (1..m - 1) = {}
    BY <2>1, <2>3, <2>5
  <2> QED
    BY <2>4, <2>6, <2>7, PlanBounds DEF S
<1> QED
  BY ONLY <1>1, <1>2

LEMMA FinishKeeps ==
    ASSUME PlanInv, phase = "planning", NEW positions, NEW missing, DmTurn!Finish(positions, missing),
           positions \subseteq DOMAIN staged,
           object # "held-transfer" => \E n \in 0..MaxEffects : positions = 1..n,
           Player /\ object = "none" => DmTurn!Orphans(staged) \cap positions = {},
           missing # {} => positions = {}
    PROVE  PlanInv'
<1> USE DEF DmTurn!Finish, DmTurn!Request
<1>1. PlanTyped'
  BY DEF PlanInv, PlanTyped
<1>2. ScenesBound'
  BY DEF PlanInv, ScenesBound
<1>3. PlanSound'
  <2>1. planTold' = "nobody" /\ staged' = staged
    BY DEF PlanInv, PlanSound
  <2> QED
    BY <2>1 DEF PlanInv, PlanSound, Player, DmTurn!Orphans, DmTurn!Consequence
<1> QED
  BY <1>1, <1>2, <1>3 DEF PlanInv

\* The whole plan is taken.
LEMMA FinishWhole ==
    ASSUME PlanInv, phase = "planning", DmTurn!Finish(DOMAIN staged, {}),
           Player => DmTurn!Orphans(staged) = {}
    PROVE  PlanInv'
BY PlanBounds, FinishKeeps

\* The plan is taken without its orphans.
LEMMA FinishUndiscarded ==
    ASSUME PlanInv, phase = "planning", DmTurn!Finish(DmTurn!Undiscarded(staged), {})
    PROVE  PlanInv'
BY UndiscardedFits, FinishKeeps

LEMMA FinishNothing ==
    ASSUME PlanInv, phase = "planning", NEW missing, DmTurn!Finish({}, missing)
    PROVE  PlanInv'
<1>1. {} = 1..0 /\ 0 \in 0..MaxEffects
  BY PlanBounds
<1> QED
  BY <1>1, FinishKeeps

LEMMA RoundFits ==
    ASSUME PlanInv, DmTurn!Asking
    PROVE  DmTurn!Round \in 0..MaxRounds
<1>1. turns \in Nat /\ turns <= MaxRounds /\ MaxRounds \in Nat
  BY PlanBounds
<1>2. turns < MaxRounds \/ pending
  BY DEF DmTurn!Asking
<1> QED
  BY <1>1, <1>2 DEF DmTurn!Round

LEMMA RepairKeeps ==
    ASSUME PlanInv, DmTurn!Asking, NEW kind \in DmTurn!Repairs, NEW effects \in {staged, << >>},
           NEW waiting \in BOOLEAN, DmTurn!Repair(kind, effects, waiting),
           waiting /\ Player => DmTurn!Orphans(effects) = {}
    PROVE  PlanInv'
<1>0. phase = "planning" /\ phase' = phase /\ planKept' = planKept /\ unresolved' = unresolved
      /\ planTold' = planTold /\ object' = object /\ mode' = mode /\ staged' = effects /\ pending' = waiting
  BY DEF DmTurn!Asking, DmTurn!Repair, DmTurn!Request
<1>1. PlanTyped'
  <2>1. turns' \in 0..MaxRounds
    BY RoundFits DEF DmTurn!Repair
  <2>2. effects \in Seq(DmTurn!Effects) /\ Len(effects) <= MaxEffects
    <3>1. << >> \in Seq(DmTurn!Effects) /\ Len(<< >>) = 0
      OBVIOUS
    <3>2. MaxEffects \in Nat /\ Len(staged) <= MaxEffects /\ staged \in Seq(DmTurn!Effects)
      BY PlanBounds
    <3>3. CASE effects = staged
      BY ONLY <3>2, <3>3
    <3>4. CASE effects = << >>
      BY ONLY <3>1, <3>2, <3>4
    <3> QED
      BY <3>3, <3>4
  <2>3. planKept = {}
    BY <1>0 DEF PlanInv, PlanSound
  <2> QED
    BY <1>0, <2>1, <2>2, <2>3 DEF PlanInv, PlanTyped, DmTurn!Repair, DmTurn!Request
<1>2. ScenesBound'
  <2>1. CASE effects = staged
    BY <1>0, <2>1 DEF PlanInv, ScenesBound
  <2>2. CASE effects = << >>
    BY <1>0, <2>2 DEF ScenesBound
  <2> QED
    BY <2>1, <2>2
<1>3. PlanSound'
  <2>1. planKept' = {} /\ unresolved' = {} /\ planTold' = "nobody"
    BY <1>0 DEF PlanInv, PlanSound
  <2>2. {} = 1..0 /\ 0 \in 0..MaxEffects
    BY PlanBounds
  <2>3. DmTurn!Orphans(staged)' = DmTurn!Orphans(effects)
    BY <1>0 DEF DmTurn!Orphans, DmTurn!Consequence
  <2>4. Player' = Player
    BY <1>0 DEF Player
  <2> QED
    BY <1>0, <2>1, <2>2, <2>3, <2>4 DEF PlanSound
<1> QED
  BY <1>1, <1>2, <1>3 DEF PlanInv

LEMMA ProviderFailsKeeps ==
    ASSUME PlanInv, DmTurn!ProviderFails
    PROVE  PlanInv'
<1> USE DEF DmTurn!ProviderFails
<1>1. phase = "planning"
  BY DEF DmTurn!Asking
<1>2. CASE pending
  <2>1. DmTurn!Finish(DOMAIN staged, {}) /\ (Player => DmTurn!Orphans(staged) = {})
    BY <1>2 DEF PlanInv, PlanSound
  <2> QED
    BY <1>1, <2>1, FinishWhole
<1>3. CASE ~pending /\ staged = << >>
  <2>1. DmTurn!Throw
    BY <1>3
  <2>2. PlanTyped' /\ ScenesBound'
    BY <2>1 DEF DmTurn!Throw, DmTurn!Request, PlanInv, PlanTyped, ScenesBound
  <2>3. PlanSound'
    BY <2>1, <1>1 DEF DmTurn!Throw, DmTurn!Request, PlanInv, PlanSound, Player, DmTurn!Orphans, DmTurn!Consequence
  <2> QED
    BY <2>2, <2>3 DEF PlanInv
<1>4. CASE ~pending /\ staged # << >> /\ Player
  BY <1>1, <1>4, FinishUndiscarded DEF Player
<1>5. CASE ~pending /\ staged # << >> /\ ~Player
  <2>1. DmTurn!Finish(DOMAIN staged, {})
    BY <1>5 DEF Player
  <2> QED
    BY <1>1, <1>5, <2>1, FinishWhole
<1> QED
  BY <1>2, <1>3, <1>4, <1>5

LEMMA ThrowKeeps ==
    ASSUME PlanInv, phase = "planning", DmTurn!Throw
    PROVE  PlanInv'
<1>1. PlanTyped' /\ ScenesBound'
  BY DEF DmTurn!Throw, DmTurn!Request, PlanInv, PlanTyped, ScenesBound
<1>2. PlanSound'
  BY DEF DmTurn!Throw, DmTurn!Request, PlanInv, PlanSound, Player, DmTurn!Orphans, DmTurn!Consequence
<1> QED
  BY <1>1, <1>2 DEF PlanInv

LEMMA PendingIsWhole ==
    ASSUME PlanInv
    PROVE  pending \in BOOLEAN /\ (pending /\ Player => DmTurn!Orphans(staged) = {})
BY DEF PlanInv, PlanSound, PlanTyped

LEMMA AnswerUncoveredKeeps ==
    ASSUME PlanInv, DmTurn!AnswerUncovered
    PROVE  PlanInv'
<1>1. phase = "planning" /\ DmTurn!Asking
  BY DEF DmTurn!AnswerUncovered, DmTurn!Asking
<1>2. "intent" \in DmTurn!Repairs
  BY DEF DmTurn!Repairs
<1>3. \/ DmTurn!Finish({}, DmTurn!Uncovered(staged))
      \/ DmTurn!Repair("intent", << >>, pending)
  BY DEF DmTurn!AnswerUncovered
<1> QED
  BY <1>1, <1>2, <1>3, FinishNothing, RepairKeeps, PendingIsWhole, NothingOrphaned

LEMMA AnswerObjectOpenKeeps ==
    ASSUME PlanInv, DmTurn!AnswerObjectOpen
    PROVE  PlanInv'
<1>1. phase = "planning" /\ DmTurn!Asking
  BY DEF DmTurn!AnswerObjectOpen, DmTurn!Asking
<1>2. "object" \in DmTurn!Repairs
  BY DEF DmTurn!Repairs
<1>3. object # "none"
  BY DEF DmTurn!AnswerObjectOpen, DmTurn!ObjectResolved
<1>4. CASE DmTurn!Finish(DmTurn!ObjectKept(staged), {})
  <2>1. DmTurn!ObjectKept(staged) \subseteq DOMAIN staged
    BY Zenon DEF DmTurn!ObjectKept
  <2>2. object # "held-transfer" => DmTurn!ObjectKept(staged) = DOMAIN staged
    BY Zenon DEF DmTurn!ObjectKept
  <2>3. object # "held-transfer" => \E n \in 0..MaxEffects : DmTurn!ObjectKept(staged) = 1..n
    BY <2>2, PlanBounds
  <2> QED
    BY <1>1, <1>3, <1>4, <2>1, <2>3, FinishKeeps
<1>5. CASE DmTurn!Repair("object", staged, pending)
  BY <1>1, <1>2, <1>5, RepairKeeps, PendingIsWhole
<1> QED
  BY <1>4, <1>5 DEF DmTurn!AnswerObjectOpen

LEMMA AnswerOrphansKeeps ==
    ASSUME PlanInv, DmTurn!AnswerOrphans
    PROVE  PlanInv'
<1>1. phase = "planning" /\ DmTurn!Asking
  BY DEF DmTurn!AnswerOrphans, DmTurn!Asking
<1>2. "consequence" \in DmTurn!Repairs
  BY DEF DmTurn!Repairs
<1>3. \/ DmTurn!Finish(DmTurn!Undiscarded(staged), {})
      \/ DmTurn!Repair("consequence", staged, pending)
  BY DEF DmTurn!AnswerOrphans
<1> QED
  BY <1>1, <1>2, <1>3, FinishUndiscarded, RepairKeeps, PendingIsWhole

LEMMA WholeHasNoOrphans ==
    ASSUME DmTurn!Whole
    PROVE  Player => DmTurn!Orphans(staged) = {}
BY DEF DmTurn!Whole, DmTurn!Orphaned, Player

LEMMA AskedOnceKeeps ==
    ASSUME PlanInv, NEW kind \in DmTurn!Repairs, NEW waiting \in BOOLEAN, DmTurn!AskedOnce(kind, waiting)
    PROVE  PlanInv'
<1>1. phase = "planning" /\ DmTurn!Asking /\ DmTurn!Whole
  BY DEF DmTurn!AskedOnce, DmTurn!Asking
<1>2. \/ DmTurn!Finish(DOMAIN staged, {})
      \/ DmTurn!Repair(kind, staged, waiting)
  BY DEF DmTurn!AskedOnce
<1> QED
  BY <1>1, <1>2, WholeHasNoOrphans, FinishWhole, RepairKeeps

LEMMA AnswerWholeKeeps ==
    ASSUME PlanInv,
           DmTurn!AnswerMalformed \/ DmTurn!AnswerInventsFind \/ DmTurn!AnswerInventsNotice \/ DmTurn!AnswerGood
    PROVE  PlanInv'
<1>1. {"narration", "search", "notice"} \subseteq DmTurn!Repairs /\ pending \in BOOLEAN /\ TRUE \in BOOLEAN
  BY PendingIsWhole DEF DmTurn!Repairs
<1>2. CASE DmTurn!AnswerMalformed
  BY <1>1, <1>2, AskedOnceKeeps DEF DmTurn!AnswerMalformed
<1>3. CASE DmTurn!AnswerInventsFind
  BY <1>1, <1>3, AskedOnceKeeps DEF DmTurn!AnswerInventsFind
<1>4. CASE DmTurn!AnswerInventsNotice
  BY <1>1, <1>4, AskedOnceKeeps DEF DmTurn!AnswerInventsNotice
<1>5. CASE DmTurn!AnswerGood
  BY <1>5, WholeHasNoOrphans, FinishWhole DEF DmTurn!AnswerGood, DmTurn!Asking
<1> QED
  BY <1>2, <1>3, <1>4, <1>5

LEMMA EffectFields ==
    ASSUME NEW e \in DmTurn!Effects, e.kind = "scene"
    PROVE  e.source \in 1..MaxEffects
BY DEF DmTurn!Effects, DmTurn!Effect, DmTurn!CheckKinds

\* The accepted calls of a round come after what was staged.
LEMMA AdditionsFit ==
    ASSUME PlanInv, NEW more \in DmTurn!Additions
    PROVE  /\ staged \o more \in Seq(DmTurn!Effects) /\ Len(staged \o more) <= MaxEffects
           /\ \A i \in 1..Len(staged \o more) : (staged \o more)[i].kind = "scene" =>
                 /\ (staged \o more)[i].source \in 1..i - 1
                 /\ (staged \o more)[(staged \o more)[i].source].outcome = (staged \o more)[i].outcome
<1>1. PICK n \in 0..MaxPlanCalls : more \in [1..n -> DmTurn!Effects]
  BY DEF DmTurn!Additions
<1>2. more \in Seq(DmTurn!Effects) /\ Len(more) \in Nat
  <2>1. n \in Nat
    BY <1>1, HostAssumption
  <2>2. more \in Seq(DmTurn!Effects)
    BY <1>1, <2>1, SeqDef
  <2> QED
    BY <2>2, LenProperties
<1>3. Len(staged) + Len(more) <= MaxEffects
      /\ \A i \in 1..Len(more) : DmTurn!Bindable(more[i], staged, Len(staged))
  BY DEF DmTurn!Additions
<1>4. staged \in Seq(DmTurn!Effects) /\ Len(staged) \in Nat /\ DOMAIN staged = 1..Len(staged)
  BY PlanBounds
<1> DEFINE all == staged \o more
<1>5. /\ all \in Seq(DmTurn!Effects) /\ Len(all) = Len(staged) + Len(more)
      /\ \A i \in 1..Len(all) : all[i] = IF i <= Len(staged) THEN staged[i] ELSE more[i - Len(staged)]
  BY <1>2, <1>4, ConcatProperties
<1> HIDE DEF all
<1>6. ASSUME NEW i \in 1..Len(all), all[i].kind = "scene"
      PROVE  all[i].source \in 1..i - 1 /\ all[all[i].source].outcome = all[i].outcome
  <2>1. CASE i <= Len(staged)
    <3>1. all[i] = staged[i] /\ i \in DOMAIN staged
      BY <1>4, <1>5, <2>1
    <3>2. all[i].source \in 1..i - 1 /\ staged[all[i].source].outcome = all[i].outcome
      BY <1>6, <3>1 DEF PlanInv, ScenesBound
    <3>3. all[i].source \in 1..Len(all) /\ all[i].source <= Len(staged)
      BY <1>2, <1>4, <1>5, <2>1, <3>2
    <3> QED
      BY <1>5, <3>2, <3>3
  <2>2. CASE i > Len(staged)
    <3> DEFINE j == i - Len(staged)
    <3>1. all[i] = more[j] /\ j \in 1..Len(more)
      BY <1>2, <1>4, <1>5, <2>2
    <3>2. DmTurn!Bindable(all[i], staged, Len(staged))
      BY <1>3, <3>1
    <3>3. all[i].source <= Len(staged) /\ staged[all[i].source].outcome = all[i].outcome
      BY <1>6, <3>2 DEF DmTurn!Bindable
    <3>4. all[i] \in DmTurn!Effects
      BY <1>2, <3>1, ElementOfSeq
    <3>5. all[i].source \in 1..MaxEffects
      BY <1>6, <3>4, EffectFields
    <3>6. all[i].source \in 1..i - 1 /\ all[i].source \in 1..Len(all)
      BY <1>2, <1>4, <1>5, <2>2, <3>3, <3>5, PlanBounds
    <3> QED
      BY <1>5, <3>3, <3>6
  <2> QED
    BY <1>4, <2>1, <2>2
<1> QED
  BY <1>3, <1>5, <1>6 DEF all

LEMMA ToolRoundKeeps ==
    ASSUME PlanInv, DmTurn!ToolRound
    PROVE  PlanInv'
<1>1. PICK more \in DmTurn!Additions :
         LET effects == staged \o more
             abandoned == mode = "player_turn" /\ effects /= staged /\ DmTurn!Uncovered(effects) /= {}
         IN  IF abandoned /\ "intent" \in tried
             THEN /\ staged' = <<>> /\ pending' = FALSE /\ turns' = DmTurn!Round
                  /\ phase' = "planned" /\ unresolved' = DmTurn!Uncovered(effects)
                  /\ UNCHANGED <<mode, object, search, clauses, tried, planKept, drafts, planTold>>
             ELSE /\ staged' = (IF abandoned THEN <<>> ELSE effects)
                  /\ tried' = (IF abandoned THEN tried \cup {"intent"} ELSE tried)
                  /\ pending' = FALSE
                  /\ turns' = DmTurn!Round
                  /\ UNCHANGED <<mode, object, search, clauses, phase, planKept, unresolved, drafts, planTold>>
  BY DEF DmTurn!ToolRound, DmTurn!Request
<1>2. phase = "planning" /\ DmTurn!Asking
  BY DEF DmTurn!ToolRound, DmTurn!Asking
<1> DEFINE effects == staged \o more
<1>3. /\ staged' \in {<< >>, effects} /\ pending' = FALSE /\ turns' = DmTurn!Round
      /\ tried' \in {tried, tried \cup {"intent"}}
      /\ phase' = "planned" \/ (phase' = phase /\ unresolved' = unresolved)
      /\ phase' = "planned" \/ phase' = "planning"
      /\ UNCHANGED <<mode, object, search, clauses, planKept, drafts, planTold>>
  BY <1>1, <1>2
<1>4. effects \in Seq(DmTurn!Effects) /\ Len(effects) <= MaxEffects
      /\ \A i \in 1..Len(effects) : effects[i].kind = "scene" =>
             effects[i].source \in 1..i - 1 /\ effects[effects[i].source].outcome = effects[i].outcome
  BY AdditionsFit
<1> HIDE DEF effects
<1>5. << >> \in Seq(DmTurn!Effects) /\ Len(<< >>) = 0 /\ DOMAIN << >> = {} /\ MaxEffects \in Nat
  BY HostAssumption
<1>6. staged' \in Seq(DmTurn!Effects) /\ Len(staged') <= MaxEffects
  <2>1. CASE staged' = << >>
    <3>1. 0 <= MaxEffects
      BY ONLY <1>5
    <3> QED
      BY ONLY <1>5, <2>1, <3>1
  <2>2. CASE staged' = effects
    BY ONLY <1>4, <2>2
  <2> QED
    BY <1>3, <2>1, <2>2
<1>7. planKept = {} /\ planTold = "nobody" /\ unresolved = {}
  BY <1>2 DEF PlanInv, PlanSound
<1>8. PlanTyped'
  <2>1. turns' \in 0..MaxRounds
    BY <1>2, <1>3, RoundFits
  <2>2. tried' \subseteq DmTurn!Repairs
    BY <1>3 DEF PlanInv, PlanTyped, DmTurn!Repairs
  <2>3. phase' \in {"planning", "planned", "thrown", "committed", "done"}
    BY <1>3
  <2> QED
    BY <1>3, <1>6, <1>7, <2>1, <2>2, <2>3 DEF PlanInv, PlanTyped
<1>9. ScenesBound'
  <2>1. CASE staged' = << >>
    BY <1>5, <2>1 DEF ScenesBound
  <2>2. CASE staged' = effects
    <3>1. DOMAIN effects = 1..Len(effects)
      BY <1>4, LenProperties
    <3> QED
      BY <1>4, <2>2, <3>1 DEF ScenesBound
  <2> QED
    BY <1>3, <2>1, <2>2
<1>10. PlanSound'
  <2>1. {} = 1..0 /\ 0 \in 0..MaxEffects
    BY PlanBounds
  <2>2. planKept' = {} /\ planTold' = "nobody" /\ pending' = FALSE
    BY <1>3, <1>7
  <2>3. phase' = "planning" => unresolved' = {}
    BY <1>3, <1>7
  <2> QED
    BY <2>1, <2>2, <2>3 DEF PlanSound
<1> QED
  BY <1>8, <1>9, <1>10 DEF PlanInv

\* The plan and what is known of it stay as they are.
LEMMA SamePlan ==
    ASSUME PlanInv, UNCHANGED <<mode, object, search, clauses, staged, tried, planKept, unresolved>>,
           turns' \in 0..MaxRounds, pending' \in BOOLEAN, pending' => pending,
           phase' \in {"planning", "planned", "thrown", "committed", "done"},
           drafts' \in 0..2, planTold' \in {"nobody", "llm", "rules"},
           phase' = "planning" => phase = "planning" /\ planTold' = planTold,
           planTold' = "llm" => unresolved = {}
    PROVE  PlanInv'
<1>1. PlanTyped' /\ ScenesBound'
  BY DEF PlanInv, PlanTyped, ScenesBound
<1>2. DmTurn!Orphans(staged)' = DmTurn!Orphans(staged) /\ Player' = Player
  BY DEF DmTurn!Orphans, DmTurn!Consequence, Player
<1>3. PlanSound'
  BY <1>2 DEF PlanInv, PlanSound
<1> QED
  BY <1>1, <1>3 DEF PlanInv

LEMMA PlanFields ==
    ASSUME PlanInv
    PROVE  /\ turns \in 0..MaxRounds /\ pending \in BOOLEAN /\ drafts \in 0..2
           /\ phase \in {"planning", "planned", "thrown", "committed", "done"}
           /\ planTold \in {"nobody", "llm", "rules"}
           /\ planTold = "llm" => unresolved = {}
BY DEF PlanInv, PlanTyped, PlanSound

LEMMA LoadRoundKeeps ==
    ASSUME PlanInv, DmTurn!LoadRound
    PROVE  PlanInv'
<1>1. turns' \in 0..MaxRounds
  <2>1. turns' = turns \/ (turns > 0 /\ turns' = turns - 1)
    BY DEF DmTurn!LoadRound
  <2>2. turns \in Nat /\ turns <= MaxRounds /\ MaxRounds \in Nat
    BY PlanBounds
  <2> QED
    BY <2>1, <2>2
<1>2. pending' = FALSE /\ phase' = phase /\ drafts' = drafts /\ planTold' = planTold
      /\ UNCHANGED <<mode, object, search, clauses, staged, tried, planKept, unresolved>>
  BY DEF DmTurn!LoadRound, DmTurn!Request
<1> QED
  BY <1>1, <1>2, PlanFields, SamePlan

LEMMA OutOfRoundsKeeps ==
    ASSUME PlanInv, DmTurn!OutOfRounds
    PROVE  PlanInv'
<1>1. phase = "planning"
  BY DEF DmTurn!OutOfRounds
<1>2. \/ DmTurn!Throw
      \/ DmTurn!Finish({}, DmTurn!Uncovered(staged))
      \/ DmTurn!Finish(DmTurn!Undiscarded(staged), {})
      \/ ~Player /\ DmTurn!Finish(DOMAIN staged, {})
  BY DEF DmTurn!OutOfRounds, Player
<1> QED
  BY <1>1, <1>2, ThrowKeeps, FinishNothing, FinishUndiscarded, FinishWhole

LEMMA EndKeeps ==
    ASSUME PlanInv, DmTurn!Commit \/ DmTurn!DraftRejected \/ DmTurn!ReleaseDraft \/ DmTurn!ReleaseRules
    PROVE  PlanInv'
<1>1. UNCHANGED <<mode, object, search, clauses, staged, turns, tried, pending, planKept, unresolved>>
  BY DEF DmTurn!Commit, DmTurn!DraftRejected, DmTurn!ReleaseDraft, DmTurn!ReleaseRules, DmTurn!Request
<1>2. phase \in {"planned", "committed"} /\ phase' \in {"thrown", "committed", "done"}
  BY DEF DmTurn!Commit, DmTurn!DraftRejected, DmTurn!ReleaseDraft, DmTurn!ReleaseRules, DmTurn!Narratable
<1>3. drafts' \in 0..2
  BY PlanFields DEF DmTurn!Commit, DmTurn!DraftRejected, DmTurn!ReleaseDraft, DmTurn!ReleaseRules, DmTurn!Narratable
<1>4. planTold' \in {"nobody", "llm", "rules"} /\ (planTold' = "llm" => unresolved = {})
  BY PlanFields DEF DmTurn!Commit, DmTurn!DraftRejected, DmTurn!ReleaseDraft, DmTurn!ReleaseRules, DmTurn!Narratable
<1> QED
  BY <1>1, <1>2, <1>3, <1>4, PlanFields, SamePlan

LEMMA FallBackKeeps ==
    ASSUME PlanInv, DmTurn!FallBack
    PROVE  PlanInv'
<1>1. /\ UNCHANGED <<mode, object, search, clauses, staged, turns, tried, pending, unresolved, drafts>>
      /\ planKept' = {} /\ phase' = "done" /\ planTold' \in {"nobody", "rules"}
  BY DEF DmTurn!FallBack, DmTurn!Request
<1>2. PlanTyped' /\ ScenesBound'
  BY <1>1 DEF PlanInv, PlanTyped, ScenesBound
<1>3. DmTurn!Orphans(staged)' = DmTurn!Orphans(staged) /\ Player' = Player
  BY <1>1 DEF DmTurn!Orphans, DmTurn!Consequence, Player
<1>4. {} = 1..0 /\ 0 \in 0..MaxEffects
  BY PlanBounds
<1>5. PlanSound'
  BY <1>1, <1>3, <1>4 DEF PlanInv, PlanSound
<1> QED
  BY <1>2, <1>5 DEF PlanInv

LEMMA InitPlan == DmTurn!Init => PlanInv
<1> SUFFICES ASSUME DmTurn!Init PROVE PlanInv
  OBVIOUS
<1> USE DEF DmTurn!Init
<1>1. << >> \in Seq(DmTurn!Effects) /\ Len(<< >>) = 0 /\ DOMAIN << >> = {} /\ MaxEffects \in Nat /\ MaxRounds \in Nat
  BY HostAssumption
<1>2. PlanTyped
  <2>1. object \in Objects \cup {"none"}
    BY DEF DmTurn!ObjectIntents
  <2>2. clauses \subseteq Clauses
    BY DEF DmTurn!Intents
  <2>3. tried \subseteq DmTurn!Repairs /\ planKept \subseteq DOMAIN staged
    OBVIOUS
  <2>4. turns \in 0..MaxRounds /\ drafts \in 0..2 /\ staged \in Seq(DmTurn!Effects) /\ Len(staged) <= MaxEffects
    BY <1>1
  <2> QED
    BY <2>1, <2>2, <2>3, <2>4 DEF PlanTyped
<1>3. ScenesBound
  BY <1>1 DEF ScenesBound
<1>4. PlanSound
  <2>1. {} = 1..0 /\ 0 \in 0..MaxEffects
    BY <1>1
  <2> QED
    BY <2>1 DEF PlanSound
<1> QED
  BY <1>2, <1>3, <1>4 DEF PlanInv

LEMMA NextPlan ==
    ASSUME PlanInv, DmTurn!Next
    PROVE  PlanInv'
BY ProviderFailsKeeps, AnswerUncoveredKeeps, AnswerObjectOpenKeeps, AnswerOrphansKeeps, AnswerWholeKeeps,
   ToolRoundKeeps, LoadRoundKeeps, OutOfRoundsKeeps, EndKeeps, FallBackKeeps DEF DmTurn!Next

LEMMA PlanHolds ==
    PlanInv => /\ DmTurn!TypeOK
               /\ DmTurn!EvidenceIsState /\ DmTurn!ScenesFollowTheirCheck
               /\ DmTurn!UnresolvedChangesNothing /\ DmTurn!NoOrphanedCheck
<1> SUFFICES ASSUME PlanInv
             PROVE  /\ DmTurn!TypeOK
                    /\ DmTurn!EvidenceIsState /\ DmTurn!ScenesFollowTheirCheck
                    /\ DmTurn!UnresolvedChangesNothing /\ DmTurn!NoOrphanedCheck
  OBVIOUS
<1>1. DmTurn!TypeOK
  <2>1. turns \in 0..MaxRounds + 1
    BY PlanBounds
  <2> QED
    BY <2>1 DEF DmTurn!TypeOK, PlanInv, PlanTyped
<1>2. DmTurn!EvidenceIsState
  <2> SUFFICES ASSUME planKept # {}, object # "held-transfer" PROVE planKept = 1..DmTurn!Max(planKept)
    BY DEF DmTurn!EvidenceIsState, DmTurn!Plan
  <2>1. PICK n \in 0..MaxEffects : planKept = 1..n
    BY DEF PlanInv, PlanSound
  <2>2. n \in Nat /\ n # 0
    BY <2>1
  <2> QED
    BY <2>1, <2>2, GreatestOfPrefix
<1>3. DmTurn!ScenesFollowTheirCheck
  <2> SUFFICES ASSUME object # "held-transfer", NEW i \in planKept, staged[i].kind = "scene"
               PROVE  /\ staged[i].source \in planKept /\ staged[i].source < i
                      /\ staged[staged[i].source].outcome = staged[i].outcome
    BY DEF DmTurn!ScenesFollowTheirCheck, DmTurn!Plan
  <2>1. PICK n \in 0..MaxEffects : planKept = 1..n
    BY DEF PlanInv, PlanSound
  <2>2. i \in DOMAIN staged
    BY DEF PlanInv, PlanTyped
  <2>3. staged[i].source \in 1..i - 1 /\ staged[staged[i].source].outcome = staged[i].outcome
    BY <2>2 DEF PlanInv, ScenesBound
  <2>4. i \in 1..n /\ n \in Nat
    BY <2>1
  <2>5. staged[i].source \in 1..n /\ staged[i].source < i
    BY <2>3, <2>4
  <2> QED
    BY <2>1, <2>3, <2>5
<1>4. DmTurn!UnresolvedChangesNothing /\ DmTurn!NoOrphanedCheck
  BY DEF DmTurn!UnresolvedChangesNothing, DmTurn!NoOrphanedCheck, PlanInv, PlanSound, Player
<1> QED
  BY <1>1, <1>2, <1>3, <1>4

-----------------------------------------------------------------------------
(* The requests to the models.                                               *)

Requested(table) == ModelUsage!MapThenSumSet(LAMBDA r : table[r], Runs)

LEMMA RequestedIsSum ==
    ASSUME NEW table \in [Runs -> Nat]
    PROVE  Requested(table) = Sum(table, Runs)
<1> DEFINE Step(iter) == [s \in SUBSET (Runs) |->
                    IF s = {} THEN 0
                    ELSE (table[First(s)]) + iter[s \ {First(s)}]]
           F == CHOOSE iter : iter = Step(iter)
<1>1. IsFiniteSet(Runs)
  BY HostAssumption
<1>2. Requested(table) = F[Runs]
  BY Zenon DEF Requested, ModelUsage!MapThenSumSet, ModelUsage!MapThenFoldSet, First
<1>3. IsSum(SumFn(table, Runs), table, Runs)
  BY <1>1, SumExists
<1>4. ASSUME NEW iter
      PROVE  IsSum(iter, table, Runs) <=> iter = Step(iter)
  BY DEF IsSum
<1>5. IsSum(F, table, Runs)
  <2>1. SumFn(table, Runs) = Step(SumFn(table, Runs))
    BY <1>3, <1>4
  <2> HIDE DEF Step
  <2>2. F = Step(F)
    BY <2>1
  <2> QED
    BY <1>4, <2>2
<1>6. F = SumFn(table, Runs)
  <2> HIDE DEF F
  <2> QED
    BY <1>1, <1>3, <1>5, SumIsUnique
<1> QED
  BY <1>2, <1>6 DEF Sum

\* Requests sent: they are in the ledger, lost, out or not flushed.
Balance(table, sent, events, stored, gone) ==
    Sum(table, Runs) = Cardinality(stored) + gone + Cardinality(Out(sent)) + Cardinality(Unflushed(events))

LEMMA UsageTypes ==
    ASSUME UsageInv
    PROVE  /\ asked \in [Runs -> Nat] /\ \A r \in Runs : asked[r] \in 0..MaxRequests + 1
           /\ MaxRequests \in Nat /\ lost \in Nat
           /\ IsFiniteSet(Unflushed(buffer)) /\ IsFiniteSet(rows) /\ IsFiniteSet(Out(inflight))
           /\ \A r \in Runs : IsFiniteSet(buffer[r])
           /\ IsFiniteSet(Runs)
<1>1. asked \in [Runs -> 0..MaxRequests + 1] /\ MaxRequests \in Nat /\ IsFiniteSet(Runs)
      /\ lost \in Nat /\ IsFiniteSet(Unflushed(buffer)) /\ IsFiniteSet(rows)
  BY HostAssumption DEF UsageInv, UsageTyped
<1>2. asked \in [Runs -> Nat]
  BY <1>1
<1>3. Out(inflight) \in SUBSET Runs /\ \A r \in Runs : buffer[r] \in SUBSET Unflushed(buffer)
  BY DEF Out, Unflushed
<1>4. IsFiniteSet(Out(inflight)) /\ \A r \in Runs : IsFiniteSet(buffer[r])
  BY <1>1, <1>3, FS_Subset
<1> QED
  BY <1>1, <1>2, <1>4

LEMMA BalanceSays ==
    asked \in [Runs -> Nat] =>
       (ModelUsage!RequestsAccounted <=> Balance(asked, inflight, buffer, rows, lost))
<1> SUFFICES ASSUME asked \in [Runs -> Nat]
             PROVE  ModelUsage!RequestsAccounted <=> Balance(asked, inflight, buffer, rows, lost)
  OBVIOUS
<1>1. Requested(asked) = Sum(asked, Runs)
  BY RequestedIsSum
<1> QED
  BY <1>1 DEF ModelUsage!RequestsAccounted, Balance, Requested, Out, Unflushed, ModelUsage!Cardinality, Cardinality

LEMMA BalanceWillSay ==
    ASSUME asked' \in [Runs -> Nat], Balance(asked', inflight', buffer', rows', lost')
    PROVE  ModelUsage!RequestsAccounted'
<1>1. (asked \in [Runs -> Nat] =>
         (ModelUsage!RequestsAccounted <=> Balance(asked, inflight, buffer, rows, lost)))'
  BY BalanceSays, PTL
<1>2. Balance(asked, inflight, buffer, rows, lost)'
  OBVIOUS
<1> QED
  BY <1>1, <1>2

LEMMA EventFacts ==
    ASSUME UsageInv, NEW r \in Runs
    PROVE  /\ buffer[r] \subseteq Events /\ inflight[r] \in {"none", "primary", "fallback"}
           /\ asked[r] \in Nat
           /\ \A e \in buffer[r] : e \in Events /\ e.run = r /\ e.seq \in Nat /\ e.seq <= asked[r]
                 /\ (inflight[r] # "none" => e.seq # asked[r])
           /\ \A x \in rows : x.run = r => x.seq \in Nat /\ x.seq <= asked[r]
                 /\ (inflight[r] # "none" => x.seq # asked[r])
<1>1. buffer[r] \subseteq Events /\ rows \subseteq Events
  BY DEF UsageInv, UsageTyped
<1>2. \A e \in Events : e.seq \in Nat
  BY DEF Events
<1>3. inflight[r] \in {"none", "primary", "fallback"} /\ asked[r] \in Nat
  BY UsageTypes DEF UsageInv, UsageTyped
<1>4. \A e \in buffer[r] : e.run = r /\ Past(e)
  BY DEF UsageInv, EventsApart
<1>5. \A x \in rows : Past(x)
  BY DEF UsageInv, EventsApart
<1> QED
  BY <1>1, <1>2, <1>3, <1>4, <1>5 DEF Past

LEMMA RequestKeepsUsage ==
    ASSUME UsageInv, NEW r \in Runs, ModelUsage!Request(r)
    PROVE  UsageInv'
<1>1. /\ inflight[r] = "none" /\ buffer[r] = {} /\ asked[r] < MaxRequests
      /\ asked' = [asked EXCEPT ![r] = asked[r] + 1]
      /\ inflight' = [inflight EXCEPT ![r] = "primary"]
      /\ UNCHANGED <<buffer, flushed, rows, lost, alive>>
  BY DEF ModelUsage!Request
<1>2. asked[r] \in Nat /\ MaxRequests \in Nat /\ asked[r] + 1 \in 0..MaxRequests
  BY <1>1, UsageTypes
<1>3. /\ asked'[r] = asked[r] + 1 /\ inflight'[r] = "primary"
      /\ \A q \in Runs : q # r => asked'[q] = asked[q] /\ inflight'[q] = inflight[q]
  BY <1>1 DEF UsageInv, UsageTyped
<1>4. asked' \in [Runs -> 0..MaxRequests + 1] /\ asked' \in [Runs -> Nat]
  BY <1>1, <1>2, UsageTypes DEF UsageInv, UsageTyped
<1>5. UsageTyped'
  <2>1. inflight' \in [Runs -> {"none", "primary", "fallback"}]
    BY <1>1 DEF UsageInv, UsageTyped
  <2>2. \A q \in Runs : inflight'[q] = "primary" => asked'[q] <= MaxRequests
    BY <1>2, <1>3 DEF UsageInv, UsageTyped
  <2> QED
    BY <1>1, <1>4, <2>1, <2>2 DEF UsageInv, UsageTyped, Unflushed
<1>6. ASSUME NEW e \in Events, Past(e)
      PROVE  Past(e)'
  <2>1. e.run \in Runs /\ e.seq \in Nat
    BY DEF Events
  <2> QED
    BY <1>2, <1>3, <1>6, <2>1 DEF Past
<1>7. EventsApart'
  BY <1>1, <1>6 DEF UsageInv, UsageTyped, EventsApart
<1>8. FallbacksAnswerSilence'
  BY <1>1, <1>3 DEF UsageInv, FallbacksAnswerSilence
<1>9. ModelUsage!RequestsAccounted'
  <2>1. Sum(asked', Runs) = Sum(asked, Runs) + 1
    BY <1>3, <1>4, UsageTypes, SumGrows
  <2>2. Out(inflight') = Out(inflight) \cup {r} /\ r \notin Out(inflight)
    BY <1>1, <1>3 DEF Out
  <2>3. Cardinality(Out(inflight')) = Cardinality(Out(inflight)) + 1
    BY <2>2, UsageTypes, FS_AddElement
  <2>4. Balance(asked, inflight, buffer, rows, lost)
    BY UsageTypes, BalanceSays DEF UsageInv
  <2>5. /\ Cardinality(Out(inflight)) \in Nat /\ Cardinality(rows) \in Nat /\ lost \in Nat
        /\ Cardinality(Unflushed(buffer)) \in Nat
    BY UsageTypes, FS_CardinalityType
  <2>6. Balance(asked', inflight', buffer', rows', lost')
    BY <1>1, <2>1, <2>3, <2>4, <2>5 DEF Balance
  <2> QED
    BY <1>4, <2>6, BalanceWillSay
<1> QED
  BY <1>5, <1>7, <1>8, <1>9 DEF UsageInv

\* The event of an answer is the only one with its number.
LEMMA NewEvent ==
    ASSUME UsageInv, NEW r \in Runs, inflight[r] # "none", NEW status \in ModelUsage!Statuses
    PROVE  /\ ModelUsage!Event(r, status) \in Events
           /\ ModelUsage!Event(r, status).run = r /\ ModelUsage!Event(r, status).seq = asked[r]
           /\ ModelUsage!Event(r, status).selection = inflight[r]
           /\ ModelUsage!Event(r, status).status = status
           /\ ModelUsage!Event(r, status) \notin Unflushed(buffer)
<1> DEFINE e == ModelUsage!Event(r, status)
<1>1. e.run = r /\ e.seq = asked[r] /\ e.selection = inflight[r] /\ e.status = status
  BY DEF ModelUsage!Event
<1>2. e \in Events
  BY EventFacts DEF ModelUsage!Event, Events
<1> HIDE DEF e
<1>3. ASSUME NEW q \in Runs, e \in buffer[q] PROVE FALSE
  <2>1. e.run = q
    BY <1>3, EventFacts
  <2> QED
    BY <1>1, <1>3, <2>1, EventFacts
<1> QED
  BY <1>1, <1>2, <1>3 DEF e, Unflushed

LEMMA RespondKeepsUsage ==
    ASSUME UsageInv, NEW r \in Runs, ModelUsage!Respond(r)
    PROVE  UsageInv'
<1>1. PICK status \in ModelUsage!Statuses :
         /\ buffer' = [buffer EXCEPT ![r] = buffer[r] \cup {ModelUsage!Event(r, status)}]
         /\ IF ModelUsage!Retried(r, status)
            THEN /\ inflight' = [inflight EXCEPT ![r] = "fallback"]
                 /\ asked' = [asked EXCEPT ![r] = asked[r] + 1]
            ELSE /\ inflight' = [inflight EXCEPT ![r] = "none"]
                 /\ UNCHANGED asked
  BY DEF ModelUsage!Respond, ModelUsage!NextSequence
<1>2. inflight[r] # "none" /\ UNCHANGED <<flushed, rows, lost, alive>>
  BY DEF ModelUsage!Respond
<1> DEFINE again == IF ModelUsage!Retried(r, status) THEN 1 ELSE 0
<1>0. PICK e : e = ModelUsage!Event(r, status)
  OBVIOUS
<1>3. /\ e \in Events /\ e.run = r /\ e.seq = asked[r] /\ e.selection = inflight[r] /\ e.status = status
      /\ e \notin Unflushed(buffer)
  BY <1>0, <1>2, NewEvent
<1>4. again = 1 => inflight[r] = "primary" /\ status = "timeout_before_output"
  BY DEF ModelUsage!Retried
<1>5. again \in {0, 1}
  OBVIOUS
<1>6. /\ buffer' = [buffer EXCEPT ![r] = buffer[r] \cup {e}]
      /\ inflight' = [inflight EXCEPT ![r] = IF again = 1 THEN "fallback" ELSE "none"]
      /\ asked' = [asked EXCEPT ![r] = asked[r] + again]
  BY <1>0, <1>1, UsageTypes
<1> HIDE DEF again
<1>7. asked[r] \in Nat /\ MaxRequests \in Nat /\ asked[r] + again \in 0..MaxRequests + 1
  <2>1. asked[r] \in 0..MaxRequests + 1 /\ MaxRequests \in Nat
    BY UsageTypes
  <2>2. inflight[r] = "primary" => asked[r] <= MaxRequests
    BY DEF UsageInv, UsageTyped
  <2> QED
    BY <1>4, <1>5, <2>1, <2>2
<1>8. /\ asked'[r] = asked[r] + again /\ inflight'[r] = IF again = 1 THEN "fallback" ELSE "none"
      /\ buffer'[r] = buffer[r] \cup {e}
      /\ \A q \in Runs : q # r => asked'[q] = asked[q] /\ inflight'[q] = inflight[q] /\ buffer'[q] = buffer[q]
  BY <1>6 DEF UsageInv, UsageTyped
<1>9. asked' \in [Runs -> 0..MaxRequests + 1] /\ asked' \in [Runs -> Nat]
  BY <1>6, <1>7, UsageTypes DEF UsageInv, UsageTyped
<1>10. Unflushed(buffer') = Unflushed(buffer) \cup {e}
  BY <1>8 DEF Unflushed
<1>11. IsFiniteSet(Unflushed(buffer')) /\ Cardinality(Unflushed(buffer')) = Cardinality(Unflushed(buffer)) + 1
  BY <1>3, <1>10, UsageTypes, FS_AddElement
<1>12. UsageTyped'
  <2>1. inflight' \in [Runs -> {"none", "primary", "fallback"}]
    BY <1>6 DEF UsageInv, UsageTyped
  <2>2. \A q \in Runs : inflight'[q] = "primary" => asked'[q] <= MaxRequests
    BY <1>8 DEF UsageInv, UsageTyped
  <2>3. buffer' \in [Runs -> SUBSET Events]
    BY <1>3, <1>6 DEF UsageInv, UsageTyped
  <2>4. rows' \subseteq Events /\ IsFiniteSet(rows') /\ flushed' \in Nat /\ lost' \in Nat /\ alive' \subseteq Runs
    BY <1>2 DEF UsageInv, UsageTyped
  <2> QED
    BY <1>9, <1>11, <2>1, <2>2, <2>3, <2>4 DEF UsageTyped
<1>13. ASSUME NEW x \in Events, Past(x)
       PROVE  Past(x)'
  <2>1. x.run \in Runs /\ x.seq \in Nat
    BY DEF Events
  <2>2. CASE x.run = r
    BY <1>2, <1>5, <1>7, <1>8, <1>13, <2>1, <2>2 DEF Past
  <2>3. CASE x.run # r
    BY <1>8, <1>13, <2>1, <2>3 DEF Past
  <2> QED
    BY <2>2, <2>3
<1>14. Past(e)'
  BY <1>3, <1>5, <1>7, <1>8 DEF Past
<1>15. EventsApart'
  <2>1. \A q \in Runs : \A f \in buffer'[q] : f.run = q /\ Past(f)'
    BY <1>3, <1>8, <1>13, <1>14 DEF UsageInv, UsageTyped, EventsApart
  <2>2. \A x \in rows : Past(x)'
    BY <1>13 DEF UsageInv, UsageTyped, EventsApart
  <2>3. \A f \in buffer[r] : f.seq # e.seq
    BY <1>2, <1>3, EventFacts
  <2>4. \A q \in Runs : \A f, g \in buffer'[q] : f.seq = g.seq => f = g
    BY <1>8, <2>3 DEF UsageInv, EventsApart
  <2>5. \A x \in rows : x.run = r => x.seq # e.seq
    BY <1>2, <1>3, EventFacts
  <2>6. \A x \in rows : x.run \in Runs
    BY DEF UsageInv, UsageTyped, Events
  <2>7. \A x \in rows : \A f \in buffer'[x.run] : x.seq # f.seq
    BY <1>8, <2>5, <2>6 DEF UsageInv, EventsApart
  <2> QED
    BY <1>2, <2>1, <2>2, <2>4, <2>7 DEF EventsApart
<1>16. FallbacksAnswerSilence'
  <2>1. \A q \in Runs : \A n : Silence(buffer[q], q, n) => Silence(buffer'[q], q, n)
    BY <1>8 DEF Silence
  <2>2. again = 1 => Silence(buffer'[r], r, asked'[r])
    BY <1>3, <1>4, <1>8 DEF Silence
  <2>3. e.selection = "fallback" => Silence(buffer'[r], r, e.seq)
    BY <1>3, <2>1 DEF UsageInv, FallbacksAnswerSilence
  <2>4. \A q \in Runs : inflight'[q] = "fallback" => Silence(buffer'[q], q, asked'[q])
    BY <1>8, <2>1, <2>2 DEF UsageInv, FallbacksAnswerSilence
  <2>5. \A q \in Runs : \A f \in buffer'[q] : f.selection = "fallback" => Silence(buffer'[q], q, f.seq)
    BY <1>8, <2>1, <2>3 DEF UsageInv, FallbacksAnswerSilence
  <2>6. \A x \in rows : x.selection = "fallback" => Silence(rows, x.run, x.seq)
    BY DEF UsageInv, FallbacksAnswerSilence
  <2> QED
    BY <1>2, <2>4, <2>5, <2>6 DEF FallbacksAnswerSilence
<1>17. ModelUsage!RequestsAccounted'
  <2>1. Sum(asked', Runs) = Sum(asked, Runs) + again
    BY <1>5, <1>8, <1>9, UsageTypes, SumGrows
  <2>2. r \in Out(inflight)
    BY <1>2 DEF Out
  <2>3. Out(inflight') = IF again = 1 THEN Out(inflight) ELSE Out(inflight) \ {r}
    BY <1>8, <2>2 DEF Out
  <2>4. Cardinality(Out(inflight) \ {r}) = Cardinality(Out(inflight)) - 1
    BY <2>2, UsageTypes, FS_RemoveElement
  <2>5. Cardinality(Out(inflight)) \in Nat /\ Cardinality(rows) \in Nat /\ lost \in Nat
        /\ Cardinality(Unflushed(buffer)) \in Nat
    BY UsageTypes, FS_CardinalityType
  <2>6. Cardinality(Out(inflight')) = Cardinality(Out(inflight)) + again - 1
    BY <1>5, <2>3, <2>4, <2>5
  <2>7. Balance(asked, inflight, buffer, rows, lost)
    BY UsageTypes, BalanceSays DEF UsageInv
  <2>8. Balance(asked', inflight', buffer', rows', lost')
    BY <1>2, <1>5, <1>11, <2>1, <2>5, <2>6, <2>7 DEF Balance
  <2> QED
    BY <1>9, <2>8, BalanceWillSay
<1> QED
  BY <1>12, <1>15, <1>16, <1>17 DEF UsageInv

\* Nothing in the ledger is in the way of what is flushed.
LEMMA InsertAll ==
    ASSUME UsageInv, NEW r \in Runs
    PROVE  ModelUsage!Insert(buffer[r]) = rows \cup buffer[r] /\ rows \cap buffer[r] = {}
<1>1. \A x \in rows, e \in buffer[r] : ~(x.run = e.run /\ x.seq = e.seq)
  BY DEF UsageInv, EventsApart
<1>2. \A e, f \in buffer[r] : e.seq = f.seq => e = f
  BY DEF UsageInv, EventsApart
<1>3. rows \cap buffer[r] = {}
  BY <1>1
<1>4. ASSUME NEW e \in buffer[r]
      PROVE  e \in ModelUsage!Insert(buffer[r])
  BY <1>1, <1>2 DEF ModelUsage!Insert
<1>5. ModelUsage!Insert(buffer[r]) \subseteq rows \cup buffer[r] /\ rows \subseteq ModelUsage!Insert(buffer[r])
  BY DEF ModelUsage!Insert
<1> QED
  BY <1>3, <1>4, <1>5

LEMMA FlushKeepsUsage ==
    ASSUME UsageInv, NEW r \in Runs, ModelUsage!Flush(r)
    PROVE  UsageInv'
<1>1. /\ inflight[r] = "none"
      /\ flushed' = flushed + Cardinality(buffer[r])
      /\ buffer' = [buffer EXCEPT ![r] = {}]
      /\ UNCHANGED <<asked, inflight, lost, alive>>
  BY DEF ModelUsage!Flush, ModelUsage!Cardinality, Cardinality
<1>2. rows' = rows \cup buffer[r] /\ rows \cap buffer[r] = {}
  BY InsertAll DEF ModelUsage!Flush
<1>3. buffer'[r] = {} /\ \A q \in Runs : q # r => buffer'[q] = buffer[q]
  BY <1>1 DEF UsageInv, UsageTyped
<1>4. Unflushed(buffer) = Unflushed(buffer') \cup buffer[r]
  BY <1>3 DEF Unflushed
<1>5. Unflushed(buffer') \cap buffer[r] = {}
  <2> SUFFICES ASSUME NEW q \in Runs, NEW e \in buffer'[q], e \in buffer[r] PROVE FALSE
    BY DEF Unflushed
  <2>1. q # r /\ e \in buffer[q]
    BY <1>3
  <2> QED
    BY <2>1, EventFacts
<1>6. IsFiniteSet(Unflushed(buffer')) /\ IsFiniteSet(buffer[r])
  <2>1. Unflushed(buffer') \in SUBSET Unflushed(buffer)
    BY <1>4
  <2> QED
    BY <2>1, UsageTypes, FS_Subset
<1>7. Cardinality(Unflushed(buffer)) = Cardinality(Unflushed(buffer')) + Cardinality(buffer[r])
  <2>1. Cardinality(Unflushed(buffer')) \in Nat /\ Cardinality(buffer[r]) \in Nat
    BY <1>6, FS_CardinalityType
  <2>2. Cardinality(Unflushed(buffer') \cap buffer[r]) = 0
    BY <1>5, FS_EmptySet
  <2>3. Cardinality(Unflushed(buffer))
          = Cardinality(Unflushed(buffer')) + Cardinality(buffer[r]) - Cardinality(Unflushed(buffer') \cap buffer[r])
    BY <1>4, <1>6, FS_Union
  <2> QED
    BY <2>1, <2>2, <2>3
<1>8. IsFiniteSet(rows') /\ Cardinality(rows') = Cardinality(rows) + Cardinality(buffer[r])
  <2>1. Cardinality(rows) \in Nat /\ Cardinality(buffer[r]) \in Nat
    BY <1>6, UsageTypes, FS_CardinalityType
  <2>2. Cardinality(rows \cap buffer[r]) = 0
    BY <1>2, FS_EmptySet
  <2>3. IsFiniteSet(rows \cup buffer[r])
        /\ Cardinality(rows \cup buffer[r])
             = Cardinality(rows) + Cardinality(buffer[r]) - Cardinality(rows \cap buffer[r])
    BY <1>6, UsageTypes, FS_Union
  <2> QED
    BY <1>2, <2>1, <2>2, <2>3
<1>9. UsageTyped'
  <2>1. flushed' \in Nat
    BY <1>1, <1>6, FS_CardinalityType DEF UsageInv, UsageTyped
  <2>2. buffer' \in [Runs -> SUBSET Events]
    BY <1>1 DEF UsageInv, UsageTyped
  <2>3. rows' \subseteq Events
    BY <1>2, EventFacts DEF UsageInv, UsageTyped
  <2> QED
    BY <1>1, <1>6, <1>8, <2>1, <2>2, <2>3 DEF UsageInv, UsageTyped
<1>10. \A x \in Events : Past(x)' <=> Past(x)
  BY <1>1 DEF Past
<1>11. \A x \in rows : x \in Events /\ x.run \in Runs
  BY DEF UsageInv, UsageTyped, Events
<1>12. EventsApart'
  <2>1. \A q \in Runs : \A f \in buffer'[q] : f.run = q /\ Past(f)'
    BY <1>3, <1>10, EventFacts DEF UsageInv, EventsApart
  <2>2. \A x \in rows' : Past(x)'
    BY <1>2, <1>10, <1>11, EventFacts DEF UsageInv, EventsApart
  <2>3. \A q \in Runs : \A f, g \in buffer'[q] : f.seq = g.seq => f = g
    BY <1>3 DEF UsageInv, EventsApart
  <2>4. ASSUME NEW x \in rows', NEW f \in buffer'[x.run] PROVE x.seq # f.seq
    <3>1. CASE x \in rows
      BY <1>3, <1>11, <3>1 DEF UsageInv, EventsApart
    <3>2. CASE x \in buffer[r]
      <4>1. x.run = r
        BY <3>2, EventFacts
      <4> QED
        BY <1>3, <4>1
    <3> QED
      BY <1>2, <3>1, <3>2
  <2> QED
    BY <2>1, <2>2, <2>3, <2>4 DEF EventsApart
<1>13. FallbacksAnswerSilence'
  <2>1. \A q \in Runs : inflight'[q] = "fallback" => Silence(buffer'[q], q, asked'[q])
    BY <1>1, <1>3 DEF UsageInv, FallbacksAnswerSilence
  <2>2. \A q \in Runs : \A f \in buffer'[q] : f.selection = "fallback" => Silence(buffer'[q], q, f.seq)
    BY <1>3 DEF UsageInv, FallbacksAnswerSilence
  <2>3. ASSUME NEW x \in rows', x.selection = "fallback" PROVE Silence(rows', x.run, x.seq)
    <3>1. CASE x \in rows
      <4>1. Silence(rows, x.run, x.seq)
        BY <2>3, <3>1 DEF UsageInv, FallbacksAnswerSilence
      <4> QED
        BY <1>2, <4>1 DEF Silence
    <3>2. CASE x \in buffer[r]
      <4>1. x.run = r /\ Silence(buffer[r], r, x.seq)
        BY <2>3, <3>2, EventFacts DEF UsageInv, FallbacksAnswerSilence
      <4> QED
        BY <1>2, <4>1 DEF Silence
    <3> QED
      BY <1>2, <3>1, <3>2
  <2> QED
    BY <2>1, <2>2, <2>3 DEF FallbacksAnswerSilence
<1>14. ModelUsage!RequestsAccounted'
  <2>1. Balance(asked, inflight, buffer, rows, lost)
    BY UsageTypes, BalanceSays DEF UsageInv
  <2>2. Cardinality(Out(inflight)) \in Nat /\ Cardinality(rows) \in Nat /\ lost \in Nat
        /\ Cardinality(Unflushed(buffer')) \in Nat /\ Cardinality(buffer[r]) \in Nat
    BY <1>6, UsageTypes, FS_CardinalityType
  <2>3. Balance(asked', inflight', buffer', rows', lost')
    BY <1>1, <1>7, <1>8, <2>1, <2>2 DEF Balance
  <2>4. asked' \in [Runs -> Nat]
    BY <1>1, UsageTypes
  <2> QED
    BY <2>3, <2>4, BalanceWillSay
<1> QED
  BY <1>9, <1>12, <1>13, <1>14 DEF UsageInv

LEMMA StopKeepsUsage ==
    ASSUME UsageInv, ModelUsage!Stop
    PROVE  UsageInv'
<1>1. /\ lost' = lost + Cardinality(Unflushed(buffer)) + Cardinality(Out(inflight))
      /\ alive' \subseteq alive
      /\ inflight' = [r \in Runs |-> "none"]
      /\ buffer' = [r \in Runs |-> {}]
      /\ UNCHANGED <<asked, flushed, rows>>
  BY DEF ModelUsage!Stop, Unflushed, Out, ModelUsage!Cardinality, Cardinality
<1>2. Unflushed(buffer') = {} /\ Out(inflight') = {}
  BY <1>1 DEF Unflushed, Out
<1>3. /\ Cardinality(Out(inflight)) \in Nat /\ Cardinality(rows) \in Nat /\ lost \in Nat
      /\ Cardinality(Unflushed(buffer)) \in Nat
  BY UsageTypes, FS_CardinalityType
<1>4. UsageTyped'
  <2>1. IsFiniteSet(Unflushed(buffer')) /\ lost' \in Nat
    <3>1. lost' \in Nat
      BY <1>1, <1>3
    <3> QED
      BY <1>2, <3>1, FS_EmptySet
  <2>2. /\ buffer' \in [Runs -> SUBSET Events]
        /\ inflight' \in [Runs -> {"none", "primary", "fallback"}]
        /\ \A r \in Runs : inflight'[r] # "primary"
    BY <1>1
  <2> QED
    BY <1>1, <2>1, <2>2 DEF UsageInv, UsageTyped
<1>5. EventsApart'
  <2>1. \A x \in rows : x.run \in Runs
    BY DEF UsageInv, UsageTyped, Events
  <2> QED
    BY <1>1, <2>1 DEF UsageInv, EventsApart, Past
<1>6. FallbacksAnswerSilence'
  BY <1>1 DEF UsageInv, FallbacksAnswerSilence
<1>7. ModelUsage!RequestsAccounted'
  <2>1. Balance(asked, inflight, buffer, rows, lost)
    BY UsageTypes, BalanceSays DEF UsageInv
  <2>2. Cardinality(Out(inflight')) = 0 /\ Cardinality(Unflushed(buffer')) = 0
    BY <1>2, FS_EmptySet
  <2>3. Balance(asked', inflight', buffer', rows', lost')
    BY <1>1, <1>3, <2>1, <2>2 DEF Balance
  <2>4. asked' \in [Runs -> Nat]
    BY <1>1, UsageTypes
  <2> QED
    BY <2>3, <2>4, BalanceWillSay
<1> QED
  BY <1>4, <1>5, <1>6, <1>7 DEF UsageInv

\* No weight, no sum.
LEMMA SumOfNone ==
    ASSUME NEW S, IsFiniteSet(S), NEW w, w = [x \in S |-> 0]
    PROVE  Sum(w, S) = 0
<1> DEFINE g == SumFn(w, S)
           T == {s \in SUBSET S : g[s] = 0}
<1>0. w \in [S -> Nat]
  OBVIOUS
<1>1. /\ g[{}] = 0
      /\ \A s \in SUBSET S : s # {} =>
            /\ First(s) \in s /\ s \ {First(s)} \in SUBSET S
            /\ g[s] = w[First(s)] + g[s \ {First(s)}]
  BY <1>0, SumSteps
<1> HIDE DEF g
<1>2. {} \in T
  BY <1>1
<1>3. \A s \in SUBSET S : s # {} /\ s \ {First(s)} \in T => s \in T
  <2> SUFFICES ASSUME NEW s \in SUBSET S, s # {}, s \ {First(s)} \in T PROVE g[s] = 0
    OBVIOUS
  <2>1. First(s) \in S /\ g[s] = w[First(s)] + g[s \ {First(s)}]
    BY <1>1
  <2>2. w[First(s)] = 0
    BY <2>1
  <2>3. g[s \ {First(s)}] = 0
    OBVIOUS
  <2> QED
    BY ONLY <2>1, <2>2, <2>3
<1>4. SUBSET S \subseteq T
  <2> HIDE DEF T
  <2> QED
    BY <1>2, <1>3, SubsetInduction
<1> QED
  BY <1>4 DEF Sum, g

LEMMA InitUsage == ModelUsage!Init => UsageInv
<1> SUFFICES ASSUME ModelUsage!Init PROVE UsageInv
  OBVIOUS
<1> USE DEF ModelUsage!Init
<1>1. MaxRequests \in Nat /\ IsFiniteSet(Runs)
  BY HostAssumption
<1>2. Unflushed(buffer) = {} /\ Out(inflight) = {} /\ rows = {}
  BY DEF Unflushed, Out
<1>3. UsageTyped
  BY <1>1, <1>2, FS_EmptySet DEF UsageTyped
<1>4. EventsApart
  BY DEF EventsApart
<1>5. FallbacksAnswerSilence
  BY DEF FallbacksAnswerSilence
<1>6. ModelUsage!RequestsAccounted
  <2>1. Sum(asked, Runs) = 0
    BY <1>1, SumOfNone
  <2>2. Cardinality(Unflushed(buffer)) = 0 /\ Cardinality(Out(inflight)) = 0 /\ Cardinality(rows) = 0
    BY <1>2, FS_EmptySet
  <2>3. Balance(asked, inflight, buffer, rows, lost)
    BY <2>1, <2>2 DEF Balance
  <2> QED
    BY <2>3, BalanceSays
<1> QED
  BY <1>3, <1>4, <1>5, <1>6 DEF UsageInv

LEMMA NextUsage ==
    ASSUME UsageInv, ModelUsage!Next
    PROVE  UsageInv'
BY RequestKeepsUsage, RespondKeepsUsage, FlushKeepsUsage, StopKeepsUsage DEF ModelUsage!Next

LEMMA UsageHolds ==
    UsageInv => ModelUsage!TypeOK /\ ModelUsage!RequestsAccounted /\ ModelUsage!FallbackFollowsSilence
<1> SUFFICES ASSUME UsageInv
             PROVE  ModelUsage!TypeOK /\ ModelUsage!RequestsAccounted /\ ModelUsage!FallbackFollowsSilence
  OBVIOUS
<1>1. ModelUsage!TypeOK
  BY DEF UsageInv, UsageTyped, Events, ModelUsage!TypeOK
<1>2. ModelUsage!FallbackFollowsSilence
  BY DEF UsageInv, FallbacksAnswerSilence, Silence, ModelUsage!FallbackFollowsSilence
<1> QED
  BY <1>1, <1>2 DEF UsageInv

-----------------------------------------------------------------------------
(* The abuse guard. Counts over a window are compared with the count of the  *)
(* whole table, so sums over different sets have to be.                      *)

\* Greater weights have the greater sum.
LEMMA SumOrder ==
    ASSUME NEW S, IsFiniteSet(S), NEW w \in [S -> Nat], NEW v \in [S -> Nat],
           \A x \in S : w[x] <= v[x]
    PROVE  Sum(w, S) <= Sum(v, S)
<1> DEFINE g == SumFn(w, S)
           h == SumFn(v, S)
           T == {s \in SUBSET S : g[s] <= h[s]}
<1>1. /\ g[{}] = 0
      /\ \A s \in SUBSET S : s # {} =>
            /\ First(s) \in s /\ s \ {First(s)} \in SUBSET S
            /\ w[First(s)] \in Nat /\ g[s \ {First(s)}] \in Nat
            /\ g[s] = w[First(s)] + g[s \ {First(s)}]
  BY SumSteps
<1>2. /\ h[{}] = 0
      /\ \A s \in SUBSET S : s # {} =>
            /\ v[First(s)] \in Nat /\ h[s \ {First(s)}] \in Nat
            /\ h[s] = v[First(s)] + h[s \ {First(s)}]
  BY SumSteps
<1> HIDE DEF g, h
<1>3. {} \in T
  BY <1>1, <1>2
<1>4. \A s \in SUBSET S : s # {} /\ s \ {First(s)} \in T => s \in T
  <2> SUFFICES ASSUME NEW s \in SUBSET S, s # {}, s \ {First(s)} \in T PROVE g[s] <= h[s]
    OBVIOUS
  <2> DEFINE y == First(s)
             r == s \ {First(s)}
  <2>1. y \in S /\ w[y] \in Nat /\ g[r] \in Nat /\ g[s] = w[y] + g[r]
    BY <1>1
  <2>2. v[y] \in Nat /\ h[r] \in Nat /\ h[s] = v[y] + h[r]
    BY <1>2
  <2>3. w[y] <= v[y] /\ g[r] <= h[r]
    BY <2>1
  <2> HIDE DEF y, r
  <2> QED
    BY <2>1, <2>2, <2>3
<1>5. SUBSET S \subseteq T
  <2> HIDE DEF T
  <2> QED
    BY <1>3, <1>4, SubsetInduction
<1> QED
  BY <1>5 DEF Sum, g, h

\* The weights of P, and none for the rest of D.
Only(w, P, D) == [x \in D |-> IF x \in P THEN w[x] ELSE 0]

\* What weighs nothing does not count.
LEMMA SumWhereSome ==
    ASSUME NEW T, IsFiniteSet(T), NEW S \in SUBSET T, NEW w \in [S -> Nat]
    PROVE  Sum(Only(w, S, T), T) = Sum(w, S)
<1> DEFINE G == {P \in SUBSET S : Sum(Only(w, P, T), T) = Sum(Only(w, P, S), S)}
<1>1. IsFiniteSet(S)
  BY FS_Subset
<1>2. {} \in G
  <2>1. Only(w, {}, T) = [x \in T |-> 0] /\ Only(w, {}, S) = [x \in S |-> 0]
    BY DEF Only
  <2>2. Sum(Only(w, {}, T), T) = 0 /\ Sum(Only(w, {}, S), S) = 0
    BY <1>1, <2>1, SumOfNone
  <2> QED
    BY <2>2
<1>3. ASSUME NEW P \in SUBSET S, P # {}, P \ {First(P)} \in G
      PROVE  P \in G
  <2>1. First(P) \in P /\ First(P) \in S /\ First(P) \in T
    BY <1>3, FirstIsIn
  <2>2. PICK y \in S : y = First(P)
    BY <2>1
  <2> DEFINE Q == P \ {y}
  <2>3. Sum(Only(w, Q, T), T) = Sum(Only(w, Q, S), S)
    BY <1>3, <2>2
  <2>4. w[y] \in Nat /\ y \in P /\ y \notin Q
    BY <2>1, <2>2
  <2>5. ASSUME NEW D, S \subseteq D, IsFiniteSet(D)
        PROVE  Sum(Only(w, P, D), D) = Sum(Only(w, Q, D), D) + w[y]
    <3>1. Only(w, P, D) \in [D -> Nat] /\ Only(w, Q, D) \in [D -> Nat]
      BY <2>5 DEF Only
    <3>2. Only(w, P, D)[y] = Only(w, Q, D)[y] + w[y]
      BY <2>4, <2>5 DEF Only
    <3>3. \A x \in D : x # y => Only(w, P, D)[x] = Only(w, Q, D)[x]
      BY DEF Only
    <3>4. y \in D
      BY <2>5
    <3> HIDE DEF Q
    <3> QED
      BY <2>4, <2>5, <3>1, <3>2, <3>3, <3>4, SumGrows
  <2>6. Sum(Only(w, P, T), T) = Sum(Only(w, P, S), S)
    BY <1>1, <2>3, <2>5
  <2> QED
    BY <2>6
<1>4. SUBSET S \subseteq G
  <2> HIDE DEF G
  <2> QED
    BY <1>1, <1>2, <1>3, SubsetInduction
<1>5. Only(w, S, S) = w
  BY DEF Only
<1>6. Sum(Only(w, S, T), T) = Sum(Only(w, S, S), S)
  BY <1>4
<1> QED
  BY <1>5, <1>6

\* A part that weighs no more has no greater sum.
LEMMA SumCovers ==
    ASSUME NEW T, IsFiniteSet(T), NEW S \in SUBSET T,
           NEW w \in [S -> Nat], NEW v \in [T -> Nat], \A x \in S : w[x] <= v[x]
    PROVE  Sum(w, S) <= Sum(v, T)
<1>1. Only(w, S, T) \in [T -> Nat]
  BY DEF Only
<1>2. \A x \in T : Only(w, S, T)[x] <= v[x]
  <2> SUFFICES ASSUME NEW x \in T PROVE Only(w, S, T)[x] <= v[x]
    OBVIOUS
  <2>1. v[x] \in Nat /\ 0 <= v[x]
    OBVIOUS
  <2> QED
    BY <2>1 DEF Only
<1>3. Sum(Only(w, S, T), T) <= Sum(v, T)
  BY <1>1, <1>2, SumOrder
<1> QED
  BY <1>3, SumWhereSome

\* The attempts of an account in each tick of a window.
InWindow(table, a, from, to) == [t \in from..to |-> table[a][t]]

LEMMA CountIsSum ==
    ASSUME NEW table \in [GuardAccounts -> Counts], NEW a \in GuardAccounts,
           NEW from \in Ticks, NEW to \in Ticks
    PROVE  /\ AbuseGuard!Count(table, a, from, to) = Sum(InWindow(table, a, from, to), from..to)
           /\ InWindow(table, a, from, to) \in [from..to -> Nat]
           /\ IsFiniteSet(from..to) /\ from..to \subseteq Ticks
<1> DEFINE w == InWindow(table, a, from, to)
           S == from..to
           Step(iter) == [s \in SUBSET (from..to) |->
                    IF s = {} THEN 0
                    ELSE (table[a][First(s)]) + iter[s \ {First(s)}]]
           F == CHOOSE iter : iter = Step(iter)
<1>1. IsFiniteSet(S) /\ S \subseteq Ticks
  <2>1. from \in Int /\ to \in Int
    BY HostAssumption DEF Ticks
  <2>2. S \subseteq Ticks
    BY HostAssumption DEF Ticks
  <2> QED
    BY <2>1, <2>2, FS_Interval
<1>2. w \in [S -> Nat]
  BY <1>1 DEF InWindow, Counts
<1>3. AbuseGuard!Count(table, a, from, to) = F[S]
  BY Zenon DEF AbuseGuard!Count, AbuseGuard!MapThenSumSet, AbuseGuard!MapThenFoldSet, First
<1>4. IsSum(SumFn(w, S), w, S)
  <2> HIDE DEF w, S
  <2> QED
    BY <1>1, <1>2, SumExists
<1>5. ASSUME NEW s \in SUBSET S, s # {}
      PROVE  w[First(s)] = table[a][First(s)]
  <2>1. First(s) \in S
    BY <1>5, FirstIsIn
  <2> QED
    BY <2>1 DEF InWindow
<1> HIDE DEF w
<1>6. ASSUME NEW iter
      PROVE  IsSum(iter, w, S) <=> iter = Step(iter)
  BY <1>5 DEF IsSum
<1>7. IsSum(F, w, S)
  <2>1. SumFn(w, S) = Step(SumFn(w, S))
    BY <1>4, <1>6
  <2> HIDE DEF Step
  <2>2. F = Step(F)
    BY <2>1
  <2> QED
    BY <1>6, <2>2
<1>8. F = SumFn(w, S)
  <2> HIDE DEF F, S
  <2> QED
    BY <1>1, <1>4, <1>7, SumIsUnique
<1> QED
  BY <1>1, <1>2, <1>3, <1>8 DEF Sum, w

WindowEnd(t) == IF t + TurnWindow > GuardTime THEN GuardTime ELSE t + TurnWindow

LEMMA GuardConstants ==
    /\ TurnWindow \in Nat /\ OriginWindow \in Nat /\ GuardTime \in Nat /\ MaxTurnsPerWindow \in Nat
    /\ MaxAccountsPerOrigin \in Nat /\ Ticks = 0..GuardTime
    /\ \A t \in Ticks : WindowEnd(t) \in Ticks /\ t <= WindowEnd(t)
    /\ AbuseGuard!Times = Ticks
<1>1. TurnWindow \in Nat /\ OriginWindow \in Nat /\ GuardTime \in Nat /\ MaxTurnsPerWindow \in Nat
      /\ MaxAccountsPerOrigin \in Nat
  BY HostAssumption
<1>2. ASSUME NEW t \in 0..GuardTime PROVE WindowEnd(t) \in 0..GuardTime /\ t <= WindowEnd(t)
  BY <1>1 DEF WindowEnd
<1> QED
  BY <1>1, <1>2 DEF Ticks, AbuseGuard!Times

\* The bursts as sums.
Bounded(table) ==
    \A a \in GuardAccounts, t \in Ticks :
        Sum(InWindow(table, a, t, WindowEnd(t)), t..WindowEnd(t)) <= MaxTurnsPerWindow

LEMMA BurstSays ==
    history \in [GuardAccounts -> Counts] => (AbuseGuard!BurstBounded <=> Bounded(history))
<1> SUFFICES ASSUME history \in [GuardAccounts -> Counts]
             PROVE  AbuseGuard!BurstBounded <=> Bounded(history)
  OBVIOUS
<1>1. \A a \in GuardAccounts, t \in Ticks :
         AbuseGuard!Count(history, a, t, WindowEnd(t)) = Sum(InWindow(history, a, t, WindowEnd(t)), t..WindowEnd(t))
  BY GuardConstants, CountIsSum
<1> QED
  BY <1>1, GuardConstants DEF AbuseGuard!BurstBounded, Bounded, WindowEnd

LEMMA BurstWillSay ==
    ASSUME history' \in [GuardAccounts -> Counts], Bounded(history')
    PROVE  AbuseGuard!BurstBounded'
<1>1. (history \in [GuardAccounts -> Counts] => (AbuseGuard!BurstBounded <=> Bounded(history)))'
  BY BurstSays, PTL
<1>2. Bounded(history)'
  OBVIOUS
<1> QED
  BY <1>1, <1>2

\* The new accounts of one origin in the window that starts with a signup.
Cluster(table, s) == {x \in table : x.from = s.from /\ x.at \in s.at..(s.at + OriginWindow)}

LEMMA ClusterSays ==
    AbuseGuard!ClusterBounded <=> \A s \in signups : Cardinality(Cluster(signups, s)) <= MaxAccountsPerOrigin
BY DEF AbuseGuard!ClusterBounded, Cluster, AbuseGuard!Cardinality, Cardinality

LEMMA ClusterWillSay ==
    ASSUME \A s \in signups' : Cardinality(Cluster(signups', s)) <= MaxAccountsPerOrigin
    PROVE  AbuseGuard!ClusterBounded'
<1>1. (AbuseGuard!ClusterBounded <=> \A s \in signups : Cardinality(Cluster(signups, s)) <= MaxAccountsPerOrigin)'
  BY ClusterSays, PTL
<1> QED
  BY <1>1

LEMMA WindowStarts ==
    ASSUME GuardInv, NEW window \in Nat
    PROVE  /\ guardNow \in Nat /\ guardNow \in Ticks /\ AbuseGuard!Started(window) \in Nat
           /\ AbuseGuard!Started(window) <= guardNow
           /\ \A t \in Nat : guardNow <= t + window => AbuseGuard!Started(window) <= t
<1>1. guardNow \in Ticks /\ guardNow \in Nat
  BY GuardConstants DEF GuardInv, GuardTyped
<1> QED
  BY <1>1 DEF AbuseGuard!Started

\* What is swept out is older than the window.
LEMMA SweptTable ==
    ASSUME GuardInv
    PROVE  /\ AbuseGuard!Kept(attempts) \in [GuardAccounts -> Counts]
           /\ \A a \in GuardAccounts, t \in Ticks :
                 /\ AbuseGuard!Kept(attempts)[a][t] \in {0, history[a][t]}
                 /\ t >= AbuseGuard!Started(TurnWindow) => AbuseGuard!Kept(attempts)[a][t] = history[a][t]
<1>1. attempts \in [GuardAccounts -> Counts] /\ history \in [GuardAccounts -> Counts]
  BY DEF GuardInv, GuardTyped
<1>2. \A a \in GuardAccounts, t \in Ticks : attempts[a][t] \in Nat
  BY <1>1 DEF Counts
<1>3. \A a \in GuardAccounts, t \in Ticks :
         AbuseGuard!Kept(attempts)[a][t] = IF t < AbuseGuard!Started(TurnWindow) THEN 0 ELSE attempts[a][t]
  BY GuardConstants DEF AbuseGuard!Kept
<1>4. AbuseGuard!Kept(attempts) \in [GuardAccounts -> Counts]
  BY <1>2, GuardConstants DEF AbuseGuard!Kept, Counts
<1>5. ASSUME NEW t \in Ticks
      PROVE  t < AbuseGuard!Started(TurnWindow) <=> ~(t >= AbuseGuard!Started(TurnWindow))
  <2>1. t \in Nat /\ TurnWindow \in Nat
    BY GuardConstants
  <2>2. AbuseGuard!Started(TurnWindow) \in Nat
    BY <2>1, WindowStarts
  <2> QED
    BY ONLY <2>1, <2>2
<1>6. \A a \in GuardAccounts, t \in Ticks :
        /\ attempts[a][t] \in {0, history[a][t]}
        /\ t >= AbuseGuard!Started(TurnWindow) => attempts[a][t] = history[a][t]
  BY DEF GuardInv, TableIsWindow
<1> QED
  BY <1>3, <1>4, <1>5, <1>6

\* A turn is admitted only when every window it is in has room for it.
LEMMA WindowHasRoom ==
    ASSUME GuardInv, NEW a \in GuardAccounts, NEW t \in Ticks, t <= guardNow, guardNow <= WindowEnd(t),
           AbuseGuard!Count(AbuseGuard!Kept(attempts), a, 0, GuardTime) < MaxTurnsPerWindow
    PROVE  /\ Sum(InWindow(history, a, t, WindowEnd(t)), t..WindowEnd(t)) \in Nat
           /\ Sum(InWindow(history, a, t, WindowEnd(t)), t..WindowEnd(t)) < MaxTurnsPerWindow
<1> DEFINE S == t..WindowEnd(t)
           w == InWindow(history, a, t, WindowEnd(t))
           T == 0..GuardTime
           v == InWindow(AbuseGuard!Kept(attempts), a, 0, GuardTime)
<1>1. WindowEnd(t) \in Ticks /\ 0 \in Ticks /\ GuardTime \in Ticks
  BY GuardConstants
<1>2. w \in [S -> Nat] /\ IsFiniteSet(S) /\ S \subseteq Ticks
  BY <1>1, CountIsSum DEF GuardInv, GuardTyped
<1>3. v \in [T -> Nat] /\ IsFiniteSet(T) /\ Sum(v, T) < MaxTurnsPerWindow
  BY <1>1, SweptTable, CountIsSum
<1>4. ASSUME NEW u \in S PROVE w[u] <= v[u]
  <2>1. u \in Ticks /\ u \in Nat /\ t <= u
    BY <1>2, GuardConstants
  <2>2. w[u] = history[a][u] /\ v[u] = AbuseGuard!Kept(attempts)[a][u] /\ w[u] \in Nat /\ v[u] \in Nat
    BY <1>2, <1>3, <2>1, GuardConstants DEF InWindow
  <2>3. u > guardNow => history[a][u] = 0
    BY <2>1 DEF GuardInv, TableIsWindow
  <2>4. guardNow <= t + TurnWindow /\ t \in Nat
    BY <1>1, GuardConstants, WindowStarts DEF WindowEnd
  <2>5. u >= AbuseGuard!Started(TurnWindow)
    <3>1. TurnWindow \in Nat
      BY GuardConstants
    <3>2. AbuseGuard!Started(TurnWindow) \in Nat /\ AbuseGuard!Started(TurnWindow) <= t
      BY <2>4, <3>1, WindowStarts
    <3> QED
      BY ONLY <2>1, <2>4, <3>2
  <2>6. AbuseGuard!Kept(attempts)[a][u] = history[a][u]
    BY <2>1, <2>5, SweptTable
  <2> QED
    BY <2>2, <2>6
<1>5. S \in SUBSET T
  BY <1>2, GuardConstants
<1> HIDE DEF S, T, w, v
<1>6. Sum(w, S) <= Sum(v, T)
  BY <1>2, <1>3, <1>4, <1>5, SumCovers
<1>7. Sum(w, S) \in Nat /\ Sum(v, T) \in Nat
  BY <1>2, <1>3, SumIsNat
<1>8. Sum(w, S) < MaxTurnsPerWindow
  BY <1>3, <1>6, <1>7, GuardConstants
<1> QED
  BY <1>7, <1>8 DEF S, w

\* Signups, origins and the clock stay as they are.
LEMMA SameClusters ==
    ASSUME GuardInv, UNCHANGED <<origin, signups>>
    PROVE  SignedUpOnce' /\ AbuseGuard!ClusterBounded'
<1>1. \A s \in signups' : Cardinality(Cluster(signups', s)) <= MaxAccountsPerOrigin
  BY ClusterSays DEF GuardInv
<1> QED
  BY <1>1, ClusterWillSay DEF GuardInv, SignedUpOnce

LEMMA AdmitTurnKeeps ==
    ASSUME GuardInv, NEW a \in GuardAccounts, AbuseGuard!AdmitTurn(a)
    PROVE  GuardInv'
<1> DEFINE k == AbuseGuard!Kept(attempts)
           one == IF AbuseGuard!Count(k, a, 0, GuardTime) < MaxTurnsPerWindow THEN 1 ELSE 0
<1>1. UNCHANGED <<guardNow, origin, blocks, guardPaid, signups>>
  BY DEF AbuseGuard!AdmitTurn
<1>2. /\ guardNow \in Ticks /\ guardNow \in Nat
      /\ k \in [GuardAccounts -> Counts] /\ history \in [GuardAccounts -> Counts]
  BY WindowStarts, SweptTable, GuardConstants DEF GuardInv, GuardTyped
<1>3. one \in {0, 1} /\ (one = 1 => AbuseGuard!Count(k, a, 0, GuardTime) < MaxTurnsPerWindow)
  OBVIOUS
<1>4. k[a][guardNow] = history[a][guardNow] /\ history[a][guardNow] \in Nat
  <2>1. guardNow >= AbuseGuard!Started(TurnWindow)
    BY GuardConstants, WindowStarts
  <2>2. k[a][guardNow] = history[a][guardNow]
    BY <1>2, <2>1, SweptTable
  <2> QED
    BY <1>2, <2>2 DEF Counts
<1>5. /\ attempts' \in [GuardAccounts -> Counts] /\ history' \in [GuardAccounts -> Counts]
      /\ \A b \in GuardAccounts, t \in Ticks : b # a \/ t # guardNow =>
            attempts'[b][t] = k[b][t] /\ history'[b][t] = history[b][t]
      /\ attempts'[a][guardNow] = history[a][guardNow] + one
      /\ history'[a][guardNow] = history[a][guardNow] + one
  <2> HIDE DEF k
  <2>1. \/ one = 0 /\ attempts' = k /\ history' = history
        \/ /\ one = 1
           /\ attempts' = [k EXCEPT ![a][guardNow] = k[a][guardNow] + 1]
           /\ history' = [history EXCEPT ![a][guardNow] = history[a][guardNow] + 1]
    BY DEF AbuseGuard!AdmitTurn, k
  <2> HIDE DEF one
  <2>2. CASE one = 0 /\ attempts' = k /\ history' = history
    BY <1>2, <1>4, <2>2
  <2>3. CASE /\ one = 1
             /\ attempts' = [k EXCEPT ![a][guardNow] = k[a][guardNow] + 1]
             /\ history' = [history EXCEPT ![a][guardNow] = history[a][guardNow] + 1]
    BY <1>2, <1>4, <2>3 DEF Counts
  <2> QED
    BY <2>1, <2>2, <2>3
<1> HIDE DEF k, one
<1>6. GuardTyped'
  BY <1>1, <1>5 DEF GuardInv, GuardTyped
<1>7. TableIsWindow'
  <2>1. AbuseGuard!Started(TurnWindow)' = AbuseGuard!Started(TurnWindow)
    BY <1>1 DEF AbuseGuard!Started
  <2>2. ASSUME NEW b \in GuardAccounts, NEW t \in Ticks
        PROVE  /\ attempts'[b][t] \in {0, history'[b][t]}
               /\ t >= AbuseGuard!Started(TurnWindow) => attempts'[b][t] = history'[b][t]
               /\ t > guardNow => history'[b][t] = 0
    <3>1. CASE b = a /\ t = guardNow
      BY <1>2, <1>5, <3>1
    <3>2. CASE b # a \/ t # guardNow
      <4>1. attempts'[b][t] = k[b][t] /\ history'[b][t] = history[b][t]
        BY <1>5, <3>2
      <4>2. t > guardNow => history[b][t] = 0
        BY DEF GuardInv, TableIsWindow
      <4> QED
        BY <4>1, <4>2, SweptTable DEF k
    <3> QED
      BY <3>1, <3>2
  <2> QED
    BY <1>1, <2>1, <2>2 DEF TableIsWindow
<1>8. AbuseGuard!BurstBounded'
  <2>1. ASSUME NEW b \in GuardAccounts, NEW t \in Ticks
        PROVE  Sum(InWindow(history', b, t, WindowEnd(t)), t..WindowEnd(t)) <= MaxTurnsPerWindow
    <3> DEFINE S == t..WindowEnd(t)
               w == InWindow(history, b, t, WindowEnd(t))
               v == InWindow(history', b, t, WindowEnd(t))
    <3>1. WindowEnd(t) \in Ticks
      BY GuardConstants
    <3>2. w \in [S -> Nat] /\ v \in [S -> Nat] /\ IsFiniteSet(S) /\ S \subseteq Ticks
      BY <1>2, <1>5, <3>1, CountIsSum
    <3>3. \A u \in S : w[u] = history[b][u] /\ v[u] = history'[b][u]
      BY DEF InWindow
    <3>4. Sum(w, S) <= MaxTurnsPerWindow /\ Sum(w, S) \in Nat
      <4>1. Bounded(history)
        BY <1>2, BurstSays DEF GuardInv
      <4>2. Sum(w, S) <= MaxTurnsPerWindow
        BY <4>1 DEF Bounded
      <4> HIDE DEF w, S
      <4> QED
        BY <3>2, <4>2, SumIsNat
    <3>5. CASE b = a /\ guardNow \in S
      <4>1. t <= guardNow /\ guardNow <= WindowEnd(t)
        BY <1>2, <3>5, GuardConstants
      <4>2. v[guardNow] = w[guardNow] + one
        BY <1>5, <3>3, <3>5
      <4>3. \A u \in S : u # guardNow => v[u] = w[u]
        BY <1>5, <3>2, <3>3
      <4>4. one = 1 => Sum(w, S) < MaxTurnsPerWindow
        BY <1>3, <3>5, <4>1, WindowHasRoom DEF k
      <4> HIDE DEF S, w, v
      <4>5. Sum(v, S) = Sum(w, S) + one
        BY <1>3, <3>2, <3>5, <4>2, <4>3, SumGrows
      <4>6. Sum(v, S) <= MaxTurnsPerWindow
        BY <1>3, <3>4, <4>4, <4>5, GuardConstants
      <4> QED
        BY <4>6 DEF S, v
    <3>6. CASE ~(b = a /\ guardNow \in S)
      <4>1. \A u \in S : v[u] = w[u]
        BY <1>5, <3>2, <3>3, <3>6
      <4>2. v = w
        <5> HIDE DEF S, v, w
        <5> QED
          BY <3>2, <4>1
      <4> QED
        BY <3>4, <4>2
    <3> QED
      BY <3>5, <3>6
  <2>2. Bounded(history')
    BY <2>1 DEF Bounded
  <2> QED
    BY <1>5, <2>2, BurstWillSay
<1> QED
  BY <1>1, <1>6, <1>7, <1>8, SameClusters DEF GuardInv

\* The new accounts of an origin whose window is open are among those the guard counts.
LEMMA RecentAreCounted ==
    ASSUME GuardInv, NEW o \in Origins,
           NEW P \in SUBSET {x \in signups : x.from = o /\ x.at >= AbuseGuard!Started(OriginWindow)}
    PROVE  IsFiniteSet(P) /\ Cardinality(P) <= Cardinality(AbuseGuard!From(o))
           /\ Cardinality(AbuseGuard!From(o)) \in Nat /\ Cardinality(P) \in Nat
<1> DEFINE f == [x \in P |-> x.account]
<1>1. \A x \in signups : x \in [account : GuardAccounts, from : Origins, at : Ticks]
                         /\ origin[x.account] = [at |-> x.at, from |-> x.from]
  BY DEF GuardInv, GuardTyped, SignedUpOnce
<1>2. \A x \in P : x \in signups /\ x.from = o /\ x.at >= AbuseGuard!Started(OriginWindow)
  OBVIOUS
<1>3. ASSUME NEW x \in P PROVE x.account \in AbuseGuard!From(o)
  <2>1. x.account \in GuardAccounts /\ x.from = o /\ x.at >= AbuseGuard!Started(OriginWindow)
    BY <1>1, <1>2
  <2>2. origin[x.account] = [at |-> x.at, from |-> x.from]
    BY <1>1, <1>2
  <2>3. origin[x.account].from = o /\ origin[x.account].at = x.at
    BY ONLY <2>1, <2>2
  <2> QED
    BY <2>1, <2>3 DEF AbuseGuard!From
<1>4. ASSUME NEW x \in P, NEW y \in P, x.account = y.account PROVE x = y
  <2>1. x.at = y.at /\ x.from = y.from
    <3>1. [at |-> x.at, from |-> x.from] = [at |-> y.at, from |-> y.from]
      BY <1>1, <1>2, <1>4
    <3> QED
      BY <3>1
  <2>2. x \in [account : GuardAccounts, from : Origins, at : Ticks]
        /\ y \in [account : GuardAccounts, from : Origins, at : Ticks]
    BY <1>1, <1>2
  <2> QED
    BY <1>4, <2>1, <2>2
<1>5. f \in Injection(P, AbuseGuard!From(o))
  BY <1>3, <1>4 DEF Injection, IsInjective
<1>6. IsFiniteSet(AbuseGuard!From(o))
  <2>1. AbuseGuard!From(o) \in SUBSET GuardAccounts
    BY DEF AbuseGuard!From
  <2> QED
    BY <2>1, HostAssumption, FS_Subset
<1> HIDE DEF f
<1> QED
  BY <1>5, <1>6, FS_Injection, FS_CardinalityType

LEMMA AdmitSignupKeeps ==
    ASSUME GuardInv, NEW a \in GuardAccounts, NEW o \in Origins, AbuseGuard!AdmitSignup(a, o)
    PROVE  GuardInv'
<1>1. UNCHANGED <<guardNow, attempts, blocks, guardPaid, history>>
  BY DEF AbuseGuard!AdmitSignup
<1>2. guardNow \in Ticks /\ guardNow \in Nat
  BY GuardConstants, WindowStarts
<1>3. /\ origin \in [GuardAccounts -> [at : Ticks, from : Origins \cup {"none"}]]
      /\ signups \subseteq [account : GuardAccounts, from : Origins, at : Ticks]
      /\ "none" \notin Origins
  BY HostAssumption DEF GuardInv, GuardTyped
<1>4. /\ origin' \in [GuardAccounts -> [at : Ticks, from : Origins \cup {"none"}]]
      /\ \A b \in GuardAccounts : b # a \/ origin[a] # AbuseGuard!Unseen => origin'[b] = origin[b]
  <2>1. \/ origin' = origin
        \/ origin[a] = AbuseGuard!Unseen /\ origin' = [origin EXCEPT ![a] = [at |-> guardNow, from |-> o]]
    BY DEF AbuseGuard!AdmitSignup, AbuseGuard!Bound
  <2> QED
    BY <1>2, <1>3, <2>1
<1>5. ASSUME NEW x \in signups
      PROVE  x.account \in GuardAccounts /\ origin[x.account] = [at |-> x.at, from |-> x.from]
             /\ origin[x.account] # AbuseGuard!Unseen
  <2>1. x.account \in GuardAccounts /\ x.from \in Origins
    BY <1>3
  <2>2. origin[x.account] = [at |-> x.at, from |-> x.from]
    BY DEF GuardInv, SignedUpOnce
  <2>3. origin[x.account].from = x.from /\ AbuseGuard!Unseen.from = "none"
    BY <2>2 DEF AbuseGuard!Unseen, AbuseGuard!NoOrigin
  <2> QED
    BY <1>3, <2>1, <2>2, <2>3
<1>6. \A x \in signups : origin'[x.account] = [at |-> x.at, from |-> x.from]
  <2> SUFFICES ASSUME NEW x \in signups PROVE origin'[x.account] = [at |-> x.at, from |-> x.from]
    OBVIOUS
  <2>1. x.account # a \/ origin[a] # AbuseGuard!Unseen
    BY <1>5
  <2>2. origin'[x.account] = origin[x.account]
    BY <1>4, <1>5, <2>1
  <2> QED
    BY <1>5, <2>2
<1>7. TableIsWindow' /\ AbuseGuard!BurstBounded'
  <2>1. AbuseGuard!Started(TurnWindow)' = AbuseGuard!Started(TurnWindow)
    BY <1>1 DEF AbuseGuard!Started
  <2> QED
    BY <1>1, <2>1 DEF GuardInv, TableIsWindow, AbuseGuard!BurstBounded
<1>8. CASE signups' = signups
  <2>1. GuardTyped' /\ SignedUpOnce'
    BY <1>1, <1>4, <1>6, <1>8 DEF GuardInv, GuardTyped, SignedUpOnce
  <2>2. \A s \in signups' : Cardinality(Cluster(signups', s)) <= MaxAccountsPerOrigin
    BY <1>8, ClusterSays DEF GuardInv
  <2> QED
    BY <1>7, <2>1, <2>2, ClusterWillSay DEF GuardInv
<1>9. CASE signups' # signups
  <2>1. /\ origin[a] = AbuseGuard!Unseen /\ Cardinality(AbuseGuard!From(o)) < MaxAccountsPerOrigin
        /\ origin' = [origin EXCEPT ![a] = [at |-> guardNow, from |-> o]]
        /\ signups' = signups \cup {[account |-> a, from |-> o, at |-> guardNow]}
    BY <1>9 DEF AbuseGuard!AdmitSignup, AbuseGuard!Bound, AbuseGuard!Cardinality, Cardinality
  <2>2. PICK n \in [account : GuardAccounts, from : Origins, at : Ticks] :
           n.account = a /\ n.from = o /\ n.at = guardNow /\ signups' = signups \cup {n}
    <3>1. [account |-> a, from |-> o, at |-> guardNow] \in [account : GuardAccounts, from : Origins, at : Ticks]
      BY <1>2
    <3> QED
      BY <2>1, <3>1
  <2>3. GuardTyped'
    <3>1. IsFiniteSet(signups')
      BY <2>2, FS_AddElement DEF GuardInv, GuardTyped
    <3>2. signups' \subseteq [account : GuardAccounts, from : Origins, at : Ticks]
      BY <1>3, <2>2
    <3> QED
      BY <1>1, <1>4, <3>1, <3>2 DEF GuardInv, GuardTyped
  <2>4. SignedUpOnce'
    <3>1. origin'[n.account] = [at |-> n.at, from |-> n.from]
      BY <1>3, <2>1, <2>2
    <3> QED
      BY <1>6, <2>2, <3>1 DEF SignedUpOnce
  <2>5. ASSUME NEW s \in signups'
        PROVE  Cardinality(Cluster(signups', s)) <= MaxAccountsPerOrigin
    <3> DEFINE P == Cluster(signups, s)
    <3>1. CASE n \notin Cluster(signups', s)
      <4>1. s \in signups
        <5>1. s # n
          <6>1. n \in signups'
            BY <2>2
          <6>2. n.at \in n.at..(n.at + OriginWindow)
            BY <1>2, <2>2, GuardConstants
          <6>3. n \in Cluster(signups', n)
            BY <6>1, <6>2 DEF Cluster
          <6> QED
            BY <3>1, <6>3
        <5> QED
          BY <2>2, <5>1
      <4>2. Cluster(signups', s) = P
        BY <2>2, <3>1 DEF Cluster
      <4> QED
        BY <4>1, <4>2, ClusterSays DEF GuardInv
    <3>2. CASE n \in Cluster(signups', s)
      <4>1. s.from = o /\ guardNow \in s.at..(s.at + OriginWindow)
        BY <2>2, <3>2 DEF Cluster
      <4>2. s.at \in Nat
        <5>1. s.at \in Ticks
          BY <2>3 DEF GuardTyped
        <5> QED
          BY <5>1, GuardConstants
      <4>3. AbuseGuard!Started(OriginWindow) <= s.at /\ AbuseGuard!Started(OriginWindow) \in Nat
        <5>1. OriginWindow \in Nat
          BY GuardConstants
        <5>2. guardNow <= s.at + OriginWindow
          BY <1>2, <4>1, <4>2, <5>1
        <5> QED
          BY <4>2, <5>1, <5>2, WindowStarts
      <4>4. ASSUME NEW x \in P
            PROVE  x \in signups /\ x.from = o /\ x.at >= AbuseGuard!Started(OriginWindow)
        <5>1. x \in signups /\ x.from = s.from /\ x.at \in s.at..(s.at + OriginWindow)
          BY DEF Cluster
        <5>2. x.at \in Nat /\ s.at <= x.at
          BY <4>2, <5>1, GuardConstants
        <5>3. x.at >= AbuseGuard!Started(OriginWindow)
          BY ONLY <4>2, <4>3, <5>2
        <5> QED
          BY <4>1, <5>1, <5>3
      <4>5. P \in SUBSET {x \in signups : x.from = o /\ x.at >= AbuseGuard!Started(OriginWindow)}
        BY <4>4
      <4> HIDE DEF P
      <4>6. IsFiniteSet(P) /\ Cardinality(P) \in Nat /\ Cardinality(P) < MaxAccountsPerOrigin
        <5>1. Cardinality(P) <= Cardinality(AbuseGuard!From(o)) /\ Cardinality(AbuseGuard!From(o)) \in Nat
              /\ IsFiniteSet(P) /\ Cardinality(P) \in Nat
          BY <4>5, RecentAreCounted
        <5> QED
          BY <2>1, <5>1, GuardConstants
      <4>7. Cluster(signups', s) = P \cup {n}
        BY <2>2, <3>2 DEF Cluster, P
      <4>8. Cardinality(P \cup {n}) = Cardinality(P) \/ Cardinality(P \cup {n}) = Cardinality(P) + 1
        BY <4>6, FS_AddElement
      <4> QED
        BY <4>6, <4>7, <4>8, GuardConstants
    <3> QED
      BY <3>1, <3>2
  <2>6. AbuseGuard!ClusterBounded'
    BY <2>5, ClusterWillSay
  <2> QED
    BY <1>7, <2>3, <2>4, <2>6 DEF GuardInv
<1> QED
  BY <1>8, <1>9

LEMMA AccountMarked ==
    ASSUME GuardInv, NEW a \in GuardAccounts,
           AbuseGuard!Block(a) \/ AbuseGuard!Unblock(a) \/ AbuseGuard!Pay(a)
    PROVE  GuardInv'
<1>1. UNCHANGED <<guardNow, attempts, origin, history, signups>>
      /\ blocks' \subseteq blocks \cup {a} /\ guardPaid' \subseteq guardPaid \cup {a}
  BY DEF AbuseGuard!Block, AbuseGuard!Unblock, AbuseGuard!Pay
<1>2. GuardTyped'
  BY <1>1 DEF GuardInv, GuardTyped
<1>3. AbuseGuard!Started(TurnWindow)' = AbuseGuard!Started(TurnWindow)
  BY <1>1 DEF AbuseGuard!Started
<1>4. TableIsWindow' /\ AbuseGuard!BurstBounded'
  BY <1>1, <1>3 DEF GuardInv, TableIsWindow, AbuseGuard!BurstBounded
<1> QED
  BY <1>1, <1>2, <1>4, SameClusters DEF GuardInv

LEMMA TickKeepsGuard ==
    ASSUME GuardInv, AbuseGuard!Tick
    PROVE  GuardInv'
<1>1. guardNow' = guardNow + 1 /\ guardNow < GuardTime /\ guardNow \in Nat
      /\ UNCHANGED <<attempts, origin, blocks, guardPaid, history, signups>>
  BY GuardConstants, WindowStarts DEF AbuseGuard!Tick
<1>2. GuardTyped'
  BY <1>1, GuardConstants DEF GuardInv, GuardTyped
<1>3. TableIsWindow'
  <2>1. AbuseGuard!Started(TurnWindow)' \in Nat /\ AbuseGuard!Started(TurnWindow) \in Nat
        /\ AbuseGuard!Started(TurnWindow) <= AbuseGuard!Started(TurnWindow)'
    BY <1>1, GuardConstants DEF AbuseGuard!Started
  <2>2. ASSUME NEW a \in GuardAccounts, NEW t \in Ticks
        PROVE  /\ attempts[a][t] \in {0, history[a][t]}
               /\ t >= AbuseGuard!Started(TurnWindow)' => attempts[a][t] = history[a][t]
               /\ t > guardNow' => history[a][t] = 0
    <3>1. t \in Nat
      BY GuardConstants
    <3>2. t >= AbuseGuard!Started(TurnWindow)' => t >= AbuseGuard!Started(TurnWindow)
      BY <2>1, <3>1
    <3>3. t > guardNow' => t > guardNow
      BY <1>1, <3>1
    <3> QED
      BY <3>2, <3>3 DEF GuardInv, TableIsWindow
  <2> QED
    BY <1>1, <2>2 DEF TableIsWindow
<1>4. AbuseGuard!BurstBounded'
  BY <1>1 DEF GuardInv, AbuseGuard!BurstBounded
<1> QED
  BY <1>1, <1>2, <1>3, <1>4, SameClusters DEF GuardInv

LEMMA InitGuard == AbuseGuard!Init => GuardInv
<1> SUFFICES ASSUME AbuseGuard!Init PROVE GuardInv
  OBVIOUS
<1>1. /\ guardNow = 0 /\ attempts = [a \in GuardAccounts |-> [t \in Ticks |-> 0]]
      /\ origin = [a \in GuardAccounts |-> [at |-> 0, from |-> "none"]]
      /\ blocks = {} /\ guardPaid = {} /\ history = attempts /\ signups = {}
  BY GuardConstants DEF AbuseGuard!Init, AbuseGuard!Unseen, AbuseGuard!NoOrigin
<1>2. GuardTyped
  <2>1. 0 \in Ticks
    BY GuardConstants
  <2> QED
    BY <1>1, <2>1, FS_EmptySet DEF GuardTyped, Counts
<1>3. TableIsWindow
  BY <1>1 DEF TableIsWindow
<1>4. SignedUpOnce
  BY <1>1 DEF SignedUpOnce
<1>5. AbuseGuard!BurstBounded
  <2>1. ASSUME NEW a \in GuardAccounts, NEW t \in Ticks
        PROVE  Sum(InWindow(history, a, t, WindowEnd(t)), t..WindowEnd(t)) <= MaxTurnsPerWindow
    <3> DEFINE S == t..WindowEnd(t)
    <3>1. IsFiniteSet(S) /\ S \subseteq Ticks
      BY <1>2, GuardConstants, CountIsSum DEF GuardTyped
    <3>2. InWindow(history, a, t, WindowEnd(t)) = [u \in S |-> 0]
      BY <1>1, <3>1 DEF InWindow
    <3> HIDE DEF S
    <3>3. Sum(InWindow(history, a, t, WindowEnd(t)), S) = 0
      BY <3>1, <3>2, SumOfNone
    <3> QED
      BY <3>3, GuardConstants DEF S
  <2> QED
    BY <1>2, <2>1, BurstSays DEF Bounded, GuardTyped
<1>6. AbuseGuard!ClusterBounded
  BY <1>1 DEF AbuseGuard!ClusterBounded
<1> QED
  BY <1>2, <1>3, <1>4, <1>5, <1>6 DEF GuardInv

LEMMA NextGuard ==
    ASSUME GuardInv, AbuseGuard!Next
    PROVE  GuardInv'
BY AdmitTurnKeeps, AdmitSignupKeeps, AccountMarked, TickKeepsGuard DEF AbuseGuard!Next

LEMMA GuardHolds ==
    GuardInv => AbuseGuard!TypeOK /\ AbuseGuard!BurstBounded /\ AbuseGuard!ClusterBounded
<1> SUFFICES ASSUME GuardInv PROVE AbuseGuard!TypeOK
  BY DEF GuardInv
<1>1. \A a \in GuardAccounts, t \in Ticks : attempts[a][t] \in 0..MaxTurnsPerWindow
  <2> SUFFICES ASSUME NEW a \in GuardAccounts, NEW t \in Ticks PROVE attempts[a][t] \in 0..MaxTurnsPerWindow
    OBVIOUS
  <2> DEFINE S == t..WindowEnd(t)
             w == InWindow(history, a, t, WindowEnd(t))
  <2>1. history \in [GuardAccounts -> Counts]
    BY DEF GuardInv, GuardTyped
  <2>2. w \in [S -> Nat] /\ IsFiniteSet(S) /\ t \in S /\ w[t] = history[a][t]
    <3>1. w \in [S -> Nat] /\ IsFiniteSet(S)
      BY <2>1, GuardConstants, CountIsSum
    <3>2. t \in S
      BY GuardConstants
    <3> QED
      BY <3>1, <3>2 DEF InWindow
  <2>3. Sum(w, S) <= MaxTurnsPerWindow
    BY <2>1, BurstSays DEF GuardInv, Bounded
  <2> HIDE DEF S, w
  <2>4. w[t] <= Sum(w, S) /\ Sum(w, S) \in Nat /\ w[t] \in Nat
    BY <2>2, SumIsNat
  <2>5. history[a][t] \in 0..MaxTurnsPerWindow
    BY <2>2, <2>3, <2>4, GuardConstants
  <2>6. attempts[a][t] \in {0, history[a][t]}
    BY DEF GuardInv, TableIsWindow
  <2> QED
    BY <2>5, <2>6, GuardConstants
<1>2. attempts \in [GuardAccounts -> [Ticks -> 0..MaxTurnsPerWindow]]
  <2>1. attempts \in [GuardAccounts -> [Ticks -> Nat]]
    BY DEF GuardInv, GuardTyped, Counts
  <2> QED
    BY <1>1, <2>1
<1> QED
  BY <1>2, GuardConstants DEF AbuseGuard!TypeOK, AbuseGuard!NoOrigin, GuardInv, GuardTyped, Counts

-----------------------------------------------------------------------------
(* The table.                                                                *)

LEMMA TableFields ==
    ASSUME TableInv
    PROVE  /\ row \in TableRows /\ row.version \in Nat /\ row.live \in BOOLEAN /\ row.hero \in BOOLEAN
           /\ row.log \in Seq(Requests) /\ Len(row.log) \in Nat /\ Len(row.log) <= MaxLog
           /\ row.counts \subseteq Requests
           /\ row.version <= Cardinality(Passed)
           /\ docket \in [Fields -> Requests \cup {"none"}] /\ has \subseteq Requests
           /\ request \in [Requests -> RequestRows]
           /\ IsFiniteSet(Passed) /\ Cardinality(Passed) \in Nat /\ MaxLog \in Nat
           /\ "none" \notin Requests
<1>1. row \in TableRows /\ row.version <= Cardinality(Passed) /\ Len(row.log) <= MaxLog
      /\ docket \in [Fields -> Requests \cup {"none"}] /\ has \subseteq Requests
      /\ request \in [Requests -> RequestRows]
  BY DEF TableInv, TableTyped
<1>2. row.version \in Nat /\ row.live \in BOOLEAN /\ row.hero \in BOOLEAN /\ row.log \in Seq(Requests)
      /\ row.counts \subseteq Requests
  BY <1>1 DEF TableRows
<1>3. Len(row.log) \in Nat
  BY <1>2, LenProperties
<1>4. Passed \in SUBSET Requests /\ IsFiniteSet(Requests) /\ MaxLog \in Nat /\ "none" \notin Requests
  BY HostAssumption DEF Passed
<1>5. IsFiniteSet(Passed) /\ Cardinality(Passed) \in Nat
  BY <1>4, FS_Subset, FS_CardinalityType
<1> QED
  BY <1>1, <1>2, <1>3, <1>4, <1>5

\* The one request that a step moves.
Moves(r, q) == request' = [request EXCEPT ![r] = q]

\* What happens leaves the requests that are past the engine's answer as they were.
PastKept ==
    \A p \in Passed :
        /\ p \in Passed'
        /\ request'[p].kind = request[p].kind /\ request'[p].fields = request[p].fields
        /\ p \in has' => p \in has
        /\ \A f \in Fields : docket'[f] = p => docket[f] = p

\* A view that is not moved covers what it covered.
LEMMA CoveredStays ==
    ASSUME TableInv, PastKept, NEW x \in RequestRows, NEW q \in x.view.counts,
           x.at \in {"sheet", "docket", "notes", "shown"}, ViewCovers(x, request, has, docket)
    PROVE  Covered(x, q, request'[q], has', docket')
<1>1. Covered(x, q, request[q], has, docket)
  BY DEF ViewCovers
<1>2. q \in Passed /\ q \in Requests
  BY <1>1 DEF Covered, Passed, RequestRows, Views
<1>3. /\ q \in Passed' /\ request'[q].kind = request[q].kind /\ request'[q].fields = request[q].fields
      /\ q \in has' => q \in has
      /\ \A f \in Fields : docket'[f] = q => docket[f] = q
      /\ request'[q].at \notin Under
  BY <1>2 DEF PastKept, Passed
<1>4. request[q].fields \subseteq Fields
  BY <1>2, TableFields DEF RequestRows
<1> QED
  BY <1>1, <1>3, <1>4 DEF Covered

LEMMA ViewStays ==
    ASSUME TableInv, PastKept, NEW x \in RequestRows, ViewCovers(x, request, has, docket)
    PROVE  ViewCovers(x, request', has', docket')
BY CoveredStays DEF ViewCovers

\* A step moves a request on, with its kind and fields, and no edit goes back.
GoesOn(r, q) ==
    /\ q \in RequestRows /\ Moves(r, q)
    /\ q.kind # "details" /\ q.at # "idle" => q.fields = Fields
    /\ r \in Passed => q.at \notin Under /\ q.kind = request[r].kind /\ q.fields = request[r].fields

EditsKept ==
    /\ has' \subseteq Requests /\ \A p \in Passed : p \in has' => p \in has
    /\ docket' \in [Fields -> Requests \cup {"none"}]
    /\ \A p \in Passed, f \in Fields : docket'[f] = p => docket[f] = p

LEMMA PastStays ==
    ASSUME TableInv, NEW r \in Requests, NEW q, GoesOn(r, q), EditsKept
    PROVE  /\ PastKept /\ request' \in [Requests -> RequestRows]
           /\ request'[r] = q /\ \A p \in Requests : p # r => request'[p] = request[p]
           /\ Passed \subseteq Passed' /\ IsFiniteSet(Passed') /\ Cardinality(Passed') \in Nat
           /\ Cardinality(Passed) <= Cardinality(Passed')
           /\ r \notin Passed /\ q.at \notin Under => Cardinality(Passed') = Cardinality(Passed) + 1
           /\ q.at \notin Under => r \in Passed'
<1>1. request' \in [Requests -> RequestRows] /\ request'[r] = q
      /\ \A p \in Requests : p # r => request'[p] = request[p]
  BY TableFields DEF GoesOn, Moves
<1>2. Passed \subseteq Passed'
  BY <1>1 DEF Passed, GoesOn
<1>3. PastKept
  BY <1>1, <1>2 DEF PastKept, EditsKept, GoesOn, Passed
<1>4. IsFiniteSet(Passed') /\ Cardinality(Passed') \in Nat
  <2>1. Passed' \in SUBSET Requests /\ IsFiniteSet(Requests)
    BY HostAssumption DEF Passed
  <2> QED
    BY <2>1, FS_Subset, FS_CardinalityType
<1>5. Cardinality(Passed) <= Cardinality(Passed')
  BY <1>2, <1>4, FS_Subset
<1>6. ASSUME r \notin Passed, q.at \notin Under PROVE Cardinality(Passed') = Cardinality(Passed) + 1
  <2>1. Passed' = Passed \cup {r}
    BY <1>1, <1>6 DEF Passed
  <2> QED
    BY <1>6, <2>1, TableFields, FS_AddElement
<1>7. q.at \notin Under => r \in Passed'
  BY <1>1 DEF Passed
<1> QED
  BY <1>1, <1>2, <1>3, <1>4, <1>5, <1>6, <1>7

\* What may become of the row when one request moves.
RowFollows(r, q) ==
    /\ row' \in TableRows /\ Len(row'.log) <= MaxLog
    /\ \/ row'.version <= row.version
       \/ r \notin Passed /\ q.at \notin Under /\ row'.version = row.version + 1
    /\ \A p \in row'.counts :
          \/ p \in row.counts /\ (row.hero => row'.hero)
          \/ p = r /\ q.at \notin Under /\ (q.kind = "create" => row'.hero)

LEMMA MovedKeeps ==
    ASSUME TableInv, NEW r \in Requests, NEW q, GoesOn(r, q), EditsKept, RowFollows(r, q),
           ViewCovers(q, request', has', docket'), ReaderFollowsLog',
           reader' \in [cursor : Requests \cup {"none"}, page : Seq(Requests), seen : SUBSET Requests]
    PROVE  TableInv'
<1>1. /\ PastKept /\ request' \in [Requests -> RequestRows]
      /\ request'[r] = q /\ \A p \in Requests : p # r => request'[p] = request[p]
      /\ Passed \subseteq Passed' /\ Cardinality(Passed') \in Nat
      /\ Cardinality(Passed) <= Cardinality(Passed')
      /\ r \notin Passed /\ q.at \notin Under => Cardinality(Passed') = Cardinality(Passed) + 1
      /\ q.at \notin Under => r \in Passed'
  BY PastStays
<1>2. row'.version <= Cardinality(Passed')
  <2>1. row.version \in Nat /\ row'.version \in Nat /\ Cardinality(Passed) \in Nat
        /\ row.version <= Cardinality(Passed)
    BY TableFields DEF RowFollows, TableRows
  <2>2. CASE row'.version <= row.version
    BY ONLY <1>1, <2>1, <2>2
  <2>3. CASE r \notin Passed /\ q.at \notin Under /\ row'.version = row.version + 1
    <3>1. Cardinality(Passed') = Cardinality(Passed) + 1 /\ row'.version = row.version + 1
      BY <1>1, <2>3
    <3> QED
      BY ONLY <2>1, <3>1
  <2> QED
    BY <2>2, <2>3 DEF RowFollows
<1>3. TableTyped'
  <2>1. \A p \in Requests : request'[p].kind # "details" /\ request'[p].at # "idle"
                               => request'[p].fields = Fields
    BY <1>1 DEF TableInv, TableTyped, GoesOn
  <2> QED
    BY <1>1, <1>2, <2>1 DEF TableTyped, RowFollows, EditsKept
<1>4. ViewsFollowCounts'
  <2>1. \A p \in row.counts : p \in Passed /\ (request[p].kind = "create" => row.hero)
    BY DEF TableInv, ViewsFollowCounts
  <2>2. ASSUME NEW p \in row'.counts
        PROVE  p \in Passed' /\ (request'[p].kind = "create" => row'.hero)
    <3>1. CASE p \in row.counts /\ (row.hero => row'.hero)
      <4>1. p \in Passed /\ p \in Passed' /\ request'[p].kind = request[p].kind
        BY <1>1, <2>1, <3>1 DEF PastKept
      <4> QED
        BY <2>1, <3>1, <4>1
    <3>2. CASE p = r /\ q.at \notin Under /\ (q.kind = "create" => row'.hero)
      BY <1>1, <3>2
    <3> QED
      BY <3>1, <3>2 DEF RowFollows
  <2>3. ASSUME NEW p \in Requests PROVE ViewCovers(request'[p], request', has', docket')
    <3>1. CASE p = r
      BY <1>1, <3>1
    <3>2. CASE p # r
      <4>1. request[p] \in RequestRows /\ ViewCovers(request[p], request, has, docket)
        BY TableFields DEF TableInv, ViewsFollowCounts
      <4>2. ViewCovers(request[p], request', has', docket')
        BY <1>1, <4>1, ViewStays
      <4> QED
        BY <1>1, <3>2, <4>2
    <3> QED
      BY <3>1, <3>2
  <2> QED
    BY <2>2, <2>3 DEF ViewsFollowCounts
<1> QED
  BY <1>3, <1>4 DEF TableInv

LEMMA SameLog ==
    ASSUME TableInv, Passed \subseteq Passed', row'.log = row.log, reader' = reader
    PROVE  ReaderFollowsLog'
BY DEF TableInv, ReaderFollowsLog

LEMMA ReaderFits ==
    ASSUME TableInv
    PROVE  /\ reader \in [cursor : Requests \cup {"none"}, page : Seq(Requests), seen : SUBSET Requests]
           /\ reader.cursor \in Requests \cup {"none"} /\ reader.seen \subseteq Requests
BY DEF TableInv, TableTyped

\* The request alone moves.
LEMMA PlainMove ==
    ASSUME TableInv, NEW r \in Requests, NEW q, GoesOn(r, q), UNCHANGED <<row, docket, has, reader>>,
           ViewCovers(q, request, has, docket)
    PROVE  TableInv'
<1>1. EditsKept
  BY TableFields DEF EditsKept
<1>2. RowFollows(r, q)
  BY TableFields DEF RowFollows
<1>3. PastKept /\ Passed \subseteq Passed'
  BY <1>1, PastStays
<1>4. ReaderFollowsLog'
  BY <1>3, SameLog
<1>5. ViewCovers(q, request', has', docket')
  BY <1>3, ViewStays DEF GoesOn
<1> QED
  BY <1>1, <1>2, <1>4, <1>5, ReaderFits, MovedKeeps

LEMMA RequestFields ==
    ASSUME TableInv, NEW r \in Requests
    PROVE  /\ request[r] \in RequestRows /\ request[r].kind \in ReferenceTable!AllKinds \cup {"none"}
           /\ request[r].at \in Stages /\ request[r].fields \subseteq Fields /\ request[r].view \in Views
           /\ request[r].hero \in BOOLEAN /\ request[r].landed \in BOOLEAN
           /\ request[r].kind # "details" /\ request[r].at # "idle" => request[r].fields = Fields
           /\ ViewCovers(request[r], request, has, docket)
BY TableFields DEF RequestRows, TableInv, TableTyped, ViewsFollowCounts

LEMMA GoFits ==
    ASSUME TableInv, NEW r \in Requests, NEW place \in Stages \ {"idle"}, ReferenceTable!Go(r, place),
           request[r].at # "idle", r \in Passed => place \notin Under
    PROVE  \E q : GoesOn(r, q) /\ q.at = place /\ q.kind = request[r].kind
<1> DEFINE x == [request[r] EXCEPT !.at = place]
<1>1. request[r] \in RequestRows
  BY RequestFields
<1>2. x \in RequestRows /\ x.at = place /\ x.kind = request[r].kind /\ x.fields = request[r].fields
  BY <1>1 DEF RequestRows
<1>3. request' = [request EXCEPT ![r] = x]
  BY TableFields DEF ReferenceTable!Go
<1> HIDE DEF x
<1>4. GoesOn(r, x)
  BY <1>2, <1>3, RequestFields DEF GoesOn, Moves
<1> QED
  BY <1>2, <1>4

LEMMA AnswerGoesOn ==
    ASSUME TableInv, NEW r \in Requests, NEW place \in Stages \ {"idle"}, ReferenceTable!Answer(r, place),
           request[r].at # "idle", r \in Passed => place \notin Under
    PROVE  \E q : GoesOn(r, q) /\ q.at = place /\ q.kind = request[r].kind
<1> DEFINE x == [request[r] EXCEPT !.at = place, !.view = ReferenceTable!NoView]
<1>1. request[r] \in RequestRows
  BY RequestFields
<1>2. ReferenceTable!NoView \in Views
  BY DEF ReferenceTable!NoView, Views
<1>3. x \in RequestRows /\ x.at = place /\ x.kind = request[r].kind /\ x.fields = request[r].fields
  BY <1>1, <1>2 DEF RequestRows
<1>4. request' = [request EXCEPT ![r] = x]
  BY TableFields DEF ReferenceTable!Answer
<1> HIDE DEF x
<1>5. GoesOn(r, x)
  BY <1>3, <1>4, RequestFields DEF GoesOn, Moves
<1> QED
  BY <1>3, <1>5

\* A request that ends shows nothing.
LEMMA AnsweredKeeps ==
    ASSUME TableInv, NEW r \in Requests, NEW place \in {"refused", "failed", "answered"},
           ReferenceTable!Answer(r, place), request[r].at # "idle", UNCHANGED <<row, docket, has, reader>>
    PROVE  TableInv'
<1>1. place \in Stages \ {"idle"} /\ place \notin Under
  BY DEF Stages, Under
<1>2. PICK q : GoesOn(r, q) /\ q.at = place
  BY <1>1, AnswerGoesOn
<1>3. ViewCovers(q, request, has, docket)
  BY <1>2 DEF ViewCovers
<1> QED
  BY <1>2, <1>3, PlainMove

LEMMA SendKeeps ==
    ASSUME TableInv, NEW r \in Requests, NEW kind \in Kinds, ReferenceTable!Send(r, kind)
    PROVE  TableInv'
<1>1. request[r].at = "idle" /\ UNCHANGED <<row, docket, has, reader>>
  BY DEF ReferenceTable!Send
<1>2. PICK v \in 0..row.version, fs \in SUBSET Fields :
         /\ (kind # "details") => fs = Fields
         /\ request' = [request EXCEPT ![r].kind = kind, ![r].at = "sent", ![r].expected = v, ![r].fields = fs]
  BY DEF ReferenceTable!Send
<1> DEFINE x == [request[r] EXCEPT !.kind = kind, !.at = "sent", !.expected = v, !.fields = fs]
<1>3. request[r] \in RequestRows
  BY RequestFields
<1>4. kind \in ReferenceTable!AllKinds /\ v \in Nat
  BY <1>2, TableFields, HostAssumption DEF ReferenceTable!AllKinds
<1>5. x \in RequestRows /\ x.at = "sent" /\ x.kind = kind /\ x.fields = fs
  BY <1>3, <1>4 DEF RequestRows, Stages
<1>6. request' = [request EXCEPT ![r] = x]
  BY <1>2, TableFields
<1> HIDE DEF x
<1>7. r \notin Passed
  BY <1>1 DEF Passed, Under
<1>8. GoesOn(r, x)
  BY <1>2, <1>5, <1>6, <1>7 DEF GoesOn, Moves
<1>9. PICK q : q = x
  OBVIOUS
<1>10. ViewCovers(q, request, has, docket)
  BY <1>5, <1>9 DEF ViewCovers
<1> QED
  BY <1>1, <1>8, <1>9, <1>10, PlainMove

LEMMA RouteKeeps ==
    ASSUME TableInv, NEW r \in Requests, ReferenceTable!Route(r)
    PROVE  TableInv'
<1>1. request[r].at = "sent" /\ UNCHANGED <<row, docket, has, reader>>
  BY DEF ReferenceTable!Route
<1>2. CASE ReferenceTable!Answer(r, "refused")
  BY <1>1, <1>2, AnsweredKeeps
<1>3. CASE request' = [request EXCEPT ![r].at = "calling", ![r].hero = row.hero]
  <2> DEFINE x == [request[r] EXCEPT !.at = "calling", !.hero = row.hero]
  <2>1. request[r] \in RequestRows /\ row.hero \in BOOLEAN
    BY RequestFields, TableFields
  <2>2. x \in RequestRows /\ x.at = "calling" /\ x.kind = request[r].kind /\ x.fields = request[r].fields
    BY <2>1 DEF RequestRows, Stages
  <2>3. request' = [request EXCEPT ![r] = x]
    <3>1. request \in [Requests -> RequestRows]
      BY TableFields
    <3> QED
      BY <1>3, <3>1
  <2> HIDE DEF x
  <2>4. r \notin Passed
    BY <1>1 DEF Passed, Under
  <2>5. GoesOn(r, x)
    BY <1>1, <2>2, <2>3, <2>4, RequestFields DEF GoesOn, Moves
  <2>6. PICK q : q = x
    OBVIOUS
  <2>7. ViewCovers(q, request, has, docket)
    BY <2>2, <2>6 DEF ViewCovers
  <2> QED
    BY <1>1, <2>5, <2>6, <2>7, PlainMove
<1> QED
  BY <1>2, <1>3 DEF ReferenceTable!Route

LEMMA LookKeeps ==
    ASSUME TableInv, NEW r \in Requests, ReferenceTable!Look(r)
    PROVE  TableInv'
<1>1. request[r].at \in {"look", "sent"} /\ UNCHANGED <<row, docket, has, reader>>
  BY DEF ReferenceTable!Look, ReferenceTable!At
<1>2. CASE ReferenceTable!Answer(r, "failed")
  BY <1>1, <1>2, AnsweredKeeps
<1>3. CASE request' = [request EXCEPT ![r].at = "sheet", ![r].view.counts = row.counts, ![r].hero = row.hero]
  <2> DEFINE w == [request[r].view EXCEPT !.counts = row.counts]
             x == [request[r] EXCEPT !.at = "sheet", !.view = w, !.hero = row.hero]
  <2>1. request[r] \in RequestRows /\ request[r].view \in Views /\ row.hero \in BOOLEAN
        /\ row.counts \subseteq Requests
    BY RequestFields, TableFields
  <2>2. w \in Views /\ w.counts = row.counts
    BY <2>1 DEF Views
  <2>3. request' = [request EXCEPT ![r] = x]
    <3>1. request \in [Requests -> RequestRows]
      BY TableFields
    <3> QED
      BY <1>3, <3>1
  <2> HIDE DEF w
  <2>4. x \in RequestRows /\ x.at = "sheet" /\ x.kind = request[r].kind /\ x.fields = request[r].fields
        /\ x.view = w /\ x.hero = row.hero
    BY <2>1, <2>2 DEF RequestRows, Stages
  <2> HIDE DEF x
  <2>5. GoesOn(r, x)
    BY <1>1, <2>3, <2>4, RequestFields DEF GoesOn, Moves, Under
  <2>6. PICK q : q = x
    OBVIOUS
  <2>7. \A p \in row.counts : request[p].at \notin Under /\ (request[p].kind = "create" => row.hero)
    BY DEF TableInv, ViewsFollowCounts, Passed
  <2>8. ViewCovers(q, request, has, docket)
    BY <2>2, <2>4, <2>6, <2>7 DEF ViewCovers, Covered
  <2> QED
    BY <1>1, <2>5, <2>6, <2>8, PlainMove
<1> QED
  BY <1>2, <1>3 DEF ReferenceTable!Look

LEMMA ReadSheetKeeps ==
    ASSUME TableInv, NEW r \in Requests, ReferenceTable!ReadSheet(r)
    PROVE  TableInv'
<1>1. request[r].at = "sheet" /\ UNCHANGED <<row, docket, has, reader>>
  BY DEF ReferenceTable!ReadSheet
<1>2. CASE ReferenceTable!Answer(r, "failed")
  BY <1>1, <1>2, AnsweredKeeps
<1>3. CASE request' = [request EXCEPT ![r].at = "docket",
                                     ![r].view.sheet = IF request[r].hero THEN has ELSE {}]
  <2> DEFINE w == [request[r].view EXCEPT !.sheet = IF request[r].hero THEN has ELSE {}]
             x == [request[r] EXCEPT !.at = "docket", !.view = w]
  <2>1. request[r] \in RequestRows /\ request[r].view \in Views /\ has \subseteq Requests
        /\ request[r].hero \in BOOLEAN
    BY RequestFields, TableFields
  <2>2. w \in Views /\ w.counts = request[r].view.counts /\ (request[r].hero => w.sheet = has)
    BY <2>1 DEF Views
  <2>3. request' = [request EXCEPT ![r] = x]
    <3>1. request \in [Requests -> RequestRows]
      BY TableFields
    <3> QED
      BY <1>3, <3>1
  <2> HIDE DEF w
  <2>4. x \in RequestRows /\ x.at = "docket" /\ x.kind = request[r].kind /\ x.fields = request[r].fields
        /\ x.view = w /\ x.hero = request[r].hero
    BY <2>1, <2>2 DEF RequestRows, Stages
  <2> HIDE DEF x
  <2>5. GoesOn(r, x)
    BY <1>1, <2>3, <2>4, RequestFields DEF GoesOn, Moves, Under
  <2>6. PICK q : q = x
    OBVIOUS
  <2>7. ViewCovers(request[r], request, has, docket)
    BY RequestFields
  <2>8. ViewCovers(q, request, has, docket)
    BY <1>1, <2>2, <2>4, <2>6, <2>7 DEF ViewCovers, Covered
  <2> QED
    BY <1>1, <2>5, <2>6, <2>8, PlainMove
<1> QED
  BY <1>2, <1>3 DEF ReferenceTable!ReadSheet

LEMMA ReadDocketKeeps ==
    ASSUME TableInv, NEW r \in Requests, ReferenceTable!ReadDocket(r)
    PROVE  TableInv'
<1>1. request[r].at = "docket" /\ UNCHANGED <<row, docket, has, reader>>
  BY DEF ReferenceTable!ReadDocket
<1>2. request' = [request EXCEPT ![r].at = "notes", ![r].view.docket = {docket[f] : f \in Fields}]
  BY DEF ReferenceTable!ReadDocket
<1>3. PICK ds : ds = {docket[f] : f \in Fields}
  OBVIOUS
<1>4. ds \subseteq Requests \cup {"none"} /\ \A f \in Fields : docket[f] \in ds
  BY <1>3, TableFields
<1> DEFINE w == [request[r].view EXCEPT !.docket = ds]
           x == [request[r] EXCEPT !.at = "notes", !.view = w]
<1>5. request[r] \in RequestRows /\ request[r].view \in Views
  BY RequestFields
<1>6. w \in Views /\ w.counts = request[r].view.counts /\ w.sheet = request[r].view.sheet /\ w.docket = ds
  BY <1>4, <1>5 DEF Views
<1>7. request' = [request EXCEPT ![r] = x]
  <2>1. request \in [Requests -> RequestRows]
    BY TableFields
  <2> QED
    BY <1>2, <1>3, <2>1
<1> HIDE DEF w
<1>8. x \in RequestRows /\ x.at = "notes" /\ x.kind = request[r].kind /\ x.fields = request[r].fields
      /\ x.view = w /\ x.hero = request[r].hero
  BY <1>5, <1>6 DEF RequestRows, Stages
<1> HIDE DEF x
<1>9. GoesOn(r, x)
  BY <1>1, <1>7, <1>8, RequestFields DEF GoesOn, Moves, Under
<1>10. PICK q : q = x
  OBVIOUS
<1>11. ViewCovers(request[r], request, has, docket)
  BY RequestFields
<1>12. ViewCovers(q, request, has, docket)
  <2> SUFFICES ASSUME NEW p \in request[r].view.counts
               PROVE  Covered(q, p, request[p], has, docket)
    BY <1>6, <1>8, <1>10 DEF ViewCovers
  <2>1. Covered(request[r], p, request[p], has, docket) /\ p \in Requests
    BY <1>1, <1>5, <1>11 DEF ViewCovers, Views
  <2>2. request[p].fields \subseteq Fields
    BY <2>1, RequestFields
  <2>3. p \in ds \/ \A f \in request[p].fields : docket[f] # p
    BY <1>4, <2>2
  <2> QED
    BY <1>1, <1>6, <1>8, <1>10, <2>1, <2>3 DEF Covered
<1> QED
  BY <1>1, <1>9, <1>10, <1>12, PlainMove

LEMMA ReadNotesKeeps ==
    ASSUME TableInv, NEW r \in Requests, ReferenceTable!ReadNotes(r)
    PROVE  TableInv'
<1>1. request[r].at = "notes" /\ UNCHANGED <<row, docket, has, reader>>
  BY DEF ReferenceTable!ReadNotes
<1>2. CASE ReferenceTable!Answer(r, "failed")
  BY <1>1, <1>2, AnsweredKeeps
<1>3. CASE request' = [request EXCEPT ![r].at = "shown", ![r].view.notes = has]
  <2> DEFINE w == [request[r].view EXCEPT !.notes = has]
             x == [request[r] EXCEPT !.at = "shown", !.view = w]
  <2>1. request[r] \in RequestRows /\ request[r].view \in Views /\ has \subseteq Requests
    BY RequestFields, TableFields
  <2>2. /\ w \in Views /\ w.counts = request[r].view.counts /\ w.sheet = request[r].view.sheet
        /\ w.docket = request[r].view.docket /\ w.notes = has
    BY <2>1 DEF Views
  <2>3. request' = [request EXCEPT ![r] = x]
    <3>1. request \in [Requests -> RequestRows]
      BY TableFields
    <3> QED
      BY <1>3, <3>1
  <2> HIDE DEF w
  <2>4. x \in RequestRows /\ x.at = "shown" /\ x.kind = request[r].kind /\ x.fields = request[r].fields
        /\ x.view = w /\ x.hero = request[r].hero
    BY <2>1, <2>2 DEF RequestRows, Stages
  <2> HIDE DEF x
  <2>5. GoesOn(r, x)
    BY <1>1, <2>3, <2>4, RequestFields DEF GoesOn, Moves, Under
  <2>6. PICK q : q = x
    OBVIOUS
  <2>7. ViewCovers(request[r], request, has, docket)
    BY RequestFields
  <2>8. ViewCovers(q, request, has, docket)
    BY <1>1, <2>2, <2>4, <2>6, <2>7 DEF ViewCovers, Covered
  <2> QED
    BY <1>1, <2>5, <2>6, <2>8, PlainMove
<1> QED
  BY <1>2, <1>3 DEF ReferenceTable!ReadNotes

\* The row stays, and the engine loses edits or takes this one.
LEMMA EngineMove ==
    ASSUME TableInv, NEW r \in Requests, NEW q, GoesOn(r, q), UNCHANGED <<row, docket, reader>>,
           has' \subseteq Requests, \A p \in Passed : p \in has' => p \in has,
           ViewCovers(q, request, has, docket)
    PROVE  TableInv'
<1>1. EditsKept
  BY TableFields DEF EditsKept
<1>2. RowFollows(r, q)
  BY TableFields DEF RowFollows
<1>3. PastKept /\ Passed \subseteq Passed'
  BY <1>1, PastStays
<1>4. ReaderFollowsLog'
  BY <1>3, SameLog
<1>5. ViewCovers(q, request', has', docket')
  BY <1>3, ViewStays DEF GoesOn
<1> QED
  BY <1>1, <1>2, <1>4, <1>5, ReaderFits, MovedKeeps

LEMMA EngineAnswersKeeps ==
    ASSUME TableInv, NEW r \in Requests, ReferenceTable!EngineAnswers(r)
    PROVE  TableInv'
<1>1. request[r].at = "calling" /\ UNCHANGED <<row, docket, reader>>
  BY DEF ReferenceTable!EngineAnswers, ReferenceTable!At
<1>2. PICK took \in BOOLEAN, failed \in BOOLEAN :
         /\ has' = IF took THEN has \cup {r} ELSE has
         /\ request' = [request EXCEPT ![r].at = IF failed THEN "failed" ELSE "called", ![r].landed = took]
  BY DEF ReferenceTable!EngineAnswers
<1> DEFINE x == [request[r] EXCEPT !.at = IF failed THEN "failed" ELSE "called", !.landed = took]
<1>3. request[r] \in RequestRows
  BY RequestFields
<1>4. x \in RequestRows /\ x.at \in {"failed", "called"} /\ x.kind = request[r].kind
      /\ x.fields = request[r].fields
  BY <1>3 DEF RequestRows, Stages
<1>5. request' = [request EXCEPT ![r] = x]
  BY <1>2, TableFields
<1> HIDE DEF x
<1>6. r \notin Passed
  BY <1>1 DEF Passed, Under
<1>7. GoesOn(r, x)
  BY <1>1, <1>4, <1>5, <1>6, RequestFields DEF GoesOn, Moves
<1>8. PICK q : q = x
  OBVIOUS
<1>9. ViewCovers(q, request, has, docket)
  BY <1>4, <1>8 DEF ViewCovers
<1>10. has' \subseteq Requests /\ \A p \in Passed : p \in has' => p \in has
  BY <1>2, <1>6, TableFields
<1> QED
  BY <1>1, <1>7, <1>8, <1>9, <1>10, EngineMove

LEMMA ErasedKeeps ==
    ASSUME TableInv, NEW r \in Requests, ReferenceTable!Erased(r)
    PROVE  TableInv'
<1>1. request[r].at = "calling" /\ UNCHANGED <<row, docket, reader>> /\ ReferenceTable!Go(r, "erased")
  BY DEF ReferenceTable!Erased, ReferenceTable!At
<1>2. has' \subseteq Requests /\ \A p \in Passed : p \in has' => p \in has
  BY TableFields DEF ReferenceTable!Erased
<1>3. PICK q : GoesOn(r, q) /\ q.at = "erased"
  BY <1>1, GoFits DEF Stages, Under
<1>4. ViewCovers(q, request, has, docket)
  BY <1>3 DEF ViewCovers
<1> QED
  BY <1>1, <1>2, <1>3, <1>4, EngineMove

\* A request that ends writes the row, to one that counts no more than it did.
LEMMA RowMove ==
    ASSUME TableInv, NEW r \in Requests, request[r].at # "idle", ReferenceTable!Answer(r, "answered"),
           UNCHANGED <<docket, has, reader>>, row' \in TableRows, row'.version <= row.version,
           row'.log = <<>> \/ row'.log = row.log,
           row'.counts = {} \/ (row'.counts = row.counts /\ row'.hero = row.hero)
    PROVE  TableInv'
<1>1. PICK q : GoesOn(r, q) /\ q.at = "answered"
  BY AnswerGoesOn DEF Stages, Under
<1>2. EditsKept
  BY TableFields DEF EditsKept
<1>3. RowFollows(r, q)
  <2>1. Len(row.log) <= MaxLog /\ MaxLog \in Nat
    BY TableFields
  <2>2. Len(<<>>) = 0 /\ 0 <= MaxLog
    BY <2>1
  <2>3. CASE row'.log = row.log
    BY <2>1, <2>3 DEF RowFollows
  <2>4. CASE row'.log = <<>>
    BY <2>2, <2>4 DEF RowFollows
  <2> QED
    BY <2>3, <2>4
<1>4. PastKept /\ Passed \subseteq Passed'
  BY <1>1, <1>2, PastStays
<1>5. ReaderFollowsLog'
  <2>1. CASE row'.log = row.log
    BY <1>4, <2>1, SameLog
  <2>2. CASE row'.log = <<>>
    BY <1>4, <2>2 DEF TableInv, ReaderFollowsLog
  <2> QED
    BY <2>1, <2>2
<1>6. ViewCovers(q, request', has', docket')
  BY <1>1 DEF ViewCovers
<1> QED
  BY <1>1, <1>2, <1>3, <1>5, <1>6, ReaderFits, MovedKeeps

LEMMA DeleteKeeps ==
    ASSUME TableInv, NEW r \in Requests, ReferenceTable!Delete(r)
    PROVE  TableInv'
<1>1. request[r].at # "idle" /\ ReferenceTable!Answer(r, "answered") /\ UNCHANGED <<docket, has, reader>>
      /\ row' = ReferenceTable!NoRow
  BY DEF ReferenceTable!Delete, ReferenceTable!At
<1>2. row' \in TableRows /\ row'.version = 0 /\ row'.log = <<>> /\ row'.counts = {}
  BY <1>1 DEF ReferenceTable!NoRow, TableRows
<1>3. row'.version <= row.version
  BY <1>2, TableFields
<1> QED
  BY <1>1, <1>2, <1>3, RowMove

LEMMA ReopenKeeps ==
    ASSUME TableInv, NEW r \in Requests, ReferenceTable!Reopen(r)
    PROVE  TableInv'
<1>1. request[r].at # "idle" /\ ReferenceTable!Answer(r, "answered") /\ UNCHANGED <<docket, has, reader>>
      /\ row' = [row EXCEPT !.live = TRUE]
  BY DEF ReferenceTable!Reopen, ReferenceTable!At
<1>2. row' \in TableRows /\ row'.version = row.version /\ row'.log = row.log /\ row'.counts = row.counts
      /\ row'.hero = row.hero
  BY <1>1, TableFields DEF TableRows
<1>3. row'.version <= row.version
  BY <1>2, TableFields
<1> QED
  BY <1>1, <1>2, <1>3, RowMove

LEMMA BumpFits ==
    ASSUME TableInv, NEW r \in Requests, NEW old \in TableRows, ReferenceTable!Raise(r, old),
           old.version = row.version, old.counts = row.counts, row.hero => old.hero,
           request[r].kind = "create" => old.hero \/ ~request[r].landed, Len(old.log) <= MaxLog,
           r \notin Passed, NEW q, q.at \notin Under, q.kind = request[r].kind
    PROVE  RowFollows(r, q) /\ row'.log = old.log /\ row'.live = old.live
<1>1. request[r].landed \in BOOLEAN
  BY RequestFields
<1>2. CASE old.live
  <2> DEFINE more == IF request[r].landed THEN {r} ELSE {}
  <2>1. more \subseteq Requests /\ \A p \in more : p = r /\ request[r].landed
    BY <1>1
  <2>2. row' = [old EXCEPT !.version = @ + 1, !.counts = @ \cup more]
    BY <1>2 DEF ReferenceTable!Raise, ReferenceTable!Bumped
  <2> HIDE DEF more
  <2>3. /\ row' \in TableRows /\ row'.version = row.version + 1 /\ row'.counts = row.counts \cup more
        /\ row'.hero = old.hero /\ row'.log = old.log /\ row'.live = old.live
    <3>1. PICK v \in Nat : v = old.version + 1
      BY DEF TableRows
    <3>2. PICK cs \in SUBSET Requests : cs = old.counts \cup more
      BY <2>1 DEF TableRows
    <3>3. row' = [old EXCEPT !.version = v, !.counts = cs]
      BY <2>2, <3>1, <3>2 DEF TableRows
    <3>4. /\ row' \in TableRows /\ row'.version = v /\ row'.counts = cs
          /\ row'.hero = old.hero /\ row'.log = old.log /\ row'.live = old.live
      BY <3>3 DEF TableRows
    <3> QED
      BY <3>1, <3>2, <3>4
  <2>4. \A p \in row'.counts : \/ p \in row.counts /\ (row.hero => row'.hero)
                               \/ p = r /\ q.at \notin Under /\ (q.kind = "create" => row'.hero)
    BY <1>1, <2>1, <2>3
  <2> QED
    BY <2>3, <2>4 DEF RowFollows
<1>3. CASE ~old.live
  <2>1. row' = old
    BY <1>3 DEF ReferenceTable!Raise, ReferenceTable!Bumped
  <2>2. row'.version <= row.version
    BY <2>1, TableFields
  <2> QED
    BY <2>1, <2>2 DEF RowFollows
<1> QED
  BY <1>2, <1>3 DEF TableRows

\* The host goes on with the engine's answer: it raises the version, and then looks or ends.
LEMMA RaisedKeeps ==
    ASSUME TableInv, NEW r \in Requests, NEW old \in TableRows, ReferenceTable!Raise(r, old),
           old.version = row.version, old.counts = row.counts, row.hero => old.hero,
           request[r].kind = "create" => old.hero \/ ~request[r].landed, Len(old.log) <= MaxLog,
           request[r].at = "called", NEW place \in {"look", "answered"},
           ReferenceTable!Go(r, place) \/ ReferenceTable!Answer(r, place),
           UNCHANGED <<has, reader>>, docket' \in [Fields -> Requests \cup {"none"}],
           \A f \in Fields : docket'[f] \in {docket[f], r},
           request' \in [Requests -> RequestRows] /\ Passed \subseteq Passed' /\ r \in Passed'
              /\ old.log = row'.log => ReaderFollowsLog'
    PROVE  TableInv'
<1>1. r \notin Passed /\ request[r].at # "idle"
  BY DEF Passed, Under
<1>2. place \in Stages \ {"idle"} /\ place \notin Under
  BY DEF Stages, Under
<1>3. PICK q : GoesOn(r, q) /\ q.at = place /\ q.kind = request[r].kind
  <2>1. CASE ReferenceTable!Go(r, place)
    BY <1>1, <1>2, <2>1, GoFits
  <2>2. CASE ReferenceTable!Answer(r, place)
    BY <1>1, <1>2, <2>2, AnswerGoesOn
  <2> QED
    BY <2>1, <2>2
<1>4. q.at \notin Under /\ q.at \in {"look", "answered"}
  BY <1>2, <1>3
<1>5. RowFollows(r, q) /\ row'.log = old.log
  BY <1>1, <1>3, <1>4, BumpFits
<1>6. EditsKept
  BY <1>1, TableFields DEF EditsKept
<1>7. request' \in [Requests -> RequestRows] /\ Passed \subseteq Passed' /\ r \in Passed'
  BY <1>3, <1>4, <1>6, PastStays
<1>8. ReaderFollowsLog'
  BY <1>5, <1>7
<1>9. ViewCovers(q, request', has', docket')
  BY <1>4 DEF ViewCovers
<1> QED
  BY <1>3, <1>5, <1>6, <1>8, <1>9, ReaderFits, MovedKeeps

\* Those that write nothing in the log.
LEMMA QuietRaise ==
    ASSUME TableInv, NEW r \in Requests, NEW old \in TableRows, ReferenceTable!Raise(r, old),
           old.version = row.version, old.counts = row.counts, row.hero => old.hero, old.log = row.log,
           request[r].kind = "create" => old.hero \/ ~request[r].landed,
           request[r].at = "called", NEW place \in {"look", "answered"},
           ReferenceTable!Go(r, place) \/ ReferenceTable!Answer(r, place),
           UNCHANGED <<has, reader>>, docket' \in [Fields -> Requests \cup {"none"}],
           \A f \in Fields : docket'[f] \in {docket[f], r}
    PROVE  TableInv'
<1>1. Len(old.log) <= MaxLog
  BY TableFields
<1>2. Passed \subseteq Passed' /\ row'.log = row.log => ReaderFollowsLog'
  BY SameLog
<1> QED
  BY <1>1, <1>2, RaisedKeeps

LEMMA CharacterCreateKeeps ==
    ASSUME TableInv, NEW r \in Requests, ReferenceTable!CharacterCreate(r)
    PROVE  TableInv'
<1>1. request[r].at = "called" /\ UNCHANGED <<docket, has, reader>>
  BY DEF ReferenceTable!CharacterCreate, ReferenceTable!Answered, ReferenceTable!At
<1>2. CASE UNCHANGED row /\ ReferenceTable!Answer(r, "failed")
  BY <1>1, <1>2, AnsweredKeeps
<1>3. CASE ReferenceTable!Raise(r, [row EXCEPT !.hero = @ \/ request[r].landed])
           /\ ReferenceTable!Go(r, "look")
  <2> DEFINE old == [row EXCEPT !.hero = @ \/ request[r].landed]
  <2>1. request[r].landed \in BOOLEAN /\ row \in TableRows
    BY RequestFields, TableFields
  <2>2. /\ old \in TableRows /\ old.version = row.version /\ old.counts = row.counts
        /\ old.log = row.log /\ (row.hero \/ request[r].landed => old.hero)
    BY <2>1 DEF TableRows
  <2>3. ReferenceTable!Raise(r, old)
    BY <1>3
  <2> HIDE DEF old
  <2>4. PICK o : o = old
    OBVIOUS
  <2>5. docket' \in [Fields -> Requests \cup {"none"}] /\ \A f \in Fields : docket'[f] \in {docket[f], r}
    BY <1>1, TableFields
  <2>6. /\ o \in TableRows /\ o.version = row.version /\ o.counts = row.counts
        /\ o.log = row.log /\ (row.hero \/ request[r].landed => o.hero) /\ ReferenceTable!Raise(r, o)
    BY <2>2, <2>3, <2>4
  <2> QED
    BY <1>1, <1>3, <2>5, <2>6, QuietRaise
<1> QED
  BY <1>2, <1>3 DEF ReferenceTable!CharacterCreate

\* The edits that keep the row's hero.
LEMMA EditKeeps ==
    ASSUME TableInv, NEW r \in Requests,
           \/ ReferenceTable!UpdateCharacterSpells(r) \/ ReferenceTable!UpdateCharacterDetails(r)
           \/ ReferenceTable!InventoryAction(r) \/ ReferenceTable!PlayerNoteAdd(r)
    PROVE  TableInv'
<1>1. /\ request[r].at = "called" /\ request[r].kind # "create" /\ UNCHANGED <<has, reader>>
      /\ ReferenceTable!Raise(r, row)
      /\ ReferenceTable!Go(r, "look") \/ ReferenceTable!Answer(r, "answered")
      /\ UNCHANGED docket \/ docket' = ReferenceTable!Merge(r)
  BY DEF ReferenceTable!UpdateCharacterSpells, ReferenceTable!UpdateCharacterDetails,
         ReferenceTable!InventoryAction, ReferenceTable!PlayerNoteAdd, ReferenceTable!Answered,
         ReferenceTable!At
<1>2. docket' \in [Fields -> Requests \cup {"none"}] /\ \A f \in Fields : docket'[f] \in {docket[f], r}
  BY <1>1, TableFields DEF ReferenceTable!Merge
<1>3. PICK o \in TableRows : o = row
  BY TableFields
<1>4. ReferenceTable!Raise(r, o) /\ o.version = row.version /\ o.counts = row.counts
      /\ (row.hero => o.hero) /\ o.log = row.log
  BY <1>1, <1>3
<1> QED
  BY <1>1, <1>2, <1>4, QuietRaise

\* appendLogMessages() keeps the end of the log with the new message.
LEMMA LoggedIs ==
    ASSUME TableInv, NEW r \in Requests, row.live
    PROVE  \E logs \in Seq(Requests), k \in 1..Len(row.log) + 2 :
              /\ ReferenceTable!Logged(r, row) = [row EXCEPT !.log = logs]
              /\ Len(logs) <= MaxLog /\ Len(logs) = Len(row.log) + 2 - k
              /\ \A i \in 1..Len(logs) :
                    logs[i] = IF i + k - 1 = Len(row.log) + 1 THEN r ELSE row.log[i + k - 1]
<1> DEFINE n == Len(row.log)
           new == Append(row.log, r)
           k == IF Len(new) > MaxLog THEN Len(new) - MaxLog + 1 ELSE 1
           logs == SubSeq(new, k, Len(new))
<1>1. row.log \in Seq(Requests) /\ n \in Nat /\ MaxLog \in Nat /\ n <= MaxLog
  BY TableFields
<1>2. /\ new \in Seq(Requests) /\ Len(new) = n + 1 /\ new[n + 1] = r
      /\ \A i \in 1..n : new[i] = row.log[i]
  BY <1>1, AppendProperties
<1>3. ReferenceTable!Logged(r, row) = [row EXCEPT !.log = logs]
  BY Zenon DEF ReferenceTable!Logged
<1> HIDE DEF new, n
<1>4. k \in 1..n + 2 /\ n + 2 - k <= MaxLog
  BY ONLY <1>1, <1>2
<1> HIDE DEF k
<1>5. \A i \in k..Len(new) : new[i] \in Requests
  BY <1>1, <1>2, <1>4, ElementOfSeq
<1>6. /\ logs \in Seq(Requests) /\ Len(logs) = IF k <= Len(new) THEN Len(new) - k + 1 ELSE 0
      /\ \A i \in 1..Len(new) - k + 1 : logs[i] = new[k + i - 1]
  <2>1. k \in Int /\ Len(new) \in Int
    BY <1>1, <1>2, <1>4
  <2> QED
    BY <1>5, <2>1, SubSeqProperties
<1> HIDE DEF logs
<1>7. Len(logs) = n + 2 - k
  BY ONLY <1>1, <1>2, <1>4, <1>6
<1>8. ASSUME NEW i \in 1..Len(logs) PROVE logs[i] = IF i + k - 1 = n + 1 THEN r ELSE row.log[i + k - 1]
  <2>1. i \in 1..Len(new) - k + 1 /\ i \in 1..n + 2 - k /\ i \in Int /\ k \in Int /\ n \in Int
    BY ONLY <1>1, <1>2, <1>4, <1>7, <1>8
  <2>2. k + i - 1 = i + k - 1 /\ (i + k - 1 # n + 1 => i + k - 1 \in 1..n)
    BY ONLY <1>1, <1>4, <2>1
  <2>3. logs[i] = new[k + i - 1]
    BY <1>6, <2>1
  <2> QED
    BY <1>2, <2>2, <2>3
<1>9. n = Len(row.log)
  BY DEF n
<1>10. k \in 1..Len(row.log) + 2 /\ Len(logs) <= MaxLog /\ Len(logs) = Len(row.log) + 2 - k
  BY <1>4, <1>7, <1>9
<1>11. PICK logs1 \in Seq(Requests) : logs1 = logs
  BY <1>6
<1>12. PICK k1 \in 1..Len(row.log) + 2 : k1 = k
  BY <1>10
<1> QED
  BY <1>3, <1>8, <1>9, <1>10, <1>11, <1>12

\* The log a turn commits holds each request once, and not what it had before the reader's
\* cursor, nor the cursor's event but where it was.
LEMMA NewLogFollows ==
    ASSUME TableInv, NEW r \in Requests, r \notin Passed, Passed \subseteq Passed', r \in Passed',
           NEW logs \in Seq(Requests), NEW k \in 1..Len(row.log) + 2, row'.log = logs, reader' = reader,
           Len(logs) = Len(row.log) + 2 - k,
           \A i \in 1..Len(logs) :
              logs[i] = IF i + k - 1 = Len(row.log) + 1 THEN r ELSE row.log[i + k - 1]
    PROVE  ReaderFollowsLog'
<1> DEFINE n == Len(row.log)
           m == Len(logs)
<1>1. n \in Nat /\ m \in Nat /\ k \in Int /\ m = n + 2 - k /\ k >= 1
      /\ DOMAIN row.log = 1..n /\ DOMAIN logs = 1..m
  BY TableFields, LenProperties
<1>2. /\ \A i \in 1..n : row.log[i] \in Passed
      /\ \A i, j \in 1..n : row.log[i] = row.log[j] => i = j
      /\ reader.cursor \in Passed \cup {"none"}
      /\ \A i \in 1..n : row.log[i] = reader.cursor => \A j \in 1..i : row.log[j] \in reader.seen
  BY <1>1 DEF TableInv, ReaderFollowsLog
<1>3. \A i \in 1..m : logs[i] = IF i + k - 1 = n + 1 THEN r ELSE row.log[i + k - 1]
  OBVIOUS
<1>4. "none" \notin Requests
  BY TableFields
<1> HIDE DEF n, m
<1>5. \A i \in 1..m : i + k - 1 \in 1..n + 1 /\ (i + k - 1 # n + 1 => i + k - 1 \in 1..n)
  BY ONLY <1>1
<1>6. ASSUME NEW i \in 1..m PROVE logs[i] \in Passed'
  BY <1>2, <1>3, <1>5
<1>7. ASSUME NEW i \in 1..m, NEW j \in 1..m, logs[i] = logs[j] PROVE i = j
  <2>1. CASE i + k - 1 = n + 1 /\ j + k - 1 = n + 1
    BY ONLY <1>1, <2>1
  <2>2. CASE i + k - 1 = n + 1 /\ j + k - 1 # n + 1
    <3>1. logs[i] = r /\ logs[j] \in Passed
      BY <1>2, <1>3, <1>5, <2>2
    <3> QED
      BY <1>7, <3>1
  <2>3. CASE i + k - 1 # n + 1 /\ j + k - 1 = n + 1
    <3>1. logs[j] = r /\ logs[i] \in Passed
      BY <1>2, <1>3, <1>5, <2>3
    <3> QED
      BY <1>7, <3>1
  <2>4. CASE i + k - 1 # n + 1 /\ j + k - 1 # n + 1
    <3>1. row.log[i + k - 1] = row.log[j + k - 1]
      BY <1>3, <1>7, <2>4
    <3>2. i + k - 1 = j + k - 1
      BY <1>2, <1>5, <2>4, <3>1
    <3> QED
      BY ONLY <1>1, <3>2
  <2> QED
    BY <2>1, <2>2, <2>3, <2>4
<1>8. ASSUME NEW i \in 1..m, logs[i] = reader.cursor, NEW j \in 1..i PROVE logs[j] \in reader.seen
  <2>1. i + k - 1 # n + 1
    BY <1>2, <1>3, <1>4, <1>8
  <2>2. i + k - 1 \in 1..n /\ row.log[i + k - 1] = reader.cursor
    BY <1>3, <1>5, <1>8, <2>1
  <2>3. j \in 1..m /\ j + k - 1 \in 1..i + k - 1 /\ j + k - 1 # n + 1
    BY ONLY <1>1, <1>8, <2>2
  <2>4. logs[j] = row.log[j + k - 1]
    BY <1>3, <2>3
  <2> QED
    BY <1>2, <2>2, <2>3, <2>4
<1> QED
  BY <1>1, <1>2, <1>6, <1>7, <1>8 DEF ReaderFollowsLog

LEMMA TurnCommitsKeeps ==
    ASSUME TableInv, NEW r \in Requests, ReferenceTable!TurnCommits(r)
    PROVE  TableInv'
<1>1. /\ request[r].at = "called" /\ request[r].kind # "create" /\ UNCHANGED <<has, reader>>
      /\ ReferenceTable!Raise(r, ReferenceTable!Logged(r, row)) /\ ReferenceTable!Go(r, "look")
      /\ docket' = [f \in Fields |-> r]
  BY DEF ReferenceTable!TurnCommits, ReferenceTable!Answered, ReferenceTable!At
<1>2. docket' \in [Fields -> Requests \cup {"none"}] /\ \A f \in Fields : docket'[f] \in {docket[f], r}
  BY <1>1
<1>3. r \notin Passed
  BY <1>1 DEF Passed, Under
<1>4. CASE ~row.live
  <2>1. PICK o \in TableRows : o = row
    BY TableFields
  <2>2. ReferenceTable!Raise(r, o) /\ o.version = row.version /\ o.counts = row.counts
        /\ (row.hero => o.hero) /\ o.log = row.log
    BY <1>1, <1>4, <2>1 DEF ReferenceTable!Logged
  <2> QED
    BY <1>1, <1>2, <2>2, QuietRaise
<1>5. CASE row.live
  <2>1. PICK logs \in Seq(Requests), k \in 1..Len(row.log) + 2 :
              /\ ReferenceTable!Logged(r, row) = [row EXCEPT !.log = logs]
              /\ Len(logs) <= MaxLog /\ Len(logs) = Len(row.log) + 2 - k
              /\ \A i \in 1..Len(logs) :
                    logs[i] = IF i + k - 1 = Len(row.log) + 1 THEN r ELSE row.log[i + k - 1]
    BY <1>5, LoggedIs
  <2>2. PICK o : o = [row EXCEPT !.log = logs]
    OBVIOUS
  <2>3. /\ o \in TableRows /\ o.version = row.version /\ o.counts = row.counts /\ (row.hero => o.hero)
        /\ o.log = logs
    BY <2>2, TableFields DEF TableRows
  <2>4. ReferenceTable!Raise(r, o) /\ Len(o.log) <= MaxLog
    <3>1. ReferenceTable!Logged(r, row) = o
      BY <2>1, <2>2
    <3>2. row' = ReferenceTable!Bumped(r, ReferenceTable!Logged(r, row))
      BY <1>1 DEF ReferenceTable!Raise
    <3>3. row' = ReferenceTable!Bumped(r, o)
      BY ONLY <3>1, <3>2
    <3>4. ReferenceTable!Raise(r, o)
      BY <3>3 DEF ReferenceTable!Raise
    <3>5. Len(logs) <= MaxLog /\ o.log = logs
      BY <2>1, <2>3
    <3>6. Len(o.log) <= MaxLog
      BY ONLY <3>5
    <3> QED
      BY ONLY <3>4, <3>6
  <2>5. Passed \subseteq Passed' /\ r \in Passed' /\ o.log = row'.log => ReaderFollowsLog'
    <3> SUFFICES ASSUME Passed \subseteq Passed', r \in Passed', o.log = row'.log
                 PROVE  ReaderFollowsLog'
      OBVIOUS
    <3>1. row'.log = logs
      BY <2>3
    <3>2. reader' = reader
      BY <1>1
    <3>3. /\ logs \in Seq(Requests) /\ k \in 1..Len(row.log) + 2 /\ Len(logs) = Len(row.log) + 2 - k
          /\ \A i \in 1..Len(logs) :
                logs[i] = IF i + k - 1 = Len(row.log) + 1 THEN r ELSE row.log[i + k - 1]
      BY <2>1
    <3> QED
      BY <1>3, <3>1, <3>2, <3>3, NewLogFollows
  <2> QED
    BY <1>1, <1>2, <2>3, <2>4, <2>5, RaisedKeeps
<1> QED
  BY <1>4, <1>5, TableFields

\* Where a page begins and ends.
LEMMA PageBounds ==
    ASSUME TableInv
    PROVE  /\ ReferenceTable!Start \in 0..Len(row.log) /\ ReferenceTable!PageEnd \in 0..Len(row.log)
           /\ ReferenceTable!Start <= ReferenceTable!PageEnd
           /\ ReferenceTable!Start > 0 => row.log[ReferenceTable!Start] = reader.cursor
           /\ \A i \in 1..Len(row.log) : row.log[i] = reader.cursor => i = ReferenceTable!Start
           /\ ReferenceTable!PageEnd = ReferenceTable!Start => ReferenceTable!Start = Len(row.log)
<1> DEFINE at == CHOOSE i \in DOMAIN row.log : row.log[i] = reader.cursor
<1>1. /\ row.log \in Seq(Requests) /\ Len(row.log) \in Nat /\ DOMAIN row.log = 1..Len(row.log)
      /\ PageSize \in Nat \ {0}
  BY TableFields, LenProperties, HostAssumption
<1>2. ReferenceTable!Contains(row.log, reader.cursor)
         <=> \E i \in 1..Len(row.log) : row.log[i] = reader.cursor
  BY DEF ReferenceTable!Contains
<1>3. \A i, j \in 1..Len(row.log) : row.log[i] = row.log[j] => i = j
  BY <1>1 DEF TableInv, ReaderFollowsLog
<1>4. ReferenceTable!Contains(row.log, reader.cursor) => at \in 1..Len(row.log) /\ row.log[at] = reader.cursor
  BY <1>1, <1>2
<1> HIDE DEF at
<1>5. ReferenceTable!Start = IF ReferenceTable!Contains(row.log, reader.cursor) THEN at ELSE 0
  BY DEF ReferenceTable!Start, at, ReferenceTable!Contains
<1>6. /\ ReferenceTable!Start \in 0..Len(row.log)
      /\ ReferenceTable!Start > 0 => row.log[ReferenceTable!Start] = reader.cursor
      /\ \A i \in 1..Len(row.log) : row.log[i] = reader.cursor => i = ReferenceTable!Start
  <2>1. CASE ReferenceTable!Contains(row.log, reader.cursor)
    <3>1. ReferenceTable!Start = at /\ at \in 1..Len(row.log) /\ row.log[at] = reader.cursor
      BY <1>4, <1>5, <2>1
    <3> QED
      BY <1>1, <1>3, <3>1
  <2>2. CASE ~ReferenceTable!Contains(row.log, reader.cursor)
    BY <1>1, <1>2, <1>5, <2>2
  <2> QED
    BY <2>1, <2>2
<1>7. PICK s \in 0..Len(row.log) : s = ReferenceTable!Start
  BY <1>6
<1>8. ReferenceTable!PageEnd = IF s + PageSize > Len(row.log) THEN Len(row.log) ELSE s + PageSize
  BY <1>7 DEF ReferenceTable!PageEnd
<1>9. /\ ReferenceTable!PageEnd \in 0..Len(row.log) /\ s <= ReferenceTable!PageEnd
      /\ ReferenceTable!PageEnd = s => s = Len(row.log)
  BY ONLY <1>1, <1>7, <1>8
<1> QED
  BY <1>6, <1>7, <1>9

\* What a page holds: the log from the cursor on.
LEMMA PageIs ==
    ASSUME TableInv, ReferenceTable!Page
    PROVE  \E s, e \in 0..Len(row.log), events \in Seq(Requests) :
              /\ s = ReferenceTable!Start /\ e = ReferenceTable!PageEnd /\ s <= e
              /\ Len(events) = e - s /\ \A i \in 1..e - s : events[i] = row.log[s + i]
              /\ reader' \in [cursor : Requests \cup {"none"}, page : Seq(Requests), seen : SUBSET Requests]
              /\ reader'.page = events
              /\ reader'.cursor = IF e = s THEN reader.cursor ELSE row.log[e]
              /\ reader'.seen = reader.seen \cup {row.log[j] : j \in s + 1..e}
<1>1. row.log \in Seq(Requests) /\ Len(row.log) \in Nat
  BY TableFields
<1>2. PICK s \in 0..Len(row.log) : s = ReferenceTable!Start
  BY PageBounds
<1>3. PICK e \in 0..Len(row.log) : e = ReferenceTable!PageEnd
  BY PageBounds
<1>4. s <= e /\ s + 1 \in Int
  BY <1>1, <1>2, <1>3, PageBounds
<1>5. \A i \in s + 1..e : row.log[i] \in Requests
  <2> SUFFICES ASSUME NEW i \in s + 1..e PROVE row.log[i] \in Requests
    OBVIOUS
  <2>1. i \in 1..Len(row.log)
    BY ONLY <1>1, <1>2, <1>3
  <2> QED
    BY <1>1, <2>1, ElementOfSeq
<1>6. PICK events : events = SubSeq(row.log, s + 1, e)
  OBVIOUS
<1>7. PICK b \in Int : b = s + 1
  BY <1>4
<1>8. /\ events \in Seq(Requests) /\ Len(events) = IF b <= e THEN e - b + 1 ELSE 0
      /\ \A i \in 1..e - b + 1 : events[i] = row.log[b + i - 1]
  <2>1. \A i \in b..e : row.log[i] \in Requests
    BY <1>5, <1>7
  <2>2. events = SubSeq(row.log, b, e)
    BY <1>6, <1>7
  <2>3. e \in Int
    BY <1>1
  <2> QED
    BY <2>1, <2>2, <2>3, SubSeqProperties
<1>9. Len(events) = e - s
  BY ONLY <1>1, <1>2, <1>3, <1>4, <1>7, <1>8
<1>10. \A i \in 1..e - s : events[i] = row.log[s + i]
  <2> SUFFICES ASSUME NEW i \in 1..e - s PROVE events[i] = row.log[s + i]
    OBVIOUS
  <2>1. i \in 1..e - b + 1 /\ b + i - 1 = s + i
    BY ONLY <1>1, <1>2, <1>3, <1>7
  <2> QED
    BY <1>8, <2>1
<1>11. reader' = [cursor |-> IF events = <<>> THEN reader.cursor ELSE ReferenceTable!Last(events),
                  page |-> events, seen |-> reader.seen \cup ReferenceTable!ToSet(events)]
  BY <1>2, <1>3, <1>6 DEF ReferenceTable!Page
<1>12. ReferenceTable!ToSet(events) = {row.log[j] : j \in s + 1..e}
  <2>1. ReferenceTable!ToSet(events) = {events[i] : i \in 1..e - s}
    BY <1>8, <1>9 DEF ReferenceTable!ToSet
  <2>2. ASSUME NEW i \in 1..e - s PROVE events[i] \in {row.log[j] : j \in s + 1..e}
    <3>1. s + i \in s + 1..e
      BY ONLY <1>1, <2>2
    <3> QED
      BY <1>10, <3>1
  <2>3. ASSUME NEW j \in s + 1..e PROVE row.log[j] \in {events[i] : i \in 1..e - s}
    <3>1. j - s \in 1..e - s /\ s + (j - s) = j
      BY ONLY <1>1, <2>3
    <3>2. events[j - s] = row.log[j]
      BY <1>10, <3>1
    <3> QED
      BY <3>1, <3>2
  <2> QED
    BY <2>1, <2>2, <2>3
<1>13. reader'.cursor = IF e = s THEN reader.cursor ELSE row.log[e]
  <2>1. CASE e = s
    <3>1. Len(events) = 0
      BY ONLY <1>1, <1>9, <2>1
    <3>2. events = <<>>
      BY <1>8, <3>1, EmptySeq
    <3> QED
      BY <1>11, <2>1, <3>2
  <2>2. CASE e # s
    <3>1. e - s \in 1..e - s /\ s + (e - s) = e
      BY ONLY <1>1, <1>4, <2>2
    <3>2. events # <<>>
      BY <1>9, <3>1, EmptySeq
    <3>3. ReferenceTable!Last(events) = events[e - s]
      BY <1>9 DEF ReferenceTable!Last
    <3>4. events[e - s] = row.log[e]
      BY <1>10, <3>1
    <3> QED
      BY <1>11, <2>2, <3>2, <3>3, <3>4
  <2> QED
    BY <2>1, <2>2
<1>14. reader' \in [cursor : Requests \cup {"none"}, page : Seq(Requests), seen : SUBSET Requests]
  <2>1. reader'.cursor \in Requests \cup {"none"}
    <3>1. CASE e = s
      BY <1>13, <3>1, ReaderFits
    <3>2. CASE e # s
      <4>1. e \in 1..Len(row.log)
        BY ONLY <1>1, <1>4, <3>2
      <4> QED
        BY <1>1, <1>13, <3>2, <4>1, ElementOfSeq
    <3> QED
      BY <3>1, <3>2
  <2>2. reader.seen \cup ReferenceTable!ToSet(events) \subseteq Requests
    BY <1>5, <1>12, ReaderFits
  <2> QED
    BY <1>8, <1>11, <2>1, <2>2
<1> QED
  BY <1>2, <1>3, <1>4, <1>8, <1>9, <1>10, <1>11, <1>12, <1>13, <1>14

\* After a page, all the log up to its end has been seen.
LEMMA SeenToPageEnd ==
    ASSUME TableInv, NEW s \in 0..Len(row.log), NEW e \in 0..Len(row.log),
           s > 0 => row.log[s] = reader.cursor,
           reader'.seen = reader.seen \cup {row.log[j] : j \in s + 1..e}
    PROVE  \A j \in 1..e : row.log[j] \in reader'.seen
<1>1. Len(row.log) \in Nat /\ DOMAIN row.log = 1..Len(row.log)
  BY TableFields, LenProperties
<1>2. \A i \in 1..Len(row.log) : row.log[i] = reader.cursor => \A j \in 1..i : row.log[j] \in reader.seen
  BY <1>1 DEF TableInv, ReaderFollowsLog
<1> SUFFICES ASSUME NEW j \in 1..e PROVE row.log[j] \in reader'.seen
  OBVIOUS
<1>3. CASE j \in s + 1..e
  BY <1>3
<1>4. CASE j \notin s + 1..e
  <2>1. s > 0 /\ s \in 1..Len(row.log) /\ j \in 1..s
    BY ONLY <1>1, <1>4
  <2> QED
    BY <1>2, <2>1
<1> QED
  BY <1>3, <1>4

LEMMA PageKeeps ==
    ASSUME TableInv, ReferenceTable!Page
    PROVE  TableInv'
<1>1. UNCHANGED <<row, docket, has, request>>
  BY DEF ReferenceTable!Page
<1>2. PICK s, e \in 0..Len(row.log), events \in Seq(Requests) :
              /\ s = ReferenceTable!Start /\ e = ReferenceTable!PageEnd /\ s <= e
              /\ reader' \in [cursor : Requests \cup {"none"}, page : Seq(Requests), seen : SUBSET Requests]
              /\ reader'.cursor = IF e = s THEN reader.cursor ELSE row.log[e]
              /\ reader'.seen = reader.seen \cup {row.log[j] : j \in s + 1..e}
  BY PageIs
<1>3. Passed' = Passed
  BY <1>1 DEF Passed
<1>4. TableTyped' /\ ViewsFollowCounts'
  BY <1>1, <1>2, <1>3 DEF TableInv, TableTyped, ViewsFollowCounts
<1>5. Len(row.log) \in Nat /\ DOMAIN row.log = 1..Len(row.log)
  BY TableFields, LenProperties
<1>6. /\ \A i \in 1..Len(row.log) : row.log[i] \in Passed
      /\ \A i, j \in 1..Len(row.log) : row.log[i] = row.log[j] => i = j
      /\ reader.cursor \in Passed \cup {"none"}
      /\ \A i \in 1..Len(row.log) : row.log[i] = reader.cursor => \A j \in 1..i : row.log[j] \in reader.seen
  BY <1>5 DEF TableInv, ReaderFollowsLog
<1>7. \A j \in 1..e : row.log[j] \in reader'.seen
  BY <1>2, SeenToPageEnd, PageBounds
<1>8. e # s => e \in 1..Len(row.log)
  BY ONLY <1>2, <1>5
<1>9. reader'.cursor \in Passed' \cup {"none"}
  BY <1>2, <1>3, <1>6, <1>8
<1>10. ASSUME NEW i \in 1..Len(row.log), row.log[i] = reader'.cursor, NEW j \in 1..i
       PROVE  row.log[j] \in reader'.seen
  <2>1. CASE e = s
    BY <1>2, <1>6, <1>10, <2>1
  <2>2. CASE e # s
    BY <1>2, <1>6, <1>7, <1>8, <1>10, <2>2
  <2> QED
    BY <2>1, <2>2
<1>11. ReaderFollowsLog'
  BY <1>1, <1>3, <1>5, <1>6, <1>9, <1>10 DEF ReaderFollowsLog
<1> QED
  BY <1>4, <1>11 DEF TableInv

LEMMA StoppedTable ==
    ASSUME TableInv, UNCHANGED ReferenceTable!vars
    PROVE  TableInv'
<1>1. UNCHANGED <<row, docket, has, request, reader>>
  BY DEF ReferenceTable!vars
<1>2. Passed' = Passed
  BY <1>1 DEF Passed
<1> QED
  BY <1>1, <1>2 DEF TableInv, TableTyped, ViewsFollowCounts, ReaderFollowsLog

LEMMA NextTable ==
    ASSUME TableInv, ReferenceTable!Next
    PROVE  TableInv'
BY SendKeeps, RouteKeeps, EngineAnswersKeeps, CharacterCreateKeeps, EditKeeps, TurnCommitsKeeps,
   LookKeeps, ReadSheetKeeps, ReadDocketKeeps, ReadNotesKeeps, ErasedKeeps, DeleteKeeps, ReopenKeeps,
   PageKeeps
   DEF ReferenceTable!Next

LEMMA InitTable == ReferenceTable!Init => TableInv
<1> SUFFICES ASSUME ReferenceTable!Init PROVE TableInv
  OBVIOUS
<1> DEFINE unsent == [kind |-> "none", at |-> "idle", expected |-> 0, fields |-> {}, landed |-> FALSE,
                      hero |-> FALSE, view |-> ReferenceTable!NoView]
<1>1. /\ \E hero \in BOOLEAN : row = [ReferenceTable!NoRow EXCEPT !.live = TRUE, !.hero = hero]
      /\ docket = [f \in Fields |-> ReferenceTable!NoOne] /\ has = {}
      /\ request = [r \in Requests |-> unsent]
      /\ reader = [cursor |-> ReferenceTable!NoOne, page |-> <<>>, seen |-> {}]
  BY Zenon DEF ReferenceTable!Init
<1>2. row \in TableRows /\ row.version = 0 /\ row.log = <<>> /\ row.counts = {}
  <2>1. PICK hero \in BOOLEAN : row = [ReferenceTable!NoRow EXCEPT !.live = TRUE, !.hero = hero]
    BY <1>1
  <2>2. row = [live |-> TRUE, version |-> 0, hero |-> hero, log |-> <<>>, counts |-> {}]
    BY ONLY <2>1 DEF ReferenceTable!NoRow
  <2>3. << >> \in Seq(Requests)
    OBVIOUS
  <2> QED
    BY ONLY <2>2, <2>3 DEF TableRows
<1>3. ReferenceTable!NoView \in Views
  BY DEF ReferenceTable!NoView, Views
<1>4. request \in [Requests -> RequestRows] /\ \A r \in Requests : request[r].at = "idle"
  <2>1. unsent \in RequestRows
    BY <1>3 DEF RequestRows, Stages
  <2> QED
    BY <1>1, <2>1
<1>5. Passed = {} /\ Cardinality(Passed) = 0
  <2>1. Passed = {}
    BY <1>4 DEF Passed, Under
  <2> QED
    BY <2>1, FS_EmptySet
<1>6. TableTyped
  <2>1. Len(row.log) = 0 /\ MaxLog \in Nat
    BY <1>2, HostAssumption
  <2>2. docket \in [Fields -> Requests \cup {"none"}] /\ has \subseteq Requests
    BY <1>1 DEF ReferenceTable!NoOne
  <2>3. reader \in [cursor : Requests \cup {"none"}, page : Seq(Requests), seen : SUBSET Requests]
    BY <1>1 DEF ReferenceTable!NoOne
  <2> QED
    BY <1>2, <1>4, <1>5, <2>1, <2>2, <2>3 DEF TableTyped
<1>7. ViewsFollowCounts
  BY <1>2, <1>4 DEF ViewsFollowCounts, ViewCovers
<1>8. ReaderFollowsLog
  BY <1>1, <1>2 DEF ReaderFollowsLog, ReferenceTable!NoOne
<1> QED
  BY <1>6, <1>7, <1>8 DEF TableInv

LEMMA TableHolds == TableInv => ReferenceTable!TypeOK /\ ReferenceTable!VersionNotAhead
<1> SUFFICES ASSUME TableInv PROVE ReferenceTable!TypeOK /\ ReferenceTable!VersionNotAhead
  OBVIOUS
<1>1. row.version <= Cardinality(Requests) /\ Cardinality(Requests) \in Nat
  <2>1. Passed \in SUBSET Requests /\ IsFiniteSet(Requests)
    BY HostAssumption DEF Passed
  <2>2. Cardinality(Passed) <= Cardinality(Requests) /\ Cardinality(Requests) \in Nat
    BY <2>1, FS_Subset, FS_CardinalityType
  <2>3. row.version \in Nat /\ Cardinality(Passed) \in Nat /\ row.version <= Cardinality(Passed)
    BY TableFields
  <2> QED
    BY ONLY <2>2, <2>3
<1>2. ReferenceTable!TypeOK
  <2>1. ReferenceTable!Cardinality(Requests) = Cardinality(Requests)
    BY DEF ReferenceTable!Cardinality, Cardinality
  <2>2. row.version \in 0..ReferenceTable!Cardinality(Requests)
    <3>1. row.version \in Nat
      BY TableFields
    <3> QED
      BY ONLY <1>1, <2>1, <3>1
  <2>3. \A r \in Requests : request[r].kind \in ReferenceTable!AllKinds \cup {"none"}
    BY RequestFields
  <2> QED
    BY <2>2, <2>3, TableFields DEF ReferenceTable!TypeOK, ReferenceTable!NoOne
<1>3. ReferenceTable!VersionNotAhead
  <2> SUFFICES ASSUME NEW r \in Requests, request[r].at = "shown", NEW q \in request[r].view.counts
               PROVE  /\ request[q].kind \in {"create", "spells", "item"} =>
                            \/ q \in request[r].view.sheet \/ q \notin has
                            \/ ~request[r].hero /\ request[q].kind # "create"
                      /\ request[q].kind = "note" => q \in request[r].view.notes \/ q \notin has
                      /\ request[q].kind \in {"details", "turn"} =>
                            q \in request[r].view.docket \/ ReferenceTable!Overwritten(q)
    BY Zenon DEF ReferenceTable!VersionNotAhead
  <2>1. Covered(request[r], q, request[q], has, docket)
    BY RequestFields DEF ViewCovers
  <2>2. ReferenceTable!Overwritten(q) <=> \A f \in request[q].fields : docket[f] # q
    BY DEF ReferenceTable!Overwritten
  <2> QED
    BY <2>1, <2>2 DEF Covered
<1> QED
  BY <1>2, <1>3

\* The steps of a request that leave the docket as it is.
DocketStays(r) ==
    \/ \E kind \in Kinds : ReferenceTable!Send(r, kind)
    \/ ReferenceTable!Route(r) \/ ReferenceTable!EngineAnswers(r)
    \/ ReferenceTable!CharacterCreate(r) \/ ReferenceTable!UpdateCharacterSpells(r)
    \/ ReferenceTable!InventoryAction(r) \/ ReferenceTable!PlayerNoteAdd(r)
    \/ ReferenceTable!Look(r) \/ ReferenceTable!ReadSheet(r) \/ ReferenceTable!ReadDocket(r)
    \/ ReferenceTable!ReadNotes(r)
    \/ ReferenceTable!Erased(r) \/ ReferenceTable!Delete(r) \/ ReferenceTable!Reopen(r)

LEMMA DocketStands ==
    ASSUME NEW r \in Requests, DocketStays(r)
    PROVE  UNCHANGED <<docket, reader>>
<1>1. ASSUME NEW kind \in Kinds, ReferenceTable!Send(r, kind)
      PROVE  UNCHANGED <<docket, reader>>
  BY <1>1 DEF ReferenceTable!Send
<1>2. CASE ReferenceTable!Route(r) \/ ReferenceTable!EngineAnswers(r)
  BY <1>2 DEF ReferenceTable!Route, ReferenceTable!EngineAnswers
<1>3. CASE ReferenceTable!CharacterCreate(r) \/ ReferenceTable!UpdateCharacterSpells(r)
  BY <1>3 DEF ReferenceTable!CharacterCreate, ReferenceTable!UpdateCharacterSpells
<1>4. CASE ReferenceTable!InventoryAction(r) \/ ReferenceTable!PlayerNoteAdd(r)
  BY <1>4 DEF ReferenceTable!InventoryAction, ReferenceTable!PlayerNoteAdd
<1>5. CASE ReferenceTable!Look(r) \/ ReferenceTable!ReadSheet(r)
  BY <1>5 DEF ReferenceTable!Look, ReferenceTable!ReadSheet
<1>6. CASE ReferenceTable!ReadDocket(r) \/ ReferenceTable!ReadNotes(r)
  BY <1>6 DEF ReferenceTable!ReadDocket, ReferenceTable!ReadNotes
<1>7. CASE ReferenceTable!Erased(r) \/ ReferenceTable!Delete(r) \/ ReferenceTable!Reopen(r)
  BY <1>7 DEF ReferenceTable!Erased, ReferenceTable!Delete, ReferenceTable!Reopen
<1> QED
  BY <1>1, <1>2, <1>3, <1>4, <1>5, <1>6, <1>7 DEF DocketStays

\* Only the edits of the docket write it.
LEMMA DocketIsEdited ==
    ASSUME ReferenceTable!Next
    PROVE  \/ UNCHANGED docket
           \/ \E r \in Requests : docket' = ReferenceTable!Merge(r)
           \/ \E r \in Requests : request[r].at = "called" /\ request[r].kind = "turn"
                                  /\ docket' = [f \in Fields |-> r]
<1>1. CASE ReferenceTable!Page
  BY <1>1 DEF ReferenceTable!Page
<1>2. CASE \E r \in Requests : DocketStays(r)
  BY <1>2, DocketStands
<1>3. CASE \E r \in Requests : ReferenceTable!UpdateCharacterDetails(r)
  BY <1>3 DEF ReferenceTable!UpdateCharacterDetails
<1>4. CASE \E r \in Requests : ReferenceTable!TurnCommits(r)
  BY <1>4 DEF ReferenceTable!TurnCommits, ReferenceTable!Answered, ReferenceTable!At
<1> QED
  BY <1>1, <1>2, <1>3, <1>4 DEF ReferenceTable!Next, DocketStays

LEMMA NamedFieldsOnly ==
    ASSUME TableInv, ReferenceTable!Next
    PROVE  ReferenceTable!OnlyNamedFields
<1> SUFFICES ASSUME NEW f \in Fields, docket'[f] # docket[f]
             PROVE  \E r \in Requests : docket'[f] = r /\ f \in request[r].fields
  BY DEF ReferenceTable!OnlyNamedFields
<1>1. CASE \E r \in Requests : docket' = ReferenceTable!Merge(r)
  BY <1>1 DEF ReferenceTable!Merge
<1>2. CASE \E r \in Requests : request[r].at = "called" /\ request[r].kind = "turn"
                                  /\ docket' = [g \in Fields |-> r]
  <2>1. PICK r \in Requests : /\ request[r].at = "called" /\ request[r].kind = "turn"
                              /\ docket' = [g \in Fields |-> r]
    BY <1>2
  <2>2. request[r].fields = Fields
    BY <2>1, RequestFields
  <2> QED
    BY <2>1, <2>2
<1> QED
  BY <1>1, <1>2, DocketIsEdited

\* An update of a row that is not there makes none.
LEMMA NoRowIsRaised ==
    ASSUME NEW r, ~row.live, NEW old \in {row, ReferenceTable!Logged(r, row)}, ReferenceTable!Raise(r, old)
    PROVE  ~row'.live
BY DEF ReferenceTable!Raise, ReferenceTable!Bumped, ReferenceTable!Logged

LEMMA NeverRevived ==
    ASSUME ReferenceTable!Next
    PROVE  ReferenceTable!EditsNeverRevive
<1> SUFFICES ASSUME ~row.live, row'.live PROVE \E r \in Requests : ReferenceTable!At(r, "reopen", "sent")
  BY DEF ReferenceTable!EditsNeverRevive
<1>1. row' # row
  OBVIOUS
<1>2. PICK r \in Requests :
         \/ ReferenceTable!UpdateCharacterSpells(r) \/ ReferenceTable!UpdateCharacterDetails(r)
         \/ ReferenceTable!InventoryAction(r) \/ ReferenceTable!PlayerNoteAdd(r)
         \/ ReferenceTable!TurnCommits(r) \/ ReferenceTable!Delete(r) \/ ReferenceTable!Reopen(r)
  BY <1>1 DEF ReferenceTable!Next, ReferenceTable!Send, ReferenceTable!Route,
       ReferenceTable!EngineAnswers, ReferenceTable!CharacterCreate, ReferenceTable!Look,
       ReferenceTable!ReadSheet, ReferenceTable!ReadDocket, ReferenceTable!ReadNotes,
       ReferenceTable!Erased, ReferenceTable!Page
<1>3. ~ReferenceTable!Delete(r)
  BY DEF ReferenceTable!Delete, ReferenceTable!NoRow
<1>4. ~ReferenceTable!Raise(r, row) /\ ~ReferenceTable!Raise(r, ReferenceTable!Logged(r, row))
  BY NoRowIsRaised
<1>5. ReferenceTable!Reopen(r)
  BY <1>2, <1>3, <1>4 DEF ReferenceTable!UpdateCharacterSpells, ReferenceTable!UpdateCharacterDetails,
       ReferenceTable!InventoryAction, ReferenceTable!PlayerNoteAdd, ReferenceTable!TurnCommits
<1> QED
  BY <1>5 DEF ReferenceTable!Reopen

LEMMA NoneSkipped ==
    ASSUME TableInv, ReferenceTable!Next
    PROVE  ReferenceTable!NothingSkipped
<1> SUFFICES ASSUME reader' # reader, ~ReferenceTable!HasMore
             PROVE  ReferenceTable!ToSet(row.log) \subseteq reader'.seen
  BY DEF ReferenceTable!NothingSkipped
<1>1. ReferenceTable!Page
  <2>1. ~(\E r \in Requests : DocketStays(r))
    BY DocketStands
  <2>2. ~(\E r \in Requests : ReferenceTable!UpdateCharacterDetails(r))
    BY DEF ReferenceTable!UpdateCharacterDetails
  <2>3. ~(\E r \in Requests : ReferenceTable!TurnCommits(r))
    BY DEF ReferenceTable!TurnCommits
  <2> QED
    BY <2>1, <2>2, <2>3 DEF ReferenceTable!Next, DocketStays
<1>2. PICK s, e \in 0..Len(row.log) :
              /\ s = ReferenceTable!Start /\ e = ReferenceTable!PageEnd
              /\ reader'.seen = reader.seen \cup {row.log[j] : j \in s + 1..e}
  BY <1>1, PageIs
<1>3. Len(row.log) \in Nat /\ DOMAIN row.log = 1..Len(row.log)
  BY TableFields, LenProperties
<1>4. e = Len(row.log)
  <2>1. ~(e < Len(row.log))
    BY <1>2 DEF ReferenceTable!HasMore
  <2> QED
    BY ONLY <1>2, <1>3, <2>1
<1>5. \A j \in 1..e : row.log[j] \in reader'.seen
  BY <1>2, SeenToPageEnd, PageBounds
<1> QED
  BY <1>3, <1>4, <1>5 DEF ReferenceTable!ToSet

-----------------------------------------------------------------------------
(* What does not move keeps what holds of it.                                 *)

LEMMA StoppedTurns ==
    ASSUME TurnsInv, UNCHANGED <<turn, post, told>>
    PROVE  TurnsInv'
BY DEF TurnsInv, PostsInv, TurnsTyped, OneRunner, ToldIsRow, Begun, TurnHost!Entered

LEMMA StoppedHealth ==
    ASSUME HealthInv, UNCHANGED <<up, lastUp, kept, check, faults, healthNow>>
    PROVE  HealthInv'
BY DEF HealthInv, HealthTyped, HeardRecently

LEMMA StoppedGuard ==
    ASSUME GuardInv, UNCHANGED <<guardNow, attempts, origin, blocks, guardPaid, history, signups>>
    PROVE  GuardInv'
<1>1. GuardTyped' /\ TableIsWindow' /\ SignedUpOnce'
  BY DEF GuardInv, GuardTyped, TableIsWindow, SignedUpOnce, AbuseGuard!Started
<1>2. AbuseGuard!BurstBounded'
  BY DEF GuardInv, AbuseGuard!BurstBounded
<1>3. AbuseGuard!ClusterBounded'
  BY DEF GuardInv, AbuseGuard!ClusterBounded
<1> QED
  BY <1>1, <1>2, <1>3 DEF GuardInv

LEMMA StoppedUsage ==
    ASSUME UsageInv, UNCHANGED <<asked, inflight, buffer, flushed, rows, lost, alive>>
    PROVE  UsageInv'
<1>1. UsageTyped' /\ EventsApart' /\ FallbacksAnswerSilence'
  BY DEF UsageInv, UsageTyped, EventsApart, FallbacksAnswerSilence, Past
<1>2. ModelUsage!RequestsAccounted'
  <2>1. Balance(asked, inflight, buffer, rows, lost) /\ asked \in [Runs -> Nat]
    BY UsageTypes, BalanceSays DEF UsageInv
  <2>2. Balance(asked', inflight', buffer', rows', lost') /\ asked' \in [Runs -> Nat]
    BY <2>1
  <2> QED
    BY <2>2, BalanceWillSay
<1> QED
  BY <1>1, <1>2 DEF UsageInv

LEMMA StoppedViews ==
    ASSUME ViewsInv,
           UNCHANGED <<facts, knowledge, viewpoint, quest, exit, notice, situation, log, entitled>>
    PROVE  ViewsInv'
BY DEF ViewsInv, KnowledgeFits, Projection!EvidenceWithheld

LEMMA StoppedPlan ==
    ASSUME PlanInv,
           UNCHANGED <<mode, object, search, clauses, staged, turns, tried, pending, phase, planKept,
                       unresolved, drafts, planTold>>
    PROVE  PlanInv'
BY DEF PlanInv, PlanTyped, ScenesBound, PlanSound, Player

-----------------------------------------------------------------------------
(* The theorems.                                                             *)

LEMMA InitHost == HostInit => LedgerInv /\ HostInv
<1> SUFFICES ASSUME HostInit PROVE LedgerInv /\ HostInv
  OBVIOUS
<1>1. LedgerInv
  BY InitLedger DEF HostInit
<1>2. part \in Parts
  BY DEF HostInit
<1>3. /\ part = "TurnHost" => TurnsInv
      /\ part = "HostHealth" => HealthInv
      /\ part = "AbuseGuard" => GuardInv
      /\ part = "ModelUsage" => UsageInv
      /\ part = "ReferenceTable" => TableInv
      /\ part = "Projection" => ViewsInv
      /\ part = "DmTurn" => PlanInv
  BY Zenon, InitTurns, InitHealth, InitGuard, InitUsage, InitTable, InitViews, InitPlan DEF HostInit
<1> QED
  BY <1>1, <1>2, <1>3 DEF HostInv

LEMMA NextHost ==
    ASSUME LedgerInv, HostInv, HostNext
    PROVE  LedgerInv' /\ HostInv'
<1>1. part' = part /\ part \in Parts
  BY DEF HostNext, HostInv
<1>2. LedgerInv'
  <2>1. Next \/ UNCHANGED vars
    BY DEF HostNext
  <2> QED
    BY <2>1, NextKeepsBooks, NextKeepsTurns, NextKeepsBudget, StutterKeepsLedger DEF LedgerInv
<1>3. part = "TurnHost" => TurnsInv'
  BY NextTurns DEF HostNext, HostInv
<1>4. part = "HostHealth" => HealthInv'
  BY NextHealth DEF HostNext, HostInv
<1>5. part = "AbuseGuard" => GuardInv'
  BY NextGuard DEF HostNext, HostInv
<1>6. part = "ModelUsage" => UsageInv'
  BY NextUsage DEF HostNext, HostInv
<1>7. part = "ReferenceTable" => TableInv'
  BY NextTable DEF HostNext, HostInv
<1>8. part = "Projection" => ViewsInv'
  BY NextViews DEF HostNext, HostInv
<1>9. part = "DmTurn" => PlanInv'
  BY NextPlan DEF HostNext, HostInv
<1> QED
  BY <1>1, <1>2, <1>3, <1>4, <1>5, <1>6, <1>7, <1>8, <1>9 DEF HostInv

LEMMA StoppedHost ==
    ASSUME LedgerInv, HostInv, UNCHANGED allVars
    PROVE  LedgerInv' /\ HostInv'
<1>1. part' = part /\ part \in Parts /\ UNCHANGED vars
  BY DEF allVars, HostInv
<1>2. LedgerInv'
  BY <1>1, StutterKeepsLedger
<1>3. /\ UNCHANGED <<turn, post, told>>
      /\ UNCHANGED <<up, lastUp, kept, check, faults, healthNow>>
      /\ UNCHANGED <<guardNow, attempts, origin, blocks, guardPaid, history, signups>>
      /\ UNCHANGED <<asked, inflight, buffer, flushed, rows, lost, alive>>
      /\ UNCHANGED ReferenceTable!vars
      /\ UNCHANGED <<facts, knowledge, viewpoint, quest, exit, notice, situation, log, entitled>>
      /\ UNCHANGED <<mode, object, search, clauses, staged, turns, tried, pending, phase, planKept,
                     unresolved, drafts, planTold>>
  BY DEF allVars, ReferenceTable!vars
<1>4. /\ part = "TurnHost" => TurnsInv'
      /\ part = "HostHealth" => HealthInv'
      /\ part = "AbuseGuard" => GuardInv'
      /\ part = "ModelUsage" => UsageInv'
      /\ part = "ReferenceTable" => TableInv'
      /\ part = "Projection" => ViewsInv'
      /\ part = "DmTurn" => PlanInv'
  BY Zenon, <1>3, StoppedTurns, StoppedHealth, StoppedGuard, StoppedUsage, StoppedTable, StoppedViews,
     StoppedPlan DEF HostInv
<1> QED
  BY <1>1, <1>2, <1>4 DEF HostInv

\* What the components of the host keep true of themselves, part by part: the ledger of
\* the accounts, the turns the host answers for, its health, the abuse guard, the requests to the
\* models, the table, what a player is shown and the plan of a turn
\* (src/llm-usage.ts, src/turn-runtime.ts, src/abuse-guard.ts, src/model-usage.ts,
\* src/reference-engine-adapter.ts, src/engine-knowledge.ts, src/engine-turn-plan.ts).
THEOREM HostInvariant == HostSpec => [](LedgerInv /\ HostInv)
<1>1. LedgerInv /\ HostInv /\ [HostNext]_allVars => (LedgerInv /\ HostInv)'
  BY NextHost, StoppedHost
<1> QED
  BY <1>1, InitHost, PTL DEF HostSpec

\* Every component of the host keeps its types, among them the bounds its code sets: no
\* more attempts than the limit in the table of the guard, no row of a campaign whose version
\* is ahead of the requests, no log longer than MAX_LOG_MESSAGES (appendLogMessages()).
THEOREM HostTypesCorrect == HostSpec => []TypesOK
<1>1. LedgerInv => TypeOK
  BY LedgerTypes
<1>2. HostInv => /\ part = "AbuseGuard" => AbuseGuard!TypeOK
                 /\ part = "ModelUsage" => ModelUsage!TypeOK
                 /\ part = "HostHealth" => HostHealth!TypeOK
                 /\ part = "TurnHost" => TurnHost!TypeOK
                 /\ part = "ReferenceTable" => ReferenceTable!TypeOK
                 /\ part = "Projection" => Projection!TypeOK
                 /\ part = "DmTurn" => DmTurn!TypeOK
  BY Zenon, TurnsHold, HealthHolds, GuardHolds, UsageHolds, TableHolds, ViewsHold, PlanHolds DEF HostInv
<1>3. LedgerInv /\ HostInv => TypesOK
  BY <1>1, <1>2 DEF TypesOK
<1> QED
  BY <1>3, HostInvariant, PTL

\* What the host counts and says is so, for any number of accounts, requests, runs,
\* commands, checks and fields: no window of the guard holds more turns or new accounts than its
\* limit (admitTurn(), admitSignup()); every request to a model is accounted for once and a
\* fallback answers silence; a command has one story; a ready answer is recent
\* (runtimeHealth()); a page is no older than its version (buildState()); a view shows
\* what its knowledge allows; and a plan's evidence is of the effects it keeps.
THEOREM HostAnswersTrue == HostSpec => []AnswersTrue
<1>1. HostInv => AnswersTrue
  <2> SUFFICES ASSUME HostInv PROVE AnswersTrue
    OBVIOUS
  <2>1. /\ part = "AbuseGuard" => AbuseGuard!BurstBounded /\ AbuseGuard!ClusterBounded
        /\ part = "ModelUsage" => ModelUsage!RequestsAccounted /\ ModelUsage!FallbackFollowsSilence
        /\ part = "TurnHost" => TurnHost!OneStory
        /\ part = "HostHealth" => HostHealth!ReadyIsRecent
        /\ part = "ReferenceTable" => ReferenceTable!VersionNotAhead
    BY Zenon, TurnsHold, HealthHolds, GuardHolds, UsageHolds, TableHolds DEF HostInv
  <2>2. /\ part = "Projection" => Projection!EvidenceWithheld /\ Projection!ViewFollowsKnowledge
        /\ part = "DmTurn" => /\ DmTurn!EvidenceIsState /\ DmTurn!ScenesFollowTheirCheck
                              /\ DmTurn!UnresolvedChangesNothing /\ DmTurn!NoOrphanedCheck
    BY Zenon, ViewsHold, PlanHolds DEF HostInv
  <2> QED
    BY Zenon, <2>1, <2>2 DEF AnswersTrue
<1> QED
  BY <1>1, HostInvariant, PTL

\* What no step of the host does: answer a request with a retry of a turn whose own receipt
\* says it changed the game (the catch block of the command route), overwrite fields of the
\* docket that an edit does not name (updateCharacterDetails()), bring a deleted campaign back
\* by an edit (bumpVersion()), or tell a follower of the event stream that there is no more
\* before it was given every event in the log (GET events/stream).
THEOREM HostStepsTrue == HostSpec => TableStepsTrue
<1> DEFINE Steps == /\ part = "TurnHost" => TurnHost!ReceiptWins
                    /\ part = "ReferenceTable" =>
                         /\ ReferenceTable!OnlyNamedFields
                         /\ ReferenceTable!EditsNeverRevive
                         /\ ReferenceTable!NothingSkipped
<1>1. HostInv /\ [HostNext]_allVars => [Steps]_allVars
  <2> SUFFICES ASSUME HostInv, HostNext PROVE Steps
    OBVIOUS
  <2>1. part = "TurnHost" => TurnHost!ReceiptWins
    BY ReceiptsWin DEF HostInv, HostNext, TurnsInv
  <2>2. part = "ReferenceTable" => TableInv /\ ReferenceTable!Next
    BY DEF HostInv, HostNext
  <2>3. part = "ReferenceTable" => /\ ReferenceTable!OnlyNamedFields
                                   /\ ReferenceTable!EditsNeverRevive
                                   /\ ReferenceTable!NothingSkipped
    BY Zenon, <2>2, NamedFieldsOnly, NeverRevived, NoneSkipped
  <2> QED
    BY <2>1, <2>3
<1>2. TableStepsTrue <=> [][Steps]_allVars
  BY PTL DEF TableStepsTrue
<1> QED
  BY <1>1, <1>2, HostInvariant, PTL DEF HostSpec
=============================================================================
