----------------------------- MODULE HeroProofs -----------------------------
(*****************************************************************************)
(* What the hero has, is and can do, for any items, spells, sheets and       *)
(* companions: the properties of MCHero, proved.                             *)
(*****************************************************************************)
EXTENDS MCHero, Integers, FiniteSetTheorems, FunctionTheorems, SequenceTheorems, WellFoundedInduction, TLAPS

-----------------------------------------------------------------------------
(* Induction over the naturals and over the subsets of a finite set, both    *)
(* with a set in the place of a predicate.                                  *)

LEMMA NatSetInduction ==
    ASSUME NEW N \in SUBSET Nat, 0 \in N, \A n \in N : n + 1 \in N
    PROVE  N = Nat
<1> DEFINE Less == OpToRel(<, Nat)
           Rest == Nat \ N
<1>1. IsWellFoundedOn(Less, Nat)
  BY NatLessThanWellFounded
<1> SUFFICES ASSUME Rest # {} PROVE FALSE
  OBVIOUS
<1>2. Rest \subseteq Nat
  OBVIOUS
<1>3. PICK k \in Rest : \A j \in Rest : <<j, k>> \notin Less
  <2> HIDE DEF Rest, Less
  <2> QED
    BY <1>1, <1>2, WFMin
<1>4. k \in Nat /\ k # 0
  OBVIOUS
<1>5. k - 1 \in Nat /\ k - 1 < k /\ (k - 1) + 1 = k
  BY <1>4
<1>6. k - 1 \in Rest
  BY <1>5
<1>7. <<k - 1, k>> \in Less
  BY <1>4, <1>5 DEF OpToRel
<1> QED
  BY <1>3, <1>6, <1>7

\* The element a sum takes first.
First(s) == CHOOSE x \in s : TRUE

LEMMA FirstIsIn ==
    ASSUME NEW s, s # {}
    PROVE  First(s) \in s
BY DEF First

LEMMA SubsetInduction ==
    ASSUME NEW S, IsFiniteSet(S), NEW T,
           {} \in T,
           \A s \in SUBSET S : s # {} /\ s \ {First(s)} \in T => s \in T
    PROVE  SUBSET S \subseteq T
<1> DEFINE N == {n \in Nat : \A s \in SUBSET S : Cardinality(s) = n => s \in T}
<1>1. \A s \in SUBSET S : IsFiniteSet(s) /\ Cardinality(s) \in Nat
  BY FS_Subset, FS_CardinalityType
<1>2. 0 \in N
  BY <1>1, FS_EmptySet
<1>3. ASSUME NEW n \in N PROVE n + 1 \in N
  <2> SUFFICES ASSUME NEW s \in SUBSET S, Cardinality(s) = n + 1 PROVE s \in T
    OBVIOUS
  <2>1. s # {}
    BY FS_EmptySet
  <2>2. First(s) \in s
    BY <2>1, FirstIsIn
  <2>3. Cardinality(s \ {First(s)}) = Cardinality(s) - 1
    BY <1>1, <2>2, FS_RemoveElement
  <2>4. s \ {First(s)} \in T
    BY <2>3
  <2> QED
    BY <2>1, <2>4
<1>4. N = Nat
  <2> HIDE DEF N
  <2>1. N \in SUBSET Nat
    BY DEF N
  <2> QED
    BY <1>2, <1>3, <2>1, NatSetInduction
<1> QED
  BY <1>1, <1>4

-----------------------------------------------------------------------------
(* Sums of weights over the subsets of a finite set: slots and units.        *)

IsSum(g, w, S) ==
    g = [s \in SUBSET S |-> IF s = {} THEN 0 ELSE w[First(s)] + g[s \ {First(s)}]]

SumFn(w, S) == CHOOSE g : IsSum(g, w, S)

\* The weights of the elements of S together.
Sum(w, S) == SumFn(w, S)[S]

\* One recursion defines one function.
LEMMA SumIsUnique ==
    ASSUME NEW S, IsFiniteSet(S), NEW w, NEW g, NEW h, IsSum(g, w, S), IsSum(h, w, S)
    PROVE  g = h
<1> DEFINE T == {s \in SUBSET S : g[s] = h[s]}
<1>1. {} \in T
  BY DEF IsSum
<1>2. \A s \in SUBSET S : s # {} /\ s \ {First(s)} \in T => s \in T
  <2> SUFFICES ASSUME NEW s \in SUBSET S, s # {}, s \ {First(s)} \in T PROVE s \in T
    OBVIOUS
  <2>1. g[s] = w[First(s)] + g[s \ {First(s)}]
    BY DEF IsSum
  <2>2. h[s] = w[First(s)] + h[s \ {First(s)}]
    BY DEF IsSum
  <2> QED
    BY <2>1, <2>2
<1>3. SUBSET S \subseteq T
  <2> HIDE DEF T
  <2> QED
    BY <1>1, <1>2, SubsetInduction
<1>4. \A s \in SUBSET S : g[s] = h[s]
  BY <1>3
<1> QED
  BY <1>4 DEF IsSum

\* The recursion of a sum up to the size n.
SumUpTo(g, w, S, n) ==
    /\ g \in [SUBSET S -> Nat]
    /\ \A s \in SUBSET S : Cardinality(s) <= n =>
          g[s] = IF s = {} THEN 0 ELSE w[First(s)] + g[s \ {First(s)}]

LEMMA SumsOfEverySize ==
    ASSUME NEW S, IsFiniteSet(S), NEW w \in [S -> Nat], NEW n \in Nat
    PROVE  \E g : SumUpTo(g, w, S, n)
<1> DEFINE N == {k \in Nat : \E g : SumUpTo(g, w, S, k)}
<1>1. \A s \in SUBSET S : IsFiniteSet(s) /\ Cardinality(s) \in Nat
  BY FS_Subset, FS_CardinalityType
<1>2. 0 \in N
  <2> DEFINE g == [s \in SUBSET S |-> 0]
  <2>1. ASSUME NEW s \in SUBSET S, Cardinality(s) <= 0 PROVE s = {}
    BY <1>1, <2>1, FS_EmptySet
  <2>2. SumUpTo(g, w, S, 0)
    BY <2>1 DEF SumUpTo
  <2> QED
    BY <2>2
<1>3. ASSUME NEW k \in N PROVE k + 1 \in N
  <2>1. PICK g : SumUpTo(g, w, S, k)
    OBVIOUS
  <2> DEFINE h == [s \in SUBSET S |-> IF s = {} THEN 0 ELSE w[First(s)] + g[s \ {First(s)}]]
  <2>2. h \in [SUBSET S -> Nat]
    <3> SUFFICES ASSUME NEW s \in SUBSET S, s # {} PROVE w[First(s)] + g[s \ {First(s)}] \in Nat
      OBVIOUS
    <3>1. First(s) \in S
      BY FirstIsIn
    <3>2. w[First(s)] \in Nat
      BY <3>1
    <3>3. g[s \ {First(s)}] \in Nat
      BY <2>1 DEF SumUpTo
    <3> QED
      BY <3>2, <3>3
  <2>3. \A s \in SUBSET S : Cardinality(s) <= k => h[s] = g[s]
    BY <2>1 DEF SumUpTo
  <2>4. ASSUME NEW s \in SUBSET S, Cardinality(s) <= k + 1, s # {}
        PROVE  h[s \ {First(s)}] = g[s \ {First(s)}]
    <3>1. First(s) \in s
      BY <2>4, FirstIsIn
    <3>2. Cardinality(s \ {First(s)}) = Cardinality(s) - 1
      BY <1>1, <3>1, FS_RemoveElement
    <3>3. Cardinality(s \ {First(s)}) <= k
      BY <1>1, <3>2, <2>4
    <3>4. s \ {First(s)} \in SUBSET S
      OBVIOUS
    <3> HIDE DEF h
    <3> QED
      BY <2>3, <3>3, <3>4
  <2>5. ASSUME NEW s \in SUBSET S, Cardinality(s) <= k + 1
        PROVE  h[s] = IF s = {} THEN 0 ELSE w[First(s)] + h[s \ {First(s)}]
    <3>1. h[s] = IF s = {} THEN 0 ELSE w[First(s)] + g[s \ {First(s)}]
      OBVIOUS
    <3> HIDE DEF h
    <3> QED
      BY <2>4, <2>5, <3>1
  <2>6. SumUpTo(h, w, S, k + 1)
    <3> HIDE DEF h
    <3> QED
      BY <2>2, <2>5 DEF SumUpTo
  <2> QED
    BY <2>6
<1>4. N = Nat
  <2> HIDE DEF N
  <2>1. N \in SUBSET Nat
    BY DEF N
  <2> QED
    BY <1>2, <1>3, <2>1, NatSetInduction
<1> QED
  BY <1>4

\* The sum of natural weights exists, and is natural on every subset.
LEMMA SumExists ==
    ASSUME NEW S, IsFiniteSet(S), NEW w \in [S -> Nat]
    PROVE  IsSum(SumFn(w, S), w, S) /\ SumFn(w, S) \in [SUBSET S -> Nat]
<1>1. Cardinality(S) \in Nat
  BY FS_CardinalityType
<1>2. PICK g : SumUpTo(g, w, S, Cardinality(S))
  BY <1>1, SumsOfEverySize
<1>3. \A s \in SUBSET S : Cardinality(s) <= Cardinality(S)
  BY FS_Subset
<1>4. IsSum(g, w, S)
  BY <1>2, <1>3 DEF SumUpTo, IsSum
<1>5. IsSum(SumFn(w, S), w, S)
  BY <1>4, Zenon DEF SumFn
<1>6. SumFn(w, S) = g
  BY <1>4, <1>5, SumIsUnique
<1> QED
  BY <1>2, <1>5, <1>6 DEF SumUpTo

\* What the sums over the subsets of S obey.
LEMMA SumSteps ==
    ASSUME NEW S, IsFiniteSet(S), NEW w \in [S -> Nat]
    PROVE  /\ SumFn(w, S)[{}] = 0
           /\ \A s \in SUBSET S : s # {} =>
                 /\ First(s) \in s
                 /\ s \ {First(s)} \in SUBSET S
                 /\ w[First(s)] \in Nat
                 /\ SumFn(w, S)[s \ {First(s)}] \in Nat
                 /\ SumFn(w, S)[s] = w[First(s)] + SumFn(w, S)[s \ {First(s)}]
<1> DEFINE g == SumFn(w, S)
<1>1. IsSum(g, w, S) /\ g \in [SUBSET S -> Nat]
  BY SumExists
<1> HIDE DEF g
<1>2. g[{}] = 0
  BY <1>1 DEF IsSum
<1>3. ASSUME NEW s \in SUBSET S, s # {}
      PROVE  /\ First(s) \in s
             /\ s \ {First(s)} \in SUBSET S
             /\ w[First(s)] \in Nat
             /\ g[s \ {First(s)}] \in Nat
             /\ g[s] = w[First(s)] + g[s \ {First(s)}]
  <2>1. First(s) \in s
    BY <1>3, FirstIsIn
  <2>2. s \ {First(s)} \in SUBSET S
    OBVIOUS
  <2>3. g[s] = w[First(s)] + g[s \ {First(s)}]
    BY <1>1, <1>3 DEF IsSum
  <2> QED
    BY <1>1, <2>1, <2>2, <2>3
<1> QED
  BY <1>2, <1>3 DEF g

\* One weight that grows makes the sum grow as much.
LEMMA SumGrows ==
    ASSUME NEW S, IsFiniteSet(S), NEW w \in [S -> Nat], NEW v \in [S -> Nat],
           NEW x \in S, NEW c \in Nat,
           v[x] = w[x] + c, \A y \in S : y # x => v[y] = w[y]
    PROVE  Sum(v, S) = Sum(w, S) + c
<1> DEFINE g == SumFn(w, S)
           h == SumFn(v, S)
           T == {s \in SUBSET S : g[s] \in Nat /\ h[s] = IF x \in s THEN g[s] + c ELSE g[s]}
<1>1. /\ g[{}] = 0
      /\ \A s \in SUBSET S : s # {} =>
            /\ First(s) \in s /\ s \ {First(s)} \in SUBSET S
            /\ w[First(s)] \in Nat /\ g[s \ {First(s)}] \in Nat
            /\ g[s] = w[First(s)] + g[s \ {First(s)}]
  BY SumSteps
<1>2. /\ h[{}] = 0
      /\ \A s \in SUBSET S : s # {} => h[s] = v[First(s)] + h[s \ {First(s)}]
  BY SumSteps
<1> HIDE DEF g, h
<1>3. {} \in T
  BY <1>1, <1>2
<1>4. \A s \in SUBSET S : s # {} /\ s \ {First(s)} \in T => s \in T
  <2> SUFFICES ASSUME NEW s \in SUBSET S, s # {}, s \ {First(s)} \in T PROVE s \in T
    OBVIOUS
  <2> DEFINE y == First(s)
             r == s \ {First(s)}
  <2>1. y \in s /\ y \in S /\ w[y] \in Nat /\ g[r] \in Nat /\ g[s] = w[y] + g[r]
    BY <1>1
  <2>2. h[s] = v[y] + h[r]
    BY <1>2
  <2>3. h[r] = IF x \in r THEN g[r] + c ELSE g[r]
    OBVIOUS
  <2>4. x \in r <=> x \in s /\ x # y
    OBVIOUS
  <2> HIDE DEF y, r
  <2>5. CASE x = y
    BY <2>1, <2>2, <2>3, <2>4, <2>5
  <2>6. CASE x # y
    <3>1. v[y] = w[y]
      BY <2>1, <2>6
    <3> QED
      BY <2>1, <2>2, <2>3, <2>4, <2>6, <3>1
  <2> QED
    BY <2>5, <2>6
<1>5. SUBSET S \subseteq T
  <2> HIDE DEF T
  <2> QED
    BY <1>3, <1>4, SubsetInduction
<1> QED
  BY <1>5 DEF Sum, g, h

\* A sum of natural numbers is one.
LEMMA SumIsNat ==
    ASSUME NEW S, IsFiniteSet(S), NEW w \in [S -> Nat]
    PROVE  Sum(w, S) \in Nat
<1>1. SumFn(w, S) \in [SUBSET S -> Nat] /\ S \in SUBSET S
  BY SumExists
<1> QED
  BY <1>1 DEF Sum

\* The sums of no, one and two weights.
LEMMA SmallSums ==
    /\ \A w : Sum(w, {}) = 0
    /\ \A a : \A w \in [{a} -> Nat] : Sum(w, {a}) = w[a]
    /\ \A a, b : \A w \in [{a, b} -> Nat] : a # b => Sum(w, {a, b}) = w[a] + w[b]
<1>1. ASSUME NEW w PROVE Sum(w, {}) = 0
  <2> DEFINE g == [s \in SUBSET {} |-> 0]
  <2>1. IsSum(g, w, {})
    BY DEF IsSum
  <2>2. IsSum(SumFn(w, {}), w, {})
    BY <2>1, Zenon DEF SumFn
  <2> HIDE DEF g
  <2>3. SumFn(w, {})[{}] = 0
    BY <2>2 DEF IsSum
  <2> QED
    BY <2>3 DEF Sum
<1>2. ASSUME NEW a, NEW w \in [{a} -> Nat] PROVE Sum(w, {a}) = w[a]
  <2>1. IsFiniteSet({a})
    BY FS_Singleton
  <2>2. First({a}) = a /\ {a} \ {a} = {}
    BY FirstIsIn
  <2>3. SumFn(w, {a})[{}] = 0 /\ SumFn(w, {a})[{a}] = w[a] + SumFn(w, {a})[{a} \ {a}]
    BY <2>1, <2>2, SumSteps
  <2> QED
    BY <2>2, <2>3 DEF Sum
<1>3. ASSUME NEW a, NEW b, a # b, NEW w \in [{a, b} -> Nat] PROVE Sum(w, {a, b}) = w[a] + w[b]
  <2>1. IsFiniteSet({a, b})
    <3>1. IsFiniteSet({a} \cup {b}) /\ {a} \cup {b} = {a, b}
      BY FS_Singleton, FS_AddElement
    <3> QED
      BY <3>1
  <2>2. First({a, b}) \in {a, b}
    BY FirstIsIn
  <2>3. ASSUME NEW x \in {a, b}, NEW y \in {a, b}, x # y, First({a, b}) = x
        PROVE  Sum(w, {a, b}) = w[x] + w[y]
    <3>1. {a, b} \ {x} = {y} /\ {y} \ {y} = {} /\ {y} \in SUBSET {a, b}
      BY <1>3, <2>3
    <3>5. First({y}) = y
      BY FirstIsIn
    <3>2. SumFn(w, {a, b})[{a, b}] = w[x] + SumFn(w, {a, b})[{y}]
      BY <2>1, <2>3, <3>1, SumSteps
    <3>3. SumFn(w, {a, b})[{y}] = w[y] + SumFn(w, {a, b})[{}]
      BY <2>1, <3>1, <3>5, SumSteps
    <3>4. SumFn(w, {a, b})[{}] = 0
      BY <2>1, SumSteps
    <3> QED
      BY <2>3, <3>2, <3>3, <3>4 DEF Sum
  <2> QED
    BY <1>3, <2>2, <2>3
<1> QED
  BY <1>1, <1>2, <1>3

-----------------------------------------------------------------------------
(* Reading a saved campaign.                                                 *)

Happenings == [kind : {"controlled-actor-expiry", "odd"}, for : Companions \cup {"hero"},
               status : {"pending", "processed"}]
Groups == [id : {"p"}, members : SUBSET (Companions \cup {"hero"}),
           leader : Companions \cup {"hero"}, viewpoint : Companions \cup {"hero", "odd"},
           mode : {"together"}]
Bodies == [profile : {"reviewed", "odd"}, environment : SavedCampaign!Weathers \cup {"odd"},
           created : Nat, due : Nat, state : {"fresh", "decayed"}, removed : BOOLEAN,
           harvested : BOOLEAN, species : {"dragonborn", "human"}]
Errands == [graph : {"whole", "odd", "none"}, done : BOOLEAN, current : 0..2, max : 1..1,
            due : -1..1, graphDue : -1..1, hidden : BOOLEAN, found : BOOLEAN]

SaveTyped ==
    /\ SavedCampaign!TypeOK
    /\ events \subseteq Happenings
    /\ savedParty \in Groups \cup {SavedCampaign!NoParty}
    /\ savedRemains \in Bodies \cup {SavedCampaign!NoRemains}
    /\ quest \in Errands
    /\ advance \in {"none", "pending", "consumed", "odd"}

\* What has been loaded reads as it is; only the fight of a hero whose conditions have
\* just been read as his death may still change.
Settled ==
    /\ SavedCampaign!Clock(clock) = clock
    /\ SavedCampaign!Actors = actors
    /\ SavedCampaign!Events = events
    /\ sustained \cap SavedCampaign!Gone = {}
    /\ SavedCampaign!Party = savedParty
    /\ SavedCampaign!Remains = savedRemains
    /\ SavedCampaign!Revived = hero
    /\ SavedCampaign!Quest = quest
    /\ SavedCampaign!Advance = advance
    /\ SavedCampaign!Fight = savedFight \/ hero.life = "dead"

SaveInv ==
    /\ SaveTyped
    /\ loaded => Settled
    /\ SavedCampaign!EveryoneAccounted
    /\ SavedCampaign!HeroWhole

LEMMA ClockSettles ==
    ASSUME SaveTyped, NEW c, c = SavedCampaign!Clock(clock)
    PROVE  c \in SavedCampaign!Clocks /\ SavedCampaign!Clock(c) = c /\ c.minutes \in Nat
           /\ c.weather \in SavedCampaign!Weathers
BY SaveAssumption DEF SaveTyped, SavedCampaign!TypeOK, SavedCampaign!Clocks, SavedCampaign!Clock,
   SavedCampaign!Weathers

LEMMA ActorSettles ==
    ASSUME NEW a \in [status : {"active", "odd", "dead", "dismissed"}, hp : 0 .. 1]
    PROVE  /\ SavedCampaign!Actor(a) \in [status : {"active", "dead", "dismissed"}, hp : 0 .. 1]
           /\ SavedCampaign!Actor(SavedCampaign!Actor(a)) = SavedCampaign!Actor(a)
BY DEF SavedCampaign!Actor, SavedCampaign!Terminal

LEMMA ActorsSettle ==
    ASSUME SaveTyped, SavedCampaign!Load
    PROVE  /\ actors' \in SavedCampaign!ActorTables /\ DOMAIN actors' = DOMAIN actors
           /\ SavedCampaign!Actors' = actors'
           /\ SavedCampaign!Gone' = SavedCampaign!Gone
           /\ SavedCampaign!Present' = SavedCampaign!Present
           /\ SavedCampaign!Gone \subseteq DOMAIN actors
           /\ \A i \in DOMAIN actors' : actors'[i].status # "active" <=> i \in SavedCampaign!Gone
<1>1. PICK is \in SUBSET Companions :
         actors \in [is -> [status : {"active", "odd", "dead", "dismissed"}, hp : 0 .. 1]]
  BY DEF SaveTyped, SavedCampaign!TypeOK, SavedCampaign!ActorTables
<1>2. actors' = [i \in is |-> SavedCampaign!Actor(actors[i])]
  BY <1>1 DEF SavedCampaign!Load, SavedCampaign!Actors
<1>3. \A i \in is : /\ actors'[i] \in [status : {"active", "dead", "dismissed"}, hp : 0 .. 1]
                    /\ SavedCampaign!Actor(actors'[i]) = actors'[i]
  BY <1>1, <1>2, ActorSettles
<1>4. actors' \in [is -> [status : {"active", "odd", "dead", "dismissed"}, hp : 0 .. 1]]
  BY <1>2, <1>3
<1>5. SavedCampaign!Actors' = actors' /\ SavedCampaign!Actors = actors'
  BY <1>1, <1>2, <1>3 DEF SavedCampaign!Actors
<1>6. SavedCampaign!Gone' = SavedCampaign!Gone
  BY <1>1, <1>2, <1>5 DEF SavedCampaign!Gone
<1> QED
  BY <1>1, <1>2, <1>4, <1>5, <1>6 DEF SavedCampaign!ActorTables, SavedCampaign!Present, SavedCampaign!Gone

LEMMA EventsSettle ==
    ASSUME SaveTyped, SavedCampaign!Load
    PROVE  /\ events' \subseteq Happenings
           /\ SavedCampaign!Events' = events'
           /\ \A e \in events' : e.for \in SavedCampaign!Gone => e.status = "processed"
<1> DEFINE Read(e) == [e EXCEPT !.status = IF @ = "processed" THEN @ ELSE "pending"]
<1>1. \A e \in Happenings : /\ Read(e) \in Happenings /\ Read(Read(e)) = Read(e)
                            /\ Read(e).kind = e.kind /\ Read(e).for = e.for
  BY DEF Happenings
<1>2. events' = {e \in SavedCampaign!Known(events) :
                     ~(e.status = "pending" /\ e.for \in SavedCampaign!Gone)}
  BY DEF SavedCampaign!Load, SavedCampaign!Events
<1>3. \A e \in events' : /\ e \in Happenings /\ Read(e) = e /\ e.kind # "odd"
                         /\ ~(e.status = "pending" /\ e.for \in SavedCampaign!Gone)
  <2> SUFFICES ASSUME NEW e \in events'
               PROVE  /\ e \in Happenings /\ Read(e) = e /\ e.kind # "odd"
                      /\ ~(e.status = "pending" /\ e.for \in SavedCampaign!Gone)
    OBVIOUS
  <2>1. PICK x \in events : e = Read(x) /\ x.kind # "odd"
    BY <1>2 DEF SavedCampaign!Known
  <2>2. x \in Happenings
    BY DEF SaveTyped
  <2> HIDE DEF Read
  <2> QED
    BY <1>1, <1>2, <2>1, <2>2
<1>4. SavedCampaign!Gone' = SavedCampaign!Gone
  BY ActorsSettle
<1>5. SavedCampaign!Known(events') = events'
  <2>1. SavedCampaign!Known(events') = {Read(e) : e \in {x \in events' : x.kind # "odd"}}
    BY DEF SavedCampaign!Known
  <2> HIDE DEF Read
  <2> QED
    BY <1>3, <2>1
<1>6. SavedCampaign!Events' = events'
  <2>1. SavedCampaign!Events' = {e \in SavedCampaign!Known(events') :
                                   ~(e.status = "pending" /\ e.for \in SavedCampaign!Gone)}
    BY <1>4 DEF SavedCampaign!Events, SavedCampaign!Known
  <2> QED
    BY <1>3, <1>5, <2>1
<1>7. \A e \in events' : e.for \in SavedCampaign!Gone => e.status = "processed"
  BY <1>3 DEF Happenings
<1> QED
  BY <1>3, <1>6, <1>7

LEMMA PartySettles ==
    ASSUME SaveTyped, SavedCampaign!Load
    PROVE  /\ savedParty' \in Groups \cup {SavedCampaign!NoParty}
           /\ SavedCampaign!Party' = savedParty'
           /\ savedParty'.id # "absent" =>
                 /\ SavedCampaign!Present \subseteq savedParty'.members
                 /\ {savedParty'.leader, savedParty'.viewpoint} \subseteq savedParty'.members
<1> DEFINE everyone == {"hero"} \cup DOMAIN actors
           present == SavedCampaign!Present
<1>1. /\ DOMAIN actors \subseteq Companions /\ DOMAIN actors' = DOMAIN actors
      /\ SavedCampaign!Present' = present /\ present \subseteq DOMAIN actors
  <2>1. actors' \in SavedCampaign!ActorTables /\ DOMAIN actors' = DOMAIN actors
        /\ SavedCampaign!Present' = SavedCampaign!Present
    BY ActorsSettle
  <2> QED
    BY <2>1 DEF SavedCampaign!ActorTables, SavedCampaign!Present
<1>2. savedParty' = SavedCampaign!Party
  BY DEF SavedCampaign!Load
<1>3. CASE savedParty = SavedCampaign!NoParty
  <2>1. savedParty' = SavedCampaign!NoParty
    BY <1>2, <1>3 DEF SavedCampaign!Party, SavedCampaign!NoParty
  <2> QED
    BY <2>1 DEF SavedCampaign!Party, SavedCampaign!NoParty
<1>4. CASE savedParty \in Groups
  <2>1. PICK ms : ms = (savedParty.members \cap everyone) \cup {"hero"} \cup present
    OBVIOUS
  <2>2. PICK first : first = IF savedParty.leader \in ms THEN savedParty.leader ELSE "hero"
    OBVIOUS
  <2>3. savedParty' = [savedParty EXCEPT !.members = ms, !.leader = first,
                           !.viewpoint = IF @ \in ms THEN @ ELSE first,
                           !.mode = IF @ = "split" THEN @ ELSE "together"]
    BY <1>2, <1>4, <2>1, <2>2
       DEF SavedCampaign!Party, SavedCampaign!Members, SavedCampaign!Hero, Groups
  <2>4. "hero" \in ms /\ ms \subseteq everyone /\ present \subseteq ms /\ first \in ms
    BY <1>1, <2>1, <2>2
  <2>5. /\ savedParty' \in Groups /\ savedParty'.members = ms /\ savedParty'.leader = first
        /\ savedParty'.viewpoint \in ms /\ savedParty'.id = "p" /\ savedParty'.mode = "together"
    <3> HIDE DEF present
    <3> QED
      BY <1>1, <1>4, <2>3, <2>4 DEF Groups
  <2>6. SavedCampaign!Members(savedParty)' = ms
    BY <1>1, <2>1, <2>4, <2>5 DEF SavedCampaign!Members, SavedCampaign!Hero
  <2>7. SavedCampaign!Party' = [savedParty' EXCEPT !.members = ms, !.leader = first,
                           !.viewpoint = IF @ \in ms THEN @ ELSE first,
                           !.mode = IF @ = "split" THEN @ ELSE "together"]
    BY <2>4, <2>5, <2>6 DEF SavedCampaign!Party
  <2>8. SavedCampaign!Party' = savedParty'
    BY <2>5, <2>7 DEF Groups
  <2> QED
    BY <2>4, <2>5, <2>8
<1> QED
  BY <1>3, <1>4 DEF SaveTyped

LEMMA RemainsSettle ==
    ASSUME SaveTyped, SavedCampaign!Load
    PROVE  /\ savedRemains' \in Bodies \cup {SavedCampaign!NoRemains}
           /\ SavedCampaign!Remains' = savedRemains'
<1>1. SavedCampaign!Clock(clock) = clock' /\ SavedCampaign!Clock(clock') = clock'
      /\ clock'.minutes \in Nat /\ clock'.weather \in SavedCampaign!Weathers
  BY ClockSettles DEF SavedCampaign!Load
<1>2. savedRemains' = SavedCampaign!Remains
  BY DEF SavedCampaign!Load
<1>3. CASE savedRemains = SavedCampaign!NoRemains
  <2>1. savedRemains' = SavedCampaign!NoRemains
    BY <1>2, <1>3 DEF SavedCampaign!Remains, SavedCampaign!NoRemains
  <2> QED
    BY <2>1 DEF SavedCampaign!Remains, SavedCampaign!NoRemains
<1>4. CASE savedRemains \in Bodies
  <2>1. savedRemains' = SavedCampaign!Corpse(savedRemains)
    BY <1>2, <1>4 DEF SavedCampaign!Remains, Bodies
  <2>2. PICK place \in SavedCampaign!Weathers :
           place = IF savedRemains.environment \in SavedCampaign!Weathers
                   THEN savedRemains.environment ELSE clock'.weather
    BY <1>1
  <2>3. PICK since \in Nat :
           since = IF SavedCampaign!Recorded(savedRemains) THEN savedRemains.created ELSE clock'.minutes
    BY <1>1, <1>4 DEF Bodies
  <2>4. PICK due \in Nat : /\ due >= since
           /\ due = IF SavedCampaign!Recorded(savedRemains) /\ savedRemains.due >= since
                    THEN savedRemains.due ELSE since + DecayIn[place]
    <3>1. DecayIn[place] \in Nat
      BY SaveAssumption DEF SavedCampaign!Weathers
    <3> QED
      BY <1>4, <2>3, <3>1 DEF Bodies
  <2>5. PICK state \in {"fresh", "decayed"} :
           state = IF SavedCampaign!Recorded(savedRemains) /\ savedRemains.state = "decayed"
                   THEN "decayed" ELSE "fresh"
    OBVIOUS
  <2>6. savedRemains' = [savedRemains EXCEPT !.profile = "reviewed", !.environment = place,
            !.created = since, !.due = due, !.state = state,
            !.removed = @ /\ state = "decayed",
            !.harvested = @ /\ savedRemains.species = "dragonborn"]
    BY <1>1, <2>1, <2>2, <2>3, <2>4, <2>5 DEF SavedCampaign!Corpse
  <2>7. /\ savedRemains' \in Bodies /\ savedRemains'.profile = "reviewed"
        /\ savedRemains'.environment = place /\ savedRemains'.created = since
        /\ savedRemains'.due = due /\ savedRemains'.state = state
        /\ savedRemains'.removed => state = "decayed"
        /\ savedRemains'.harvested => savedRemains'.species = "dragonborn"
    BY <1>4, <2>6 DEF Bodies
  <2>8. SavedCampaign!Remains' = [savedRemains' EXCEPT !.profile = "reviewed", !.environment = place,
            !.created = since, !.due = due, !.state = state,
            !.removed = @ /\ state = "decayed",
            !.harvested = @ /\ savedRemains'.species = "dragonborn"]
    BY <1>1, <2>4, <2>7
       DEF SavedCampaign!Remains, SavedCampaign!Corpse, SavedCampaign!Recorded, Bodies
  <2>9. SavedCampaign!Remains' = savedRemains'
    BY <2>7, <2>8 DEF Bodies
  <2> QED
    BY <2>7, <2>9
<1> QED
  BY <1>3, <1>4 DEF SaveTyped

LEMMA HeroSettles ==
    ASSUME SaveTyped, SavedCampaign!Load
    PROVE  /\ hero' \in SavedCampaign!Heroes
           /\ SavedCampaign!Revived' = hero'
           /\ hero'.life \in {"conscious", "dying", "stable", "dead"}
           /\ (hero'.hp > 0) = (hero'.life = "conscious")
           /\ hero'.life = "dead" => "stable" \notin hero'.conditions
           /\ "dead" \in hero'.conditions => hero'.life = "dead"
<1> DEFINE lives == {"conscious", "dying", "stable", "dead"}
<1>1. hero \in SavedCampaign!Heroes
  BY DEF SaveTyped, SavedCampaign!TypeOK
<1>2. PICK h \in SavedCampaign!Heroes : h.life \in lives /\ hero' = SavedCampaign!Consistent(h)
  <2>1. SavedCampaign!LifeRead(hero) \in lives
    BY <1>1 DEF SavedCampaign!LifeRead, SavedCampaign!Heroes
  <2>2. [hero EXCEPT !.life = SavedCampaign!LifeRead(hero)] \in SavedCampaign!Heroes
    BY <1>1, <2>1 DEF SavedCampaign!Heroes
  <2>3. [hero EXCEPT !.life = SavedCampaign!LifeRead(hero)].life \in lives
    BY <1>1, <2>1 DEF SavedCampaign!Heroes
  <2> QED
    BY <2>2, <2>3 DEF SavedCampaign!Load, SavedCampaign!Revived
<1> HIDE DEF lives
<1>3. /\ hero' \in SavedCampaign!Heroes /\ hero'.life \in lives
      /\ (hero'.hp > 0) = (hero'.life = "conscious")
      /\ hero'.life = "dead" => "stable" \notin hero'.conditions
      /\ "dead" \in hero'.conditions => hero'.life = "dead"
      /\ SavedCampaign!Consistent(hero') = hero'
  <2>1. PICK awake : awake = h.conditions \ {"unconscious", "stable"}
    OBVIOUS
  <2>2. CASE h.life = "dead" \/ "dead" \in h.conditions
    <3>1. hero' = [h EXCEPT !.life = "dead", !.hp = 0, !.conditions = awake]
      BY <1>2, <2>1, <2>2 DEF SavedCampaign!Consistent
    <3>2. hero'.conditions \ {"unconscious", "stable"} = awake
      BY <2>1, <3>1 DEF SavedCampaign!Heroes
    <3>3. SavedCampaign!Consistent(hero') = [hero' EXCEPT !.life = "dead", !.hp = 0, !.conditions = awake]
      BY <3>1, <3>2 DEF SavedCampaign!Consistent, SavedCampaign!Heroes
    <3>a. hero' = [life |-> "dead", hp |-> 0, successes |-> h.successes, conditions |-> awake]
      BY <3>1 DEF SavedCampaign!Heroes
    <3>b. h.successes \in {0, 3} /\ awake \in SUBSET {"dead", "stable", "unconscious"}
      BY <2>1 DEF SavedCampaign!Heroes
    <3>4. /\ hero' \in SavedCampaign!Heroes /\ hero'.life = "dead" /\ hero'.hp = 0
          /\ hero'.conditions = awake
      BY <3>a, <3>b DEF SavedCampaign!Heroes
    <3>5. SavedCampaign!Consistent(hero') = hero'
      <4>1. PICK x \in SavedCampaign!Heroes : x = hero' /\ x.life = "dead" /\ x.hp = 0 /\ x.conditions = awake
        BY <3>4
      <4>2. [x EXCEPT !.life = "dead", !.hp = 0, !.conditions = awake] = x
        BY <4>1 DEF SavedCampaign!Heroes
      <4> QED
        BY <3>3, <4>1, <4>2
    <3> QED
      BY <2>1, <3>4, <3>5 DEF lives
  <2>3. CASE ~(h.life = "dead" \/ "dead" \in h.conditions) /\ h.hp > 0
    <3>1. hero' = [h EXCEPT !.life = "conscious", !.successes = 0, !.conditions = awake]
      BY <1>2, <2>1, <2>3 DEF SavedCampaign!Consistent
    <3>2. hero'.conditions \ {"unconscious", "stable"} = awake
      BY <2>1, <3>1 DEF SavedCampaign!Heroes
    <3>3. hero'.life = "conscious" /\ hero'.hp > 0 /\ "dead" \notin hero'.conditions
      BY <2>1, <2>3, <3>1 DEF SavedCampaign!Heroes
    <3>4. SavedCampaign!Consistent(hero') = [hero' EXCEPT !.life = "conscious", !.successes = 0, !.conditions = awake]
      BY <3>2, <3>3 DEF SavedCampaign!Consistent
    <3> QED
      BY <2>1, <2>3, <3>1, <3>4 DEF SavedCampaign!Heroes, lives
  <2>4. CASE ~(h.life = "dead" \/ "dead" \in h.conditions) /\ ~(h.hp > 0)
    <3>1. PICK read : read = IF "stable" \in h.conditions \/ h.successes >= 3 THEN "stable" ELSE "dying"
      OBVIOUS
    <3>2. hero' = [h EXCEPT !.life = read]
      BY <1>2, <2>4, <3>1 DEF SavedCampaign!Consistent
    <3>3. /\ hero'.conditions = h.conditions /\ hero'.successes = h.successes
          /\ hero'.hp = h.hp /\ hero'.life = read /\ read \in {"stable", "dying"}
      BY <3>1, <3>2 DEF SavedCampaign!Heroes
    <3>4. SavedCampaign!Consistent(hero') = [hero' EXCEPT !.life = read]
      BY <2>4, <3>1, <3>3 DEF SavedCampaign!Consistent
    <3>5. hero' \in SavedCampaign!Heroes
      BY <3>2, <3>3 DEF SavedCampaign!Heroes
    <3>6. SavedCampaign!Consistent(hero') = hero'
      BY <3>3, <3>4, <3>5 DEF SavedCampaign!Heroes
    <3>7. ~(hero'.hp > 0) /\ "dead" \notin hero'.conditions
      BY <2>4, <3>3
    <3> QED
      BY <3>3, <3>5, <3>6, <3>7 DEF lives
  <2> QED
    BY <2>2, <2>3, <2>4
<1>4. SavedCampaign!Revived' = hero'
  <2>1. SavedCampaign!Revived' = SavedCampaign!Consistent([hero' EXCEPT !.life = SavedCampaign!LifeRead(hero')])
    BY DEF SavedCampaign!Revived
  <2>2. SavedCampaign!LifeRead(hero') = hero'.life
    BY <1>3 DEF SavedCampaign!LifeRead, lives
  <2>3. [hero' EXCEPT !.life = hero'.life] = hero'
    BY <1>3 DEF SavedCampaign!Heroes
  <2> QED
    BY <1>3, <2>1, <2>2, <2>3
<1> QED
  BY <1>3, <1>4 DEF lives

LEMMA FightSettles ==
    ASSUME SaveTyped, SavedCampaign!Load
    PROVE  /\ savedFight' \in SavedCampaign!Fights
           /\ SavedCampaign!Fight' = savedFight' \/ hero'.life = "dead"
<1>1. savedFight \in SavedCampaign!Fights
  BY DEF SaveTyped, SavedCampaign!TypeOK
<1>2. PICK kept \in BOOLEAN :
         /\ savedFight' = [savedFight EXCEPT !.geometry = "sound",
                               !.zones = IF kept THEN @ ELSE "none",
                               !.issue = SavedCampaign!Alerted(savedFight, kept),
                               !.reaction = SavedCampaign!Reaction(@)]
         /\ kept => savedFight.zones # "odd"
                    /\ (savedFight.zones = "active" => savedFight.status = "active")
  BY DEF SavedCampaign!Load, SavedCampaign!Fight
<1>3. /\ savedFight' \in SavedCampaign!Fights
      /\ savedFight'.geometry = "sound" /\ savedFight'.zones # "odd"
      /\ savedFight'.zones = "active" => savedFight'.status = "active"
      /\ savedFight'.reaction # "odd"
  <2> DEFINE alert == SavedCampaign!Alerted(savedFight, kept)
             zone == IF kept THEN savedFight.zones ELSE "none"
             asked == SavedCampaign!Reaction(savedFight.reaction)
  <2>1. alert \in BOOLEAN
    BY DEF SavedCampaign!Alerted
  <2>2. zone \in {"none", "active", "over"} /\ (zone = "active" => savedFight.status = "active")
    BY <1>1, <1>2 DEF SavedCampaign!Fights
  <2>3. asked \in {"none", "offered"}
    BY <1>1 DEF SavedCampaign!Fights, SavedCampaign!Reaction
  <2>4. savedFight' = [savedFight EXCEPT !.geometry = "sound", !.zones = zone, !.issue = alert,
                            !.reaction = asked]
    BY <1>2
  <2> HIDE DEF alert, zone, asked
  <2>5. savedFight' = [status |-> savedFight.status, zones |-> zone, geometry |-> "sound",
                       issue |-> alert, reaction |-> asked]
    BY <1>1, <2>4 DEF SavedCampaign!Fights
  <2>6. savedFight.status \in {"active", "ended"}
    BY <1>1 DEF SavedCampaign!Fights
  <2> QED
    BY <2>1, <2>2, <2>3, <2>5, <2>6 DEF SavedCampaign!Fights
<1>4. ASSUME hero'.life # "dead" PROVE SavedCampaign!Fight' = savedFight'
  <2>1. hero'.life \in {"conscious", "dying", "stable", "dead"}
    BY HeroSettles
  <2>2. SavedCampaign!LifeRead(hero') = hero'.life
    BY <2>1 DEF SavedCampaign!LifeRead
  <2>3. SavedCampaign!Fight' = [savedFight' EXCEPT !.geometry = "sound",
                            !.zones = @,
                            !.issue = SavedCampaign!Alerted(savedFight', TRUE),
                            !.reaction = SavedCampaign!Reaction(@)]
    BY <1>3, <1>4, <2>2 DEF SavedCampaign!Fight
  <2>4. SavedCampaign!Alerted(savedFight', TRUE) <=> savedFight'.issue
    BY DEF SavedCampaign!Alerted
  <2>5. SavedCampaign!Alerted(savedFight', TRUE) = savedFight'.issue
    BY <1>3, <2>4 DEF SavedCampaign!Alerted, SavedCampaign!Fights
  <2> QED
    BY <1>3, <2>3, <2>5 DEF SavedCampaign!Fights, SavedCampaign!Reaction
<1> QED
  BY <1>3, <1>4

LEMMA QuestSettles ==
    ASSUME SaveTyped, SavedCampaign!Load
    PROVE  quest' \in Errands /\ SavedCampaign!Quest' = quest'
           /\ advance' \in {"none", "pending", "consumed", "odd"}
           /\ SavedCampaign!Advance' = advance'
<1>1. quest \in Errands /\ quest' = SavedCampaign!Quest
  BY DEF SaveTyped, SavedCampaign!Load
<1>a. /\ quest = [graph |-> quest.graph, done |-> quest.done, current |-> quest.current,
                  max |-> quest.max, due |-> quest.due, graphDue |-> quest.graphDue,
                  hidden |-> quest.hidden, found |-> quest.found]
      /\ quest.graph \in {"whole", "odd", "none"} /\ quest.done \in BOOLEAN
      /\ quest.current \in 0..2 /\ quest.max = 1 /\ quest.due \in -1..1
      /\ quest.graphDue \in -1..1 /\ quest.hidden \in BOOLEAN /\ quest.found \in BOOLEAN
  BY <1>1 DEF Errands
<1>b. advance' \in {"none", "pending", "consumed", "odd"} /\ SavedCampaign!Advance' = advance'
  BY DEF SaveTyped, SavedCampaign!Load, SavedCampaign!Advance
<1>2. CASE quest.graph # "whole"
  <2>1. quest' = [graph |-> "none", done |-> FALSE, current |-> 0,
                  max |-> quest.max, due |-> quest.due, graphDue |-> -1,
                  hidden |-> quest.hidden, found |-> quest.found]
    BY <1>1, <1>a, <1>2 DEF SavedCampaign!Quest
  <2>2. quest' \in Errands
    BY <1>a, <2>1 DEF Errands
  <2>a. quest'.graph # "whole"
    BY <2>1
  <2>b. SavedCampaign!Quest' = [graph |-> "none", done |-> FALSE, current |-> 0,
                  max |-> quest.max, due |-> quest.due, graphDue |-> -1,
                  hidden |-> quest.hidden, found |-> quest.found]
    BY <1>a, <2>1, <2>2, <2>a DEF SavedCampaign!Quest
  <2>3. SavedCampaign!Quest' = quest'
    BY <2>1, <2>b
  <2> QED
    BY <1>b, <2>2, <2>3
<1>3. CASE quest.graph = "whole"
  <2> DEFINE due == IF quest.due # -1 THEN quest.due ELSE quest.graphDue
             graphDue == IF quest.graphDue # -1 THEN quest.graphDue ELSE due
             current == SavedCampaign!Least(quest.current, quest.max)
             found == quest.found \/ ~quest.hidden
  <2>1. /\ due \in -1..1 /\ graphDue \in -1..1 /\ (graphDue = -1 => due = -1)
        /\ (IF due # -1 THEN due ELSE graphDue) = due
        /\ current \in 0..1 /\ SavedCampaign!Least(current, quest.max) = current
    BY <1>a DEF SavedCampaign!Least
  <2>2. found \in BOOLEAN
    OBVIOUS
  <2>3. (found \/ ~quest.hidden) <=> found
    OBVIOUS
  <2>4. quest' = [quest EXCEPT !.current = current, !.due = due, !.graphDue = graphDue, !.found = found]
    BY <1>1, <1>3 DEF SavedCampaign!Quest
  <2>5. (found \/ ~quest.hidden) = found
    BY <2>2, <2>3
  <2> HIDE DEF due, graphDue, current, found
  <2>6. quest' = [graph |-> "whole", done |-> quest.done, current |-> current,
                  max |-> quest.max, due |-> due, graphDue |-> graphDue,
                  hidden |-> quest.hidden, found |-> found]
    BY <1>1, <1>a, <1>3, <2>4
  <2>7. quest' \in Errands
    BY <1>a, <2>1, <2>2, <2>6 DEF Errands
  <2>8. SavedCampaign!Quest' = [quest' EXCEPT !.current = current, !.due = due,
                      !.graphDue = graphDue, !.found = found]
    <3>1. SavedCampaign!Quest' = [quest' EXCEPT !.current = SavedCampaign!Least(current, quest.max),
                      !.due = IF due # -1 THEN due ELSE graphDue,
                      !.graphDue = IF graphDue # -1 THEN graphDue ELSE (IF due # -1 THEN due ELSE graphDue),
                      !.found = found \/ ~quest.hidden]
      <4>1. /\ quest'.graph = "whole" /\ quest'.current = current /\ quest'.max = quest.max
            /\ quest'.due = due /\ quest'.graphDue = graphDue /\ quest'.hidden = quest.hidden
            /\ quest'.found = found
        BY <2>6
      <4> QED
        BY <4>1, <2>6 DEF SavedCampaign!Quest
    <3>2. (IF graphDue # -1 THEN graphDue ELSE due) = graphDue
      BY <2>1
    <3> QED
      BY <2>1, <2>5, <3>1, <3>2
  <2>9. [quest' EXCEPT !.current = current, !.due = due, !.graphDue = graphDue, !.found = found]
        = quest'
    <3>1. /\ quest'.current = current /\ quest'.due = due /\ quest'.graphDue = graphDue
          /\ quest'.found = found
      BY <2>6
    <3>2. [quest' EXCEPT !.current = current] = quest'
      BY <2>7, <3>1 DEF Errands
    <3>3. [quest' EXCEPT !.due = due] = quest'
      BY <2>7, <3>1 DEF Errands
    <3>4. [quest' EXCEPT !.graphDue = graphDue] = quest'
      BY <2>7, <3>1 DEF Errands
    <3>5. [quest' EXCEPT !.found = found] = quest'
      BY <2>2, <2>7, <3>1 DEF Errands
    <3> QED
      BY <3>2, <3>3, <3>4, <3>5
  <2> QED
    BY <1>b, <2>6, <2>7, <2>8, <2>9
<1> QED
  BY <1>2, <1>3

LEMMA LoadSettles ==
    ASSUME SaveTyped, SavedCampaign!Load
    PROVE  SaveInv'
<1>1. /\ clock' \in SavedCampaign!Clocks /\ SavedCampaign!Clock(clock') = clock'
  BY ClockSettles DEF SavedCampaign!Load
<1>2. sustained' = sustained \ SavedCampaign!Gone /\ loaded' = TRUE /\ sustained \subseteq DOMAIN actors
  BY DEF SavedCampaign!Load, SaveTyped, SavedCampaign!TypeOK
<1>3. savedParty' = SavedCampaign!NoParty \/ savedParty'.members \subseteq Companions \cup {"hero"}
  BY PartySettles DEF Groups
<1>4. SaveTyped'
  BY <1>1, <1>2, <1>3, ActorsSettle, EventsSettle, PartySettles, RemainsSettle, HeroSettles,
     FightSettles, QuestSettles DEF SaveTyped, SavedCampaign!TypeOK, SavedCampaign!Hero
<1>5. Settled'
  BY <1>1, <1>2, ActorsSettle, EventsSettle, PartySettles, RemainsSettle, HeroSettles,
     FightSettles, QuestSettles DEF Settled
<1>6. SavedCampaign!EveryoneAccounted'
  <2>1. savedParty'.id # "absent" =>
           /\ {i \in DOMAIN actors' : actors'[i].status = "active"} \subseteq savedParty'.members
           /\ {savedParty'.leader, savedParty'.viewpoint} \subseteq savedParty'.members
    BY ActorsSettle, PartySettles DEF SavedCampaign!Present
  <2>2. \A i \in DOMAIN actors' : actors'[i].status # "active" =>
           /\ i \notin sustained'
           /\ \A e \in events' : e.for = i => e.status = "processed"
    BY <1>2, ActorsSettle, EventsSettle
  <2> QED
    BY <2>1, <2>2 DEF SavedCampaign!EveryoneAccounted
<1>7. SavedCampaign!HeroWhole'
  BY HeroSettles DEF SavedCampaign!HeroWhole
<1> QED
  BY <1>4, <1>5, <1>6, <1>7 DEF SaveInv

LEMMA TravelKeeps ==
    ASSUME SaveInv, SavedCampaign!Travel
    PROVE  SaveInv' /\ SavedCampaign!DecayIsSettled
<1>1. /\ clock' \in SavedCampaign!Clocks /\ loaded' = FALSE
      /\ UNCHANGED <<hero, savedFight, events, actors, sustained, savedParty, quest, advance>>
  <2>1. clock.minutes \in -1 .. MaxMinutes
    BY DEF SaveInv, SaveTyped, SavedCampaign!TypeOK, SavedCampaign!Clocks
  <2>2. PICK w \in SavedCampaign!Weathers : clock' = [minutes |-> clock.minutes + 1, weather |-> w]
    BY DEF SavedCampaign!Travel
  <2>3. clock.minutes + 1 \in -1 .. MaxMinutes
    BY <2>1, SaveAssumption DEF SavedCampaign!Travel
  <2> QED
    BY <2>2, <2>3 DEF SavedCampaign!Travel, SavedCampaign!Clocks
<1>2. /\ savedRemains' \in Bodies \cup {SavedCampaign!NoRemains}
      /\ savedRemains.profile = "reviewed" => savedRemains'.due = savedRemains.due
  <2>1. CASE savedRemains' = savedRemains
    BY <2>1 DEF SaveInv, SaveTyped
  <2>2. CASE savedRemains' # savedRemains
    <3>1. savedRemains.profile # "absent" /\ savedRemains' = [savedRemains EXCEPT !.state = "decayed"]
      BY <2>2 DEF SavedCampaign!Travel
    <3>2. savedRemains \in Bodies
      BY <3>1 DEF SaveInv, SaveTyped, SavedCampaign!NoRemains
    <3> QED
      BY <3>1, <3>2 DEF Bodies
  <2> QED
    BY <2>1, <2>2
<1>3. SaveTyped'
  BY <1>1, <1>2 DEF SaveInv, SaveTyped, SavedCampaign!TypeOK
<1> QED
  BY <1>1, <1>2, <1>3
     DEF SaveInv, SavedCampaign!EveryoneAccounted, SavedCampaign!HeroWhole, SavedCampaign!DecayIsSettled

LEMMA FallKeeps ==
    ASSUME SaveInv, NEW i \in Companions, SavedCampaign!Fall(i)
    PROVE  SaveInv'
<1>1. PICK is \in SUBSET Companions :
         actors \in [is -> [status : {"active", "odd", "dead", "dismissed"}, hp : 0 .. 1]]
  BY DEF SaveInv, SaveTyped, SavedCampaign!TypeOK, SavedCampaign!ActorTables
<1>2. actors' = [actors EXCEPT ![i].hp = 0, ![i].status = "dead"] /\ i \in is
  BY <1>1 DEF SavedCampaign!Fall, SavedCampaign!Present
<1>3. actors' \in [is -> [status : {"active", "odd", "dead", "dismissed"}, hp : 0 .. 1]]
  <2>1. PICK fallen : fallen = [actors EXCEPT ![i].hp = 0]
    OBVIOUS
  <2>2. fallen \in [is -> [status : {"active", "odd", "dead", "dismissed"}, hp : 0 .. 1]]
    BY <1>1, <1>2, <2>1
  <2>3. actors' = [fallen EXCEPT ![i].status = "dead"]
    BY <1>2, <2>1
  <2>4. PICK b : b = [fallen[i] EXCEPT !.status = "dead"]
    OBVIOUS
  <2>5. b \in [status : {"active", "odd", "dead", "dismissed"}, hp : 0 .. 1]
    BY <1>2, <2>2, <2>4
  <2>6. actors' = [fallen EXCEPT ![i] = b]
    BY <2>3, <2>4
  <2> QED
    BY <2>2, <2>5, <2>6
<1>4. /\ actors' \in SavedCampaign!ActorTables /\ DOMAIN actors' = DOMAIN actors
      /\ sustained' \subseteq DOMAIN actors' /\ events' \subseteq Happenings
  BY <1>1, <1>3 DEF SavedCampaign!ActorTables, SavedCampaign!Fall, SaveInv, SaveTyped, SavedCampaign!TypeOK
<1>5. SaveTyped' /\ loaded' = FALSE
  BY <1>4 DEF SavedCampaign!Fall, SaveInv, SaveTyped, SavedCampaign!TypeOK
<1> QED
  BY <1>5 DEF SaveInv, SavedCampaign!EveryoneAccounted, SavedCampaign!HeroWhole

LEMMA ImproviseKeeps ==
    ASSUME SaveInv, NEW c \in {"dead", "stable", "unconscious"}, SavedCampaign!Improvise(c)
    PROVE  SaveInv'
<1>1. hero' \in SavedCampaign!Heroes
  BY DEF SavedCampaign!Improvise, SaveInv, SaveTyped, SavedCampaign!TypeOK, SavedCampaign!Heroes
<1>2. SaveTyped' /\ loaded' = FALSE
  BY <1>1 DEF SavedCampaign!Improvise, SaveInv, SaveTyped, SavedCampaign!TypeOK
<1> QED
  BY <1>2 DEF SaveInv, SavedCampaign!EveryoneAccounted, SavedCampaign!HeroWhole

\* Whatever is read, decays stay, and zones go only with an issue.
LEMMA LoadKeepsPromises ==
    ASSUME SaveInv, SavedCampaign!Load
    PROVE  SavedCampaign!LoadsOnce /\ SavedCampaign!DecayIsSettled /\ SavedCampaign!ZonesLeaveAnIssue
<1>1. SavedCampaign!LoadsOnce
  <2> SUFFICES ASSUME loaded
               PROVE  /\ UNCHANGED <<hero, clock, events, actors, sustained, savedParty,
                                     savedRemains, quest, advance>>
                      /\ savedFight' # savedFight => hero.life = "dead"
    BY DEF SavedCampaign!LoadsOnce
  <2>1. Settled
    BY DEF SaveInv
  <2> QED
    BY <2>1 DEF SavedCampaign!Load, Settled
<1>2. SavedCampaign!DecayIsSettled
  <2> SUFFICES ASSUME savedRemains.profile = "reviewed", savedRemains.due >= savedRemains.created
               PROVE  savedRemains'.due = savedRemains.due
    BY DEF SavedCampaign!DecayIsSettled
  <2>1. savedRemains \in Bodies
    BY DEF SaveInv, SaveTyped, SavedCampaign!NoRemains
  <2>2. savedRemains' = SavedCampaign!Corpse(savedRemains)
    BY DEF SavedCampaign!Load, SavedCampaign!Remains
  <2> QED
    BY <2>1, <2>2 DEF SavedCampaign!Corpse, SavedCampaign!Recorded, Bodies
<1>3. SavedCampaign!ZonesLeaveAnIssue
  <2>1. savedFight \in SavedCampaign!Fights
    BY DEF SaveInv, SaveTyped, SavedCampaign!TypeOK
  <2>2. PICK kept \in BOOLEAN :
           savedFight' = [savedFight EXCEPT !.geometry = "sound",
                               !.zones = IF kept THEN @ ELSE "none",
                               !.issue = SavedCampaign!Alerted(savedFight, kept),
                               !.reaction = SavedCampaign!Reaction(@)]
    BY DEF SavedCampaign!Load, SavedCampaign!Fight
  <2>3. /\ savedFight'.issue <=> SavedCampaign!Alerted(savedFight, kept)
        /\ savedFight'.zones = IF kept THEN savedFight.zones ELSE "none"
    BY <2>1, <2>2 DEF SavedCampaign!Fights
  <2> QED
    BY <2>3 DEF SavedCampaign!Alerted, SavedCampaign!ZonesLeaveAnIssue
<1> QED
  BY <1>1, <1>2, <1>3

\* A load reads what is there once and for all, and everyone with it.
LEMMA NextSave ==
    ASSUME SaveInv, SavedCampaign!Next
    PROVE  /\ SaveInv'
           /\ SavedCampaign!LoadsOnce /\ SavedCampaign!DecayIsSettled
           /\ SavedCampaign!ZonesLeaveAnIssue
<1>1. CASE SavedCampaign!Load
  BY <1>1, LoadSettles, LoadKeepsPromises DEF SaveInv
<1>2. CASE SavedCampaign!Travel
  BY <1>2, TravelKeeps
     DEF SavedCampaign!Travel, SavedCampaign!LoadsOnce, SavedCampaign!Load, SavedCampaign!ZonesLeaveAnIssue
<1>3. ASSUME NEW i \in Companions, SavedCampaign!Fall(i)
      PROVE  /\ SaveInv'
             /\ SavedCampaign!LoadsOnce /\ SavedCampaign!DecayIsSettled
             /\ SavedCampaign!ZonesLeaveAnIssue
  BY <1>3, FallKeeps
     DEF SavedCampaign!Fall, SavedCampaign!LoadsOnce, SavedCampaign!Load, SavedCampaign!DecayIsSettled,
         SavedCampaign!ZonesLeaveAnIssue
<1>4. ASSUME NEW c \in {"dead", "stable", "unconscious"}, SavedCampaign!Improvise(c)
      PROVE  /\ SaveInv'
             /\ SavedCampaign!LoadsOnce /\ SavedCampaign!DecayIsSettled
             /\ SavedCampaign!ZonesLeaveAnIssue
  BY <1>4, ImproviseKeeps
     DEF SavedCampaign!Improvise, SavedCampaign!LoadsOnce, SavedCampaign!Load,
         SavedCampaign!DecayIsSettled, SavedCampaign!ZonesLeaveAnIssue
<1> QED
  BY <1>1, <1>2, <1>3, <1>4 DEF SavedCampaign!Next

LEMMA InitSave ==
    ASSUME SavedCampaign!Init
    PROVE  SaveInv
<1> USE DEF SavedCampaign!Init, SavedCampaign!OldSave, SavedCampaign!NoParty, SavedCampaign!NoRemains,
            SavedCampaign!Hero
<1>1. <<>> \in SavedCampaign!ActorTables
  <2>1. <<>> \in [{} -> [status : {"active", "odd", "dead", "dismissed"}, hp : 0 .. 1]]
    OBVIOUS
  <2> QED
    BY <2>1 DEF SavedCampaign!ActorTables
<1> DEFINE nobody == <<>>
<1>a. nobody \in SavedCampaign!ActorTables
  BY <1>1
<1>b. \/ actors = nobody /\ sustained = {}
      \/ actors \in SavedCampaign!ActorTables /\ sustained \in SUBSET DOMAIN actors
  OBVIOUS
<1> HIDE DEF nobody, SavedCampaign!Init
<1>2. actors \in SavedCampaign!ActorTables /\ sustained \subseteq DOMAIN actors
  <2>1. actors \in SavedCampaign!ActorTables
    BY <1>a, <1>b
  <2>2. sustained \subseteq DOMAIN actors
    BY <1>b
  <2> QED
    BY <2>1, <2>2
<1> USE DEF SavedCampaign!Init
<1>3. hero \in SavedCampaign!Heroes /\ savedFight \in SavedCampaign!Fights /\ clock \in SavedCampaign!Clocks
  <2>1. SavedCampaign!Well \in SavedCampaign!Heroes
    BY DEF SavedCampaign!Heroes, SavedCampaign!Well
  <2>2. SavedCampaign!Peace \in SavedCampaign!Fights
    BY DEF SavedCampaign!Fights, SavedCampaign!Peace
  <2>3. SavedCampaign!Dawn \in SavedCampaign!Clocks
    BY SaveAssumption DEF SavedCampaign!Clocks, SavedCampaign!Dawn, SavedCampaign!Weathers
  <2> QED
    BY <2>1, <2>2, <2>3
<1>4. events \subseteq Happenings
  BY DEF Happenings, SavedCampaign!EventSets, SavedCampaign!Due
<1>5. savedParty \in Groups \cup {SavedCampaign!NoParty}
  BY DEF Groups, SavedCampaign!Parties
<1>6. savedRemains \in Bodies \cup {SavedCampaign!NoRemains}
  BY DEF Bodies, SavedCampaign!Corpses
<1>7. quest \in Errands /\ advance \in {"none", "pending", "consumed", "odd"}
  <2>1. SavedCampaign!NoQuest \in Errands
    BY DEF Errands, SavedCampaign!NoQuest
  <2>2. SavedCampaign!Quests \subseteq Errands
    BY DEF Errands, SavedCampaign!Quests
  <2> QED
    BY <2>1, <2>2
<1>8. savedParty = SavedCampaign!NoParty \/ savedParty.members \subseteq Companions \cup {"hero"}
  BY <1>5 DEF Groups
<1>9. SaveTyped /\ loaded = FALSE
  BY <1>2, <1>3, <1>4, <1>5, <1>6, <1>7, <1>8 DEF SaveTyped, SavedCampaign!TypeOK
<1> QED
  BY <1>9 DEF SaveInv, SavedCampaign!EveryoneAccounted, SavedCampaign!HeroWhole

-----------------------------------------------------------------------------
(* Creating the hero.                                                        *)

Sheets == [Abilities -> Scores]
Rolls == [id : {1}, scores : Sheets]
CanonicalSheets == [created : {TRUE}, source : {"canonical"}, method : {"class_default", "standard_array", "rolled"},
                    base : Sheets, abilities : [Abilities -> Nat], class : DOMAIN Classes,
                    background : DOMAIN Backgrounds, chosen : SUBSET CharacterCreation!Skills,
                    skills : SUBSET CharacterCreation!Skills]
LegacySheets == [created : {TRUE}, source : {"legacy"}, base : Sheets, abilities : [Abilities -> Nat]]

\* The engine has rolled what the draft says and nothing else, until the hero is made.
SheetInv ==
    /\ CharacterCreation!TypeOK
    /\ draft \in {CharacterCreation!NoDraft} \cup Rolls
    /\ character \in {CharacterCreation!Blank} \cup CanonicalSheets \cup LegacySheets
    /\ ~character.created => rolled = IF draft = CharacterCreation!NoDraft THEN {} ELSE {draft.scores}
    /\ CharacterCreation!RollStands
    /\ CharacterCreation!NoSkillWasted
    /\ CharacterCreation!ScoresAsChosen

\* Scores that occur equally often are the same scores in another order.
LEMMA Rearranged ==
    ASSUME NEW a \in Sheets, NEW b \in Sheets, CharacterCreation!SameScores(a, b)
    PROVE  \E perm \in [Abilities -> Abilities] :
             /\ CharacterCreation!Range(perm) = Abilities
             /\ a = [x \in Abilities |-> b[perm[x]]]
<1> DEFINE Holders(f, s) == {x \in Abilities : f[x] = s}
           Swap(s) == CHOOSE g : g \in Bijection(Holders(a, s), Holders(b, s))
           perm == [x \in Abilities |-> Swap(a[x])[x]]
<1>1. ASSUME NEW s \in Scores
      PROVE  Swap(s) \in Bijection(Holders(a, s), Holders(b, s))
  <2>1. IsFiniteSet(Holders(a, s)) /\ IsFiniteSet(Holders(b, s))
    BY SheetAssumption, FS_Subset
  <2>2. Cardinality(Holders(a, s)) = Cardinality(Holders(b, s))
    BY DEF CharacterCreation!SameScores, CharacterCreation!Cardinality, Cardinality
  <2>3. ExistsBijection(Holders(a, s), Holders(b, s))
    BY <2>1, <2>2, FS_SameCardinalityBij
  <2> QED
    BY <2>3 DEF ExistsBijection
<1>2. ASSUME NEW x \in Abilities
      PROVE  perm[x] \in Abilities /\ b[perm[x]] = a[x]
  <2>1. a[x] \in Scores /\ x \in Holders(a, a[x])
    BY DEF Sheets
  <2>2. Swap(a[x]) \in [Holders(a, a[x]) -> Holders(b, a[x])]
    BY <2>1, <1>1 DEF Bijection, Injection
  <2>3. Swap(a[x])[x] \in Holders(b, a[x])
    BY <2>1, <2>2
  <2> QED
    BY <2>3
<1>3. ASSUME NEW y \in Abilities
      PROVE  \E x \in Abilities : perm[x] = y
  <2>1. b[y] \in Scores /\ y \in Holders(b, b[y])
    BY DEF Sheets
  <2>2. Swap(b[y]) \in Surjection(Holders(a, b[y]), Holders(b, b[y]))
    BY <2>1, <1>1 DEF Bijection
  <2>3. PICK x \in Holders(a, b[y]) : Swap(b[y])[x] = y
    BY <2>1, <2>2 DEF Surjection
  <2>4. x \in Abilities /\ a[x] = b[y]
    BY <2>3
  <2> QED
    BY <2>3, <2>4
<1> HIDE DEF Swap
<1>4. perm \in [Abilities -> Abilities]
  BY <1>2
<1>5. CharacterCreation!Range(perm) = Abilities
  BY <1>2, <1>3 DEF CharacterCreation!Range
<1>6. a = [x \in Abilities |-> b[perm[x]]]
  <2>1. a = [x \in Abilities |-> a[x]]
    BY DEF Sheets
  <2> QED
    BY <2>1, <1>2
<1> QED
  BY <1>4, <1>5, <1>6

\* A roll is the first one, and the draft says it.
LEMMA RollKeeps ==
    ASSUME SheetInv, CharacterCreation!RollStats
    PROVE  SheetInv'
<1> USE DEF SheetInv
<1>1. PICK scores \in Sheets : draft' = [id |-> 1, scores |-> scores] /\ rolled' = rolled \cup {scores}
  BY DEF CharacterCreation!RollStats, CharacterCreation!Sheets, Sheets
<1>2. /\ draft = CharacterCreation!NoDraft /\ ~character.created
      /\ UNCHANGED <<phase, pinned, character, updates>>
  BY DEF CharacterCreation!RollStats, CharacterCreation!MayRoll, CharacterCreation!InCreation
<1>3. rolled' = {scores}
  BY <1>1, <1>2
<1>4. draft' \in Rolls /\ draft' # CharacterCreation!NoDraft /\ draft'.scores = scores
  BY <1>1 DEF Rolls, CharacterCreation!NoDraft
<1>5. CharacterCreation!TypeOK'
  BY <1>2, <1>3, <1>4 DEF CharacterCreation!TypeOK, CharacterCreation!Sheets, Sheets
<1>6. (CharacterCreation!RollStands /\ CharacterCreation!NoSkillWasted /\ CharacterCreation!ScoresAsChosen)'
  BY <1>2 DEF CharacterCreation!RollStands, CharacterCreation!NoSkillWasted, CharacterCreation!ScoresAsChosen
<1> QED
  BY <1>2, <1>3, <1>4, <1>5, <1>6

\* The skills that were chosen are none the background gives anyway.
LEMMA SkillsAdd ==
    ASSUME NEW class \in DOMAIN Classes, NEW background \in DOMAIN Backgrounds,
           NEW chosen \in CharacterCreation!SkillChoices(class, background)
    PROVE  /\ chosen \cup Backgrounds[background].fixed \in SUBSET CharacterCreation!Skills
           /\ CharacterCreation!Cardinality(chosen \cup Backgrounds[background].fixed)
                = Classes[class].count + Backgrounds[background].count
                    + CharacterCreation!Cardinality(Backgrounds[background].fixed)
<1> DEFINE fixed == Backgrounds[background].fixed
<1>1. /\ chosen \subseteq Classes[class].options \cup Backgrounds[background].options
      /\ chosen \cap fixed = {}
      /\ CharacterCreation!Cardinality(chosen) = Classes[class].count + Backgrounds[background].count
  BY DEF CharacterCreation!SkillChoices
<1>2. IsFiniteSet(chosen) /\ IsFiniteSet(fixed)
  <2>1. IsFiniteSet(Classes[class].options \cup Backgrounds[background].options)
    BY SheetAssumption, FS_Union
  <2> QED
    BY <1>1, <2>1, SheetAssumption, FS_Subset
<1>3. Cardinality(chosen \cup fixed) = Cardinality(chosen) + Cardinality(fixed)
  <2>1. Cardinality(chosen \cup fixed) = Cardinality(chosen) + Cardinality(fixed) - Cardinality(chosen \cap fixed)
    BY <1>2, FS_Union
  <2>2. Cardinality(chosen \cap fixed) = 0
    BY <1>1, FS_EmptySet
  <2>3. Cardinality(chosen) \in Nat /\ Cardinality(fixed) \in Nat
    BY <1>2, FS_CardinalityType
  <2> QED
    BY <2>1, <2>2, <2>3
<1>4. \A S : CharacterCreation!Cardinality(S) = Cardinality(S)
  BY DEF CharacterCreation!Cardinality, Cardinality
<1>5. chosen \cup fixed \in SUBSET CharacterCreation!Skills
  <2>1. chosen \subseteq CharacterCreation!Skills
    BY DEF CharacterCreation!SkillChoices
  <2>2. Backgrounds[background].options \cup fixed \subseteq CharacterCreation!Skills
    BY DEF CharacterCreation!Skills
  <2> QED
    BY <2>1, <2>2
<1> QED
  BY <1>1, <1>3, <1>4, <1>5

\* The hero of canonical options is what was chosen, in the scores that were rolled.
LEMMA CanonicalKeeps ==
    ASSUME SheetInv, CharacterCreation!CreateCanonical
    PROVE  SheetInv'
<1> USE DEF SheetInv
<1>1. PICK species \in DOMAIN Bonus, class \in DOMAIN Classes, background \in DOMAIN Backgrounds,
           base \in Sheets, method \in {"class_default", "standard_array", "rolled"}, id \in 0..1 :
        /\ CharacterCreation!Assignable(method, base, id)
        /\ \E bonuses \in CharacterCreation!Bonuses(species),
              chosen \in CharacterCreation!SkillChoices(class, background) :
             /\ CharacterCreation!WithinCap(CharacterCreation!Raised(base, species, bonuses))
             /\ CharacterCreation!Enter([created |-> TRUE, source |-> "canonical", method |-> method,
                      base |-> base, abilities |-> CharacterCreation!Raised(base, species, bonuses),
                      class |-> class, background |-> background, chosen |-> chosen,
                      skills |-> chosen \cup Backgrounds[background].fixed])
  BY DEF CharacterCreation!CreateCanonical, CharacterCreation!Sheets, Sheets
<1>2. PICK bonuses \in CharacterCreation!Bonuses(species),
           chosen \in CharacterCreation!SkillChoices(class, background) :
        /\ CharacterCreation!WithinCap(CharacterCreation!Raised(base, species, bonuses))
        /\ CharacterCreation!Enter([created |-> TRUE, source |-> "canonical", method |-> method,
                 base |-> base, abilities |-> CharacterCreation!Raised(base, species, bonuses),
                 class |-> class, background |-> background, chosen |-> chosen,
                 skills |-> chosen \cup Backgrounds[background].fixed])
  BY <1>1
<1>3. PICK raised : raised = CharacterCreation!Raised(base, species, bonuses)
  OBVIOUS
<1>4. PICK skills : skills = chosen \cup Backgrounds[background].fixed
  OBVIOUS
<1>5. /\ character' = [created |-> TRUE, source |-> "canonical", method |-> method, base |-> base,
                       abilities |-> raised, class |-> class, background |-> background,
                       chosen |-> chosen, skills |-> skills]
      /\ draft' = CharacterCreation!NoDraft /\ phase' = "tutorial" /\ UNCHANGED <<pinned, updates, rolled>>
  BY <1>2, <1>3, <1>4 DEF CharacterCreation!Enter
<1>6. \A a \in Abilities : base[a] \in Nat /\ raised[a] \in Nat /\ raised[a] >= base[a] /\ raised[a] <= Cap
  <2>1. ASSUME NEW a \in Abilities
        PROVE  base[a] \in Nat /\ Bonus[species][a] \in Nat
    BY SheetAssumption DEF Sheets
  <2>2. ASSUME NEW a \in Abilities
        PROVE  raised[a] = base[a] + Bonus[species][a] + (IF a \in bonuses THEN 1 ELSE 0) /\ raised[a] <= Cap
    BY <1>2, <1>3 DEF CharacterCreation!Raised, CharacterCreation!WithinCap
  <2> QED
    BY <2>1, <2>2
<1>7. raised \in [Abilities -> Nat]
  <2>1. raised = [a \in Abilities |-> raised[a]]
    BY <1>3 DEF CharacterCreation!Raised
  <2> QED
    BY <1>6, <2>1
<1>8. /\ skills \in SUBSET CharacterCreation!Skills /\ chosen \in SUBSET CharacterCreation!Skills
      /\ CharacterCreation!Cardinality(skills)
           = Classes[class].count + Backgrounds[background].count
               + CharacterCreation!Cardinality(Backgrounds[background].fixed)
  BY <1>4, SkillsAdd DEF CharacterCreation!SkillChoices
<1>9. character' \in CanonicalSheets
  BY <1>5, <1>7, <1>8 DEF CanonicalSheets
<1>10. CharacterCreation!TypeOK'
  BY <1>5 DEF CharacterCreation!TypeOK
<1>11. CharacterCreation!RollStands'
  <2> SUFFICES ASSUME method = "rolled"
               PROVE  /\ rolled # {}
                      /\ \A scores \in rolled :
                           \E perm \in [Abilities -> Abilities] :
                             /\ CharacterCreation!Range(perm) = Abilities
                             /\ base = [a \in Abilities |-> scores[perm[a]]]
    BY <1>5 DEF CharacterCreation!RollStands
  <2>1. draft # CharacterCreation!NoDraft /\ CharacterCreation!SameScores(base, draft.scores)
    BY <1>1 DEF CharacterCreation!Assignable
  <2>2. draft.scores \in Sheets
    BY <2>1 DEF Rolls
  <2>3. rolled = {draft.scores}
    BY <2>1 DEF CharacterCreation!CreateCanonical, CharacterCreation!InCreation
  <2> QED
    BY <2>1, <2>2, <2>3, Rearranged
<1>12. CharacterCreation!NoSkillWasted'
  BY <1>5, <1>8 DEF CharacterCreation!NoSkillWasted
<1>13. CharacterCreation!ScoresAsChosen'
  <2>1. CharacterCreation!WithinCap(raised)
    BY <1>6 DEF CharacterCreation!WithinCap
  <2>2. \A a \in Abilities : raised[a] \in base[a]..Cap
    BY <1>6, SheetAssumption
  <2>3. \E sp \in DOMAIN Bonus : \E bs \in CharacterCreation!Bonuses(sp) :
          raised = CharacterCreation!Raised(base, sp, bs)
    BY <1>3
  <2> QED
    BY <1>5, <2>1, <2>2, <2>3 DEF CharacterCreation!ScoresAsChosen, CharacterCreation!WithinCap,
       CharacterCreation!Raised, CharacterCreation!Bonuses
<1> QED
  BY <1>5, <1>9, <1>10, <1>11, <1>12, <1>13 DEF CanonicalSheets

\* The presets promise nothing.
LEMMA LegacyKeeps ==
    ASSUME SheetInv, CharacterCreation!CreateLegacy
    PROVE  SheetInv'
<1> USE DEF SheetInv
<1>1. PICK species \in DOMAIN Bonus, base \in Sheets :
        CharacterCreation!Enter([created |-> TRUE, source |-> "legacy", base |-> base,
              abilities |-> CharacterCreation!Raised(base, species, {})])
  BY DEF CharacterCreation!CreateLegacy, CharacterCreation!Sheets, Sheets
<1>2. PICK raised : raised = CharacterCreation!Raised(base, species, {})
  OBVIOUS
<1>3. raised \in [Abilities -> Nat]
  <2>1. ASSUME NEW a \in Abilities
        PROVE  base[a] \in Nat /\ Bonus[species][a] \in Nat
    BY SheetAssumption DEF Sheets
  <2> QED
    BY <1>2, <2>1 DEF CharacterCreation!Raised
<1>4. /\ character' = [created |-> TRUE, source |-> "legacy", base |-> base, abilities |-> raised]
      /\ draft' = CharacterCreation!NoDraft /\ phase' = "tutorial" /\ UNCHANGED <<pinned, updates, rolled>>
  BY <1>1, <1>2 DEF CharacterCreation!Enter
<1>5. character' \in LegacySheets
  BY <1>3, <1>4 DEF LegacySheets
<1>6. CharacterCreation!TypeOK'
  BY <1>4 DEF CharacterCreation!TypeOK
<1>7. (CharacterCreation!RollStands /\ CharacterCreation!NoSkillWasted /\ CharacterCreation!ScoresAsChosen)'
  BY <1>4 DEF CharacterCreation!RollStands, CharacterCreation!NoSkillWasted, CharacterCreation!ScoresAsChosen
<1> QED
  BY <1>4, <1>5, <1>6, <1>7

\* Only a legacy sheet is edited.
LEMMA UpdateKeeps ==
    ASSUME SheetInv, CharacterCreation!UpdateScores
    PROVE  SheetInv'
<1> USE DEF SheetInv
<1>1. PICK scores \in Sheets : character' = [character EXCEPT !.abilities = scores]
  BY DEF CharacterCreation!UpdateScores, CharacterCreation!Sheets, Sheets
<1>2. /\ character.created /\ character.source = "legacy" /\ updates < MaxUpdates /\ updates' = updates + 1
      /\ UNCHANGED <<phase, pinned, draft, rolled>>
  BY DEF CharacterCreation!UpdateScores, CharacterCreation!Editable
<1>3. character \in LegacySheets
  <2>1. CharacterCreation!Blank.created = FALSE
    BY DEF CharacterCreation!Blank
  <2>2. character # CharacterCreation!Blank
    BY <1>2, <2>1
  <2>3. character \notin CanonicalSheets
    BY <1>2 DEF CanonicalSheets
  <2> QED
    BY <2>2, <2>3
<1>4. scores \in [Abilities -> Nat]
  BY SheetAssumption DEF Sheets
<1>5. character' \in LegacySheets
  BY <1>1, <1>3, <1>4 DEF LegacySheets
<1>6. character'.created = TRUE /\ character'.source = "legacy"
  BY <1>5 DEF LegacySheets
<1>7. CharacterCreation!TypeOK'
  <2>1. MaxUpdates \in Nat
    BY SheetAssumption
  <2>2. updates' \in 0..MaxUpdates
    BY <1>2, <2>1 DEF CharacterCreation!TypeOK
  <2> QED
    BY <1>2, <1>6, <2>2 DEF CharacterCreation!TypeOK
<1>8. (CharacterCreation!RollStands /\ CharacterCreation!NoSkillWasted /\ CharacterCreation!ScoresAsChosen)'
  BY <1>6 DEF CharacterCreation!RollStands, CharacterCreation!NoSkillWasted, CharacterCreation!ScoresAsChosen
<1> QED
  BY <1>2, <1>5, <1>6, <1>7, <1>8

LEMMA NextSheet == SheetInv /\ CharacterCreation!Next => SheetInv'
BY RollKeeps, CanonicalKeeps, LegacyKeeps, UpdateKeeps DEF CharacterCreation!Next

LEMMA InitSheet == CharacterCreation!Init => SheetInv
BY SheetAssumption
   DEF CharacterCreation!Init, SheetInv, CharacterCreation!TypeOK, CharacterCreation!Blank,
       CharacterCreation!RollStands, CharacterCreation!NoSkillWasted, CharacterCreation!ScoresAsChosen

-----------------------------------------------------------------------------
(* Spells and the slots that pay for them.                                   *)

Turns == [turn : {"none", "hero", "foe"}, spent : SUBSET {"action", "reaction"}]

\* The slots that are left and those that are owed are those of the level, and
\* it is the foe's turn while the hero is asked.
MagicInv ==
    /\ Magic!TypeOK
    /\ IsFiniteSet(known) /\ IsFiniteSet(prepared)
    /\ fight \in Turns /\ pending \in BOOLEAN /\ debt \in Nat
    /\ \A n \in Magic!SlotLevels : slots[n] <= SlotTable[level][n]
    /\ Sum(slots, Magic!SlotLevels) + debt = Sum(SlotTable[level], Magic!SlotLevels)
    /\ Magic!AwakeToConcentrate
    /\ Magic!RepertoireFits
    /\ Magic!OffersCastable
    /\ pending => fight.turn = "foe"

LEMMA SlotFacts ==
    /\ IsFiniteSet(Magic!SlotLevels) /\ Magic!SlotLevels \subseteq 1..9
    /\ \A l \in Magic!Levels : SlotTable[l] \in [Magic!SlotLevels -> Nat] /\ l \in Nat
    /\ 1 \in Magic!Levels
    /\ \A s \in Magic!Spells : Rank[s] \in Nat
    /\ MaxHp \in Nat /\ Scrolls \in Nat
<1> USE DEF Magic!SlotLevels, Magic!Levels, Magic!Spells
<1>1. Magic!SlotLevels \subseteq 1..9
  BY SpellAssumption
<1>2. IsFiniteSet(Magic!SlotLevels)
  <2>1. IsFiniteSet(1..9)
    BY FS_Interval, 1 \in Int, 9 \in Int, Zenon
  <2> QED
    BY <1>1, <2>1, FS_Subset
<1>3. \A l \in Magic!Levels : SlotTable[l] \in [Magic!SlotLevels -> Nat] /\ l \in Nat
  BY SpellAssumption
<1>4. 1 \in Magic!Levels
  BY SpellAssumption
<1>5. MaxHp \in Nat /\ Scrolls \in Nat
  BY SpellAssumption
<1>6. \A s \in Magic!Spells : Rank[s] \in Nat
  BY SpellAssumption
<1> QED
  BY <1>1, <1>2, <1>3, <1>4, <1>5, <1>6

LEMMA LeastOfTwo ==
    ASSUME NEW a \in Nat, NEW b \in Nat
    PROVE  Magic!Min({a, b}) = IF a <= b THEN a ELSE b
<1>1. \E x \in {a, b} : \A y \in {a, b} : x <= y
  OBVIOUS
<1>2. Magic!Min({a, b}) \in {a, b} /\ \A y \in {a, b} : Magic!Min({a, b}) <= y
  BY <1>1 DEF Magic!Min
<1> QED
  BY <1>2

LEMMA HighestIsNat ==
    ASSUME MagicInv
    PROVE  Magic!Highest \in Nat
<1> DEFINE S == {n \in Magic!SlotLevels : SlotTable[level][n] > 0}
<1>1. S \subseteq 1..9
  BY SlotFacts
<1>2. CASE S # {}
  <2>1. \E x \in S : \A y \in S : x >= y
    <3> DEFINE Above == {k \in Nat : \A x \in S : x <= k}
    <3> HIDE DEF S
    <3>1. 9 \in Above
      BY <1>1
    <3>2. PICK k \in Above : \A j \in Above : <<j, k>> \notin OpToRel(<, Nat)
      <4>1. Above \subseteq Nat /\ Above # {}
        BY <3>1
      <4> HIDE DEF Above
      <4> QED
        BY <4>1, NatLessThanWellFounded, WFMin
    <3>3. \A j \in Above : ~(j < k)
      BY <3>2 DEF OpToRel
    <3>4. k \in S
      <4> SUFFICES ASSUME k \notin S PROVE FALSE
        OBVIOUS
      <4>1. \A x \in S : x \in Nat /\ x # 0 /\ x <= k /\ x # k
        BY <1>1
      <4>2. k - 1 \in Nat
        BY <1>2, <4>1
      <4>3. k - 1 \in Above
        BY <4>1, <4>2
      <4> QED
        BY <3>3, <4>2, <4>3
    <3> QED
      BY <1>1, <3>4
  <2>2. Magic!Max(S) \in S
    BY <2>1 DEF Magic!Max
  <2>3. Magic!Highest = Magic!Max(S)
    BY <1>2 DEF Magic!Highest
  <2> QED
    BY <1>1, <2>2, <2>3
<1>3. CASE S = {}
  BY <1>3 DEF Magic!Highest
<1> QED
  BY <1>2, <1>3

\* A slot that is paid is owed until it comes back.
LEMMA PaidIsOwed ==
    ASSUME MagicInv, NEW s \in Magic!Spells, NEW n \in Magic!SlotLevels \cup {0}, n = 0 \/ Magic!Payable(s, n)
    PROVE  /\ Magic!Paid(s, n) \in [Magic!SlotLevels -> Nat] /\ Magic!Owed(s, n) \in Nat
           /\ \A m \in Magic!SlotLevels : Magic!Paid(s, n)[m] <= SlotTable[level][m]
           /\ Sum(Magic!Paid(s, n), Magic!SlotLevels) + Magic!Owed(s, n)
                = Sum(SlotTable[level], Magic!SlotLevels)
<1>1. /\ slots \in [Magic!SlotLevels -> Nat] /\ SlotTable[level] \in [Magic!SlotLevels -> Nat] /\ debt \in Nat
      /\ \A m \in Magic!SlotLevels : slots[m] <= SlotTable[level][m]
      /\ Sum(slots, Magic!SlotLevels) + debt = Sum(SlotTable[level], Magic!SlotLevels)
  BY SlotFacts DEF MagicInv, Magic!TypeOK
<1>2. CASE n = 0
  BY <1>1, <1>2 DEF Magic!Paid, Magic!Owed
<1>3. CASE n # 0
  <2>1. n \in Magic!SlotLevels /\ slots[n] > 0 /\ slots[n] \in Nat
    BY <1>1, <1>3 DEF Magic!Payable
  <2>2. PICK rest : rest = [slots EXCEPT ![n] = @ - 1]
    OBVIOUS
  <2>3. /\ rest \in [Magic!SlotLevels -> Nat] /\ slots[n] = rest[n] + 1
        /\ \A m \in Magic!SlotLevels : m # n => slots[m] = rest[m]
    BY <1>1, <2>1, <2>2
  <2>4. Sum(slots, Magic!SlotLevels) = Sum(rest, Magic!SlotLevels) + 1
    <3>1. IsFiniteSet(Magic!SlotLevels) /\ 1 \in Nat
      BY SlotFacts
    <3> QED
      BY <1>1, <2>1, <2>3, <3>1, SumGrows
  <2>5. Sum(rest, Magic!SlotLevels) \in Nat /\ Sum(SlotTable[level], Magic!SlotLevels) \in Nat
    BY <1>1, <2>3, SlotFacts, SumIsNat
  <2>6. Sum(rest, Magic!SlotLevels) + (debt + 1) = Sum(SlotTable[level], Magic!SlotLevels)
    BY <1>1, <2>4, <2>5
  <2>7. \A m \in Magic!SlotLevels : rest[m] <= SlotTable[level][m]
    BY <1>1, <2>1, <2>3
  <2>8. Magic!Paid(s, n) = rest /\ Magic!Owed(s, n) = debt + 1
    BY <1>3, <2>2 DEF Magic!Paid, Magic!Owed
  <2> QED
    BY <1>1, <2>3, <2>6, <2>7, <2>8
<1> QED
  BY <1>2, <1>3

\* A hit leaves natural hit points, and whoever falls lets go of the spell.
LEMMA HurtLetsGo ==
    ASSUME MagicInv, NEW c \in Holding \cup {"none"}, NEW amount \in Nat, NEW held \in BOOLEAN,
           Magic!Hurt(c, amount, held)
    PROVE  hp' \in 0..MaxHp /\ conc' \in Holding \cup {"none"} /\ (hp' = 0 => conc' = "none")
<1>1. hp \in 0..MaxHp /\ MaxHp \in Nat
  BY SlotFacts DEF MagicInv, Magic!TypeOK
<1>2. hp' = IF amount >= hp THEN 0 ELSE hp - amount
  BY DEF Magic!Hurt
<1>3. conc' = IF held THEN Magic!Kept(c, hp') ELSE "none"
  BY DEF Magic!Hurt
<1> QED
  BY <1>1, <1>2, <1>3 DEF Magic!Kept

\* What a step must show that leaves level and repertoire alone.
LEMMA SameRepertoire ==
    ASSUME MagicInv, UNCHANGED <<level, known, prepared>>,
           slots' \in [Magic!SlotLevels -> Nat], debt' \in Nat,
           \A n \in Magic!SlotLevels : slots'[n] <= SlotTable[level][n],
           Sum(slots', Magic!SlotLevels) + debt' = Sum(SlotTable[level], Magic!SlotLevels),
           conc' \in Holding \cup {"none"}, hp' \in 0..MaxHp, hp' = 0 => conc' = "none",
           dice' \in 0..level, scrolls' \in 0..Scrolls, fight' \in Turns, pending' = FALSE
    PROVE  MagicInv'
<1> USE DEF MagicInv
<1>1. Magic!TypeOK'
  BY DEF Magic!TypeOK
<1>2. Magic!RepertoireFits'
  BY DEF Magic!RepertoireFits
<1>3. Magic!AwakeToConcentrate' /\ Magic!OffersCastable'
  BY DEF Magic!AwakeToConcentrate, Magic!OffersCastable
<1> QED
  BY <1>1, <1>2, <1>3

LEMMA OneMoreOrLess ==
    ASSUME NEW S, NEW x, IsFiniteSet(S)
    PROVE  /\ IsFiniteSet(S \cup {x}) /\ IsFiniteSet(S \ {x})
           /\ Cardinality(S) \in Nat /\ Cardinality(S \cup {x}) \in Nat /\ Cardinality(S \ {x}) \in Nat
           /\ Cardinality(S \cup {x}) <= Cardinality(S) + 1
           /\ Cardinality(S \ {x}) <= Cardinality(S)
<1>1. Cardinality(S) \in Nat
  BY FS_CardinalityType
<1>2. /\ IsFiniteSet(S \cup {x})
      /\ Cardinality(S \cup {x}) = IF x \in S THEN Cardinality(S) ELSE Cardinality(S) + 1
  BY FS_AddElement
<1>3. /\ IsFiniteSet(S \ {x}) /\ S \ {x} \in SUBSET S
      /\ Cardinality(S \ {x}) <= Cardinality(S)
  BY FS_Subset
<1>4. Cardinality(S \ {x}) \in Nat
  BY <1>3, FS_CardinalityType
<1> QED
  BY <1>1, <1>2, <1>3, <1>4

\* There is room for one more.
LEMMA LearnKeeps ==
    ASSUME MagicInv, NEW s \in Magic!Spells, Magic!Learn(s)
    PROVE  MagicInv'
<1> USE DEF MagicInv
<1>1. /\ known' = known \cup {s} /\ s \notin known /\ ~pending /\ Magic!Room(s)
      /\ UNCHANGED <<level, prepared, slots, conc, hp, dice, scrolls, fight, pending, debt>>
  BY DEF Magic!Learn
<1>2. Magic!TypeOK'
  BY <1>1 DEF Magic!TypeOK
<1>3. IsFiniteSet(known') /\ known \subseteq Magic!Spells
  BY <1>1, FS_AddElement DEF Magic!TypeOK
<1>4. \A S : Magic!Cardinality(S) = Cardinality(S)
  BY DEF Magic!Cardinality, Cardinality
<1>5. /\ KnownTable[level] \in Nat /\ CantripTable[level] \in Nat
      /\ Cardinality(known \cap Cantrips) <= CantripTable[level]
      /\ Cardinality(Magic!Leveled(known)) <= KnownTable[level]
  BY <1>4, SpellAssumption DEF Magic!RepertoireFits, Magic!TypeOK, Magic!Levels
<1>6. IsFiniteSet(known \cap Cantrips) /\ IsFiniteSet(Magic!Leveled(known))
  BY FS_Subset DEF Magic!Leveled
<1>7. Cardinality(known \cap Cantrips) \in Nat /\ Cardinality(Magic!Leveled(known)) \in Nat
  BY <1>6, FS_CardinalityType
<1>8. /\ Cardinality(known' \cap Cantrips) <= CantripTable[level]
      /\ Cardinality(Magic!Leveled(known')) <= KnownTable[level]
  <2>1. CASE s \in Cantrips
    <3>1. Rank[s] = 0
      BY <2>1, SpellAssumption
    <3>2. Magic!Leveled(known') = Magic!Leveled(known)
      BY <1>1, <3>1 DEF Magic!Leveled
    <3>3. known' \cap Cantrips = (known \cap Cantrips) \cup {s} /\ s \notin known \cap Cantrips
      BY <1>1, <2>1
    <3>4. Cardinality(known' \cap Cantrips) = Cardinality(known \cap Cantrips) + 1
      BY <1>6, <3>3, FS_AddElement
    <3>5. Cardinality(known \cap Cantrips) < CantripTable[level]
      BY <1>1, <1>4, <2>1 DEF Magic!Room
    <3> QED
      BY <1>5, <1>7, <3>2, <3>4, <3>5
  <2>2. CASE s \notin Cantrips
    <3>1. known' \cap Cantrips = known \cap Cantrips
      BY <1>1, <2>2
    <3>2. Magic!Leveled(known') \subseteq Magic!Leveled(known) \cup {s}
      BY <1>1 DEF Magic!Leveled
    <3>3. /\ IsFiniteSet(Magic!Leveled(known) \cup {s})
          /\ Cardinality(Magic!Leveled(known) \cup {s}) <= Cardinality(Magic!Leveled(known)) + 1
      BY <1>6, OneMoreOrLess
    <3>4. /\ Cardinality(Magic!Leveled(known')) <= Cardinality(Magic!Leveled(known) \cup {s})
          /\ Cardinality(Magic!Leveled(known')) \in Nat
          /\ Cardinality(Magic!Leveled(known) \cup {s}) \in Nat
      BY <3>2, <3>3, FS_Subset, FS_CardinalityType
    <3>5. Cardinality(Magic!Leveled(known)) < KnownTable[level]
      BY <1>1, <1>4, <2>2 DEF Magic!Room
    <3>6. Cardinality(Magic!Leveled(known')) <= KnownTable[level]
      BY <1>5, <1>7, <3>3, <3>4, <3>5
    <3> QED
      BY <1>5, <3>1, <3>6
  <2> QED
    BY <2>1, <2>2
<1>9. Magic!RepertoireFits'
  <2>1. Mode = "spellbook" => prepared' \subseteq known'
    BY <1>1 DEF Magic!RepertoireFits
  <2>2. Magic!Cardinality(prepared') <= PreparedTable[level']
    BY <1>1 DEF Magic!RepertoireFits
  <2>3. level' = level
    BY <1>1
  <2> QED
    BY <1>4, <1>8, <2>1, <2>2, <2>3 DEF Magic!RepertoireFits, Magic!Leveled
<1>10. Magic!AwakeToConcentrate' /\ Magic!OffersCastable'
  BY <1>1 DEF Magic!AwakeToConcentrate, Magic!OffersCastable
<1> QED
  BY <1>1, <1>2, <1>3, <1>9, <1>10

LEMMA PrepareKeeps ==
    ASSUME MagicInv, NEW s \in Magic!Spells, Magic!Prepare(s) \/ Magic!Unprepare(s)
    PROVE  MagicInv'
<1> USE DEF MagicInv
<1>1. /\ ~pending
      /\ UNCHANGED <<level, known, slots, conc, hp, dice, scrolls, fight, pending, debt>>
  BY DEF Magic!Prepare, Magic!Unprepare
<1>2. \A S : Magic!Cardinality(S) = Cardinality(S)
  BY DEF Magic!Cardinality, Cardinality
<1>3. /\ PreparedTable[level] \in Nat /\ Cardinality(prepared) \in Nat
      /\ Cardinality(prepared) <= PreparedTable[level]
  BY <1>2, SpellAssumption, FS_CardinalityType DEF Magic!RepertoireFits, Magic!TypeOK, Magic!Levels
<1>4. /\ IsFiniteSet(prepared') /\ prepared' \subseteq Magic!Leveled(Magic!Spells)
      /\ Cardinality(prepared') <= PreparedTable[level]
      /\ Mode = "spellbook" => prepared' \subseteq known
  <2>1. CASE Magic!Prepare(s)
    <3>1. /\ prepared' = prepared \cup {s} /\ Cardinality(prepared) < PreparedTable[level]
          /\ Mode = "spellbook" => s \in known
      BY <1>2, <2>1 DEF Magic!Prepare
    <3>2. s \in Magic!Leveled(Magic!Spells)
      BY <2>1, HighestIsNat, SlotFacts DEF Magic!Prepare, Magic!Leveled
    <3>3. IsFiniteSet(prepared') /\ Cardinality(prepared') <= Cardinality(prepared) + 1
          /\ Cardinality(prepared') \in Nat
      BY <3>1, OneMoreOrLess
    <3>4. Cardinality(prepared') <= PreparedTable[level]
      BY <1>3, <3>1, <3>3
    <3> QED
      BY <3>1, <3>2, <3>3, <3>4 DEF Magic!TypeOK, Magic!RepertoireFits
  <2>2. CASE Magic!Unprepare(s)
    <3>1. prepared' = prepared \ {s}
      BY <2>2 DEF Magic!Unprepare
    <3>2. IsFiniteSet(prepared') /\ Cardinality(prepared') <= Cardinality(prepared)
          /\ Cardinality(prepared') \in Nat
      BY <3>1, OneMoreOrLess
    <3>3. Cardinality(prepared') <= PreparedTable[level]
      BY <1>3, <3>2
    <3> QED
      BY <3>1, <3>2, <3>3 DEF Magic!TypeOK, Magic!RepertoireFits
  <2> QED
    BY <2>1, <2>2
<1>5. Magic!TypeOK'
  BY <1>1, <1>4 DEF Magic!TypeOK, Magic!Leveled
<1>6. Magic!RepertoireFits'
  BY <1>1, <1>2, <1>4 DEF Magic!RepertoireFits, Magic!Leveled
<1>7. Magic!AwakeToConcentrate' /\ Magic!OffersCastable'
  BY <1>1 DEF Magic!AwakeToConcentrate, Magic!OffersCastable
<1> QED
  BY <1>1, <1>4, <1>5, <1>6, <1>7

\* What casting a spell leaves of the fight.
LEMMA AfterActionFits ==
    ASSUME MagicInv, NEW won \in BOOLEAN, Magic!AfterAction(won)
    PROVE  fight' \in Turns
<1>1. fight \in Turns
  BY DEF MagicInv
<1> QED
  BY <1>1 DEF Magic!AfterAction, Turns

LEMMA CastBlastKeeps ==
    ASSUME MagicInv, NEW s \in Magic!Spells, NEW n \in Magic!SlotLevels \cup {0}, NEW self \in BOOLEAN,
           NEW held \in BOOLEAN, NEW won \in BOOLEAN, Magic!CastBlast(s, n, self, held, won)
    PROVE  MagicInv'
<1> USE DEF MagicInv
<1>1. /\ Magic!Payable(s, n) /\ slots' = Magic!Paid(s, n) /\ debt' = Magic!Owed(s, n)
      /\ ~pending /\ hp > 0 /\ Magic!AfterAction(won)
      /\ UNCHANGED <<level, known, prepared, dice, scrolls, pending>>
  BY DEF Magic!CastBlast, Magic!Free
<1>2. PICK c : /\ c = IF s \in Holding THEN s ELSE conc
               /\ IF self THEN Magic!Hurt(c, 1, held) ELSE conc' = c /\ hp' = hp
  BY DEF Magic!CastBlast
<1>3. c \in Holding \cup {"none"}
  BY <1>2 DEF Magic!TypeOK
<1>4. hp' \in 0..MaxHp /\ conc' \in Holding \cup {"none"} /\ (hp' = 0 => conc' = "none")
  <2>1. CASE self
    BY <1>2, <1>3, <2>1, HurtLetsGo
  <2>2. CASE ~self
    BY <1>1, <1>2, <1>3, <2>2 DEF Magic!TypeOK
  <2> QED
    BY <2>1, <2>2
<1>5. fight' \in Turns
  BY <1>1, AfterActionFits
<1>6. dice' \in 0..level /\ scrolls' \in 0..Scrolls /\ pending' = FALSE
  BY <1>1 DEF Magic!TypeOK
<1>7. /\ slots' \in [Magic!SlotLevels -> Nat] /\ debt' \in Nat
      /\ \A m \in Magic!SlotLevels : slots'[m] <= SlotTable[level][m]
      /\ Sum(slots', Magic!SlotLevels) + debt' = Sum(SlotTable[level], Magic!SlotLevels)
  BY <1>1, PaidIsOwed
<1> QED
  BY <1>1, <1>4, <1>5, <1>6, <1>7, SameRepertoire

LEMMA CastCureKeeps ==
    ASSUME MagicInv, NEW s \in Magic!Spells, NEW n \in Magic!SlotLevels \cup {0}, NEW scroll \in BOOLEAN,
           Magic!CastCure(s, n, scroll)
    PROVE  MagicInv'
<1> USE DEF MagicInv
<1>1. /\ slots' = Magic!Paid(s, n) /\ debt' = Magic!Owed(s, n)
      /\ ~pending /\ hp \in 1..(MaxHp - 1) /\ hp' = hp + 1 /\ Magic!AfterAction(FALSE)
      /\ scrolls' = IF scroll THEN scrolls - 1 ELSE scrolls
      /\ UNCHANGED <<level, known, prepared, conc, dice, pending>>
  BY DEF Magic!CastCure
<1>2. (scroll => scrolls > 0 /\ n = 0) /\ (~scroll => Magic!Payable(s, n))
  BY DEF Magic!CastCure
<1>3. MaxHp \in Nat /\ Scrolls \in Nat
  BY SlotFacts
<1>4. hp' \in 0..MaxHp /\ conc' \in Holding \cup {"none"} /\ hp' # 0
  BY <1>1, <1>3 DEF Magic!TypeOK
<1>5. fight' \in Turns
  BY <1>1, AfterActionFits
<1>6. dice' \in 0..level /\ scrolls' \in 0..Scrolls /\ pending' = FALSE
  BY <1>1, <1>2, <1>3 DEF Magic!TypeOK
<1>7. /\ slots' \in [Magic!SlotLevels -> Nat] /\ debt' \in Nat
      /\ \A m \in Magic!SlotLevels : slots'[m] <= SlotTable[level][m]
      /\ Sum(slots', Magic!SlotLevels) + debt' = Sum(SlotTable[level], Magic!SlotLevels)
  BY <1>1, <1>2, PaidIsOwed
<1> QED
  BY <1>1, <1>4, <1>5, <1>6, <1>7, SameRepertoire

\* The hero is asked only while a ward can be paid for.
LEMMA AttackedKeeps ==
    ASSUME MagicInv, NEW amount \in 1..2, NEW held \in BOOLEAN, Magic!Attacked(amount, held)
    PROVE  MagicInv'
<1> USE DEF MagicInv
<1>1. /\ fight.turn = "foe" /\ ~pending
      /\ UNCHANGED <<level, known, prepared, slots, dice, scrolls, debt>>
  BY DEF Magic!Attacked
<1>2. CASE Magic!Offered # {} /\ "reaction" \notin fight.spent /\ hp > 0
  <2>1. pending' = TRUE /\ UNCHANGED <<hp, conc, fight>>
    BY <1>2 DEF Magic!Attacked
  <2>2. PICK s \in Wards, n \in Magic!SlotLevels : Magic!Available(s) /\ Magic!Payable(s, n)
    BY <1>2 DEF Magic!Offered
  <2>3. n >= Rank[s] /\ slots[n] > 0
    BY <2>2, SlotFacts DEF Magic!Payable
  <2>4. s \in Wards \cap (known \cup prepared)
    BY <2>2 DEF Magic!Available
  <2>5. Magic!OffersCastable'
    BY <1>1, <1>2, <2>1, <2>3, <2>4 DEF Magic!OffersCastable
  <2>6. Magic!TypeOK' /\ Magic!RepertoireFits' /\ Magic!AwakeToConcentrate'
    BY <1>1, <2>1 DEF Magic!TypeOK, Magic!RepertoireFits, Magic!AwakeToConcentrate
  <2> QED
    BY <1>1, <2>1, <2>5, <2>6
<1>3. CASE ~(Magic!Offered # {} /\ "reaction" \notin fight.spent /\ hp > 0)
  <2>1. /\ pending' = FALSE /\ Magic!Hurt(conc, amount, held)
        /\ fight' = [turn |-> "hero", spent |-> IF hp' = 0 THEN {"action"} ELSE {}]
    BY <1>3 DEF Magic!Attacked
  <2>2. fight' \in Turns
    BY <2>1 DEF Turns
  <2>3. hp' \in 0..MaxHp /\ conc' \in Holding \cup {"none"} /\ (hp' = 0 => conc' = "none")
    BY <2>1, HurtLetsGo DEF Magic!TypeOK
  <2>4. SlotTable[level] = SlotTable[level'] /\ dice' \in 0..level /\ scrolls' \in 0..Scrolls
    BY <1>1 DEF Magic!TypeOK
  <2>5. /\ slots' \in [Magic!SlotLevels -> Nat] /\ debt' \in Nat
        /\ \A m \in Magic!SlotLevels : slots'[m] <= SlotTable[level][m]
        /\ Sum(slots', Magic!SlotLevels) + debt' = Sum(SlotTable[level], Magic!SlotLevels)
    BY <1>1 DEF Magic!TypeOK
  <2> QED
    BY <1>1, <2>1, <2>2, <2>3, <2>4, <2>5, SameRepertoire
<1> QED
  BY <1>2, <1>3

LEMMA AnswerKeeps ==
    ASSUME MagicInv, NEW s, NEW n \in Magic!SlotLevels \cup {0}, NEW amount \in 0..2, NEW held \in BOOLEAN,
           Magic!Answer(s, n, amount, held)
    PROVE  MagicInv'
<1> USE DEF MagicInv
<1>1. /\ pending' = FALSE
      /\ fight' = [turn |-> "hero", spent |-> IF hp' = 0 THEN {"action"} ELSE {}]
      /\ UNCHANGED <<level, known, prepared, dice, scrolls>>
  BY DEF Magic!Answer
<1>2. fight' \in Turns
  BY <1>1 DEF Turns
<1>3. hp' \in 0..MaxHp /\ conc' \in Holding \cup {"none"} /\ (hp' = 0 => conc' = "none")
  <2>1. CASE amount > 0
    <3>1. Magic!Hurt(conc, amount, held)
      BY <2>1 DEF Magic!Answer
    <3> QED
      BY <3>1, HurtLetsGo DEF Magic!TypeOK
  <2>2. CASE ~(amount > 0)
    <3>1. UNCHANGED <<hp, conc>>
      BY <2>2 DEF Magic!Answer
    <3> QED
      BY <3>1 DEF Magic!TypeOK, Magic!AwakeToConcentrate
  <2> QED
    BY <2>1, <2>2
<1>4. dice' \in 0..level /\ scrolls' \in 0..Scrolls
  BY <1>1 DEF Magic!TypeOK
<1>5. /\ slots' \in [Magic!SlotLevels -> Nat] /\ debt' \in Nat
      /\ \A m \in Magic!SlotLevels : slots'[m] <= SlotTable[level][m]
      /\ Sum(slots', Magic!SlotLevels) + debt' = Sum(SlotTable[level], Magic!SlotLevels)
  <2>1. CASE s = "decline"
    <3>1. slots' = slots /\ debt' = debt
      BY <2>1 DEF Magic!Answer
    <3> QED
      BY <3>1 DEF Magic!TypeOK
  <2>2. CASE s # "decline"
    <3>1. slots' = Magic!Paid(s, n) /\ debt' = Magic!Owed(s, n)
      BY <2>2 DEF Magic!Answer
    <3>2. s \in Magic!Spells /\ Magic!Payable(s, n)
      BY <2>2 DEF Magic!Answer, Magic!Offered, Magic!Spells
    <3> QED
      BY <3>1, <3>2, PaidIsOwed
  <2> QED
    BY <2>1, <2>2
<1> QED
  BY <1>1, <1>2, <1>3, <1>4, <1>5, SameRepertoire

\* All the slots there are owe nothing.
LEMMA FullSlots ==
    ASSUME NEW l \in Magic!Levels
    PROVE  /\ SlotTable[l] \in [Magic!SlotLevels -> Nat]
           /\ \A m \in Magic!SlotLevels : SlotTable[l][m] <= SlotTable[l][m]
           /\ Sum(SlotTable[l], Magic!SlotLevels) + 0 = Sum(SlotTable[l], Magic!SlotLevels)
<1>1. SlotTable[l] \in [Magic!SlotLevels -> Nat] /\ IsFiniteSet(Magic!SlotLevels)
  BY SlotFacts
<1>2. Sum(SlotTable[l], Magic!SlotLevels) \in Nat
  BY <1>1, SumIsNat
<1> QED
  BY <1>1, <1>2

LEMMA RestKeeps ==
    ASSUME MagicInv,
           (\E turn \in {"hero", "foe"} : Magic!StartFight(turn))
             \/ (\E heal \in BOOLEAN : Magic!ShortRest(heal)) \/ Magic!LongRest
    PROVE  MagicInv'
<1> USE DEF MagicInv
<1>1. /\ fight.turn = "none" /\ hp > 0 /\ ~pending
      /\ UNCHANGED <<level, known, prepared, scrolls, pending>>
  BY DEF Magic!StartFight, Magic!ShortRest, Magic!LongRest
<1>2. fight' \in Turns /\ scrolls' \in 0..Scrolls /\ pending' = FALSE
  BY <1>1 DEF Magic!StartFight, Magic!ShortRest, Magic!LongRest, Turns, Magic!TypeOK
<1>3. level \in Magic!Levels /\ level \in Nat /\ MaxHp \in Nat /\ hp \in 1..MaxHp /\ dice \in 0..level
  BY <1>1, SlotFacts DEF Magic!TypeOK
<1>4. hp' \in 0..MaxHp /\ hp' # 0
  <2>1. Magic!Min({MaxHp, hp + 1}) = IF MaxHp <= hp + 1 THEN MaxHp ELSE hp + 1
    BY <1>3, LeastOfTwo
  <2>2. hp' \in {hp, MaxHp, Magic!Min({MaxHp, hp + 1})}
    BY DEF Magic!StartFight, Magic!ShortRest, Magic!LongRest
  <2> QED
    BY <1>3, <2>1, <2>2
<1>5. dice' \in 0..level
  <2>1. Magic!Min({level, dice + 1}) = IF level <= dice + 1 THEN level ELSE dice + 1
    BY <1>3, LeastOfTwo
  <2>2. dice' \in {dice, IF dice > 0 THEN dice - 1 ELSE 0, Magic!Min({level, dice + 1})}
    BY DEF Magic!StartFight, Magic!ShortRest, Magic!LongRest
  <2> QED
    BY <1>3, <2>1, <2>2
<1>6. conc' \in Holding \cup {"none"}
  BY DEF Magic!StartFight, Magic!ShortRest, Magic!LongRest, Magic!TypeOK
<1>7. (slots' = slots /\ debt' = debt) \/ (slots' = SlotTable[level] /\ debt' = 0)
  BY DEF Magic!StartFight, Magic!ShortRest, Magic!LongRest
<1>8. /\ slots' \in [Magic!SlotLevels -> Nat] /\ debt' \in Nat
      /\ \A m \in Magic!SlotLevels : slots'[m] <= SlotTable[level][m]
      /\ Sum(slots', Magic!SlotLevels) + debt' = Sum(SlotTable[level], Magic!SlotLevels)
  <2>1. CASE slots' = slots /\ debt' = debt
    BY <2>1 DEF Magic!TypeOK
  <2>2. CASE slots' = SlotTable[level] /\ debt' = 0
    BY <1>3, <2>2, FullSlots
  <2> QED
    BY <1>7, <2>1, <2>2
<1> QED
  BY <1>1, <1>2, <1>4, <1>5, <1>6, <1>8, SameRepertoire

\* No table falls with the level.
LEMMA LevelUpKeeps ==
    ASSUME MagicInv, Magic!LevelUp
    PROVE  MagicInv'
<1> USE DEF MagicInv
<1>1. /\ level' = level + 1 /\ level' \in Magic!Levels /\ dice' = dice + 1
      /\ slots' = SlotTable[level'] /\ debt' = 0 /\ fight.turn = "none" /\ ~pending
      /\ hp' = Magic!Min({MaxHp, hp + 1})
      /\ UNCHANGED <<known, prepared, conc, scrolls, fight, pending>>
  BY DEF Magic!LevelUp
<1>2. level \in Magic!Levels /\ level \in Nat /\ MaxHp \in Nat /\ hp \in 0..MaxHp /\ dice \in 0..level
  BY SlotFacts DEF Magic!TypeOK
<1>3. hp' \in 0..MaxHp /\ (hp' = 0 => hp = 0)
  <2>1. Magic!Min({MaxHp, hp + 1}) = IF MaxHp <= hp + 1 THEN MaxHp ELSE hp + 1
    BY <1>2, LeastOfTwo
  <2> QED
    BY <1>1, <1>2, <2>1
<1>4. dice' \in 0..level'
  BY <1>1, <1>2
<1>5. /\ slots' \in [Magic!SlotLevels -> Nat]
      /\ \A m \in Magic!SlotLevels : slots'[m] <= SlotTable[level'][m]
      /\ Sum(slots', Magic!SlotLevels) + debt' = Sum(SlotTable[level'], Magic!SlotLevels)
  BY <1>1, FullSlots
<1>6. Magic!TypeOK'
  BY <1>1, <1>3, <1>4, <1>5 DEF Magic!TypeOK
<1>7. Magic!AwakeToConcentrate' /\ Magic!OffersCastable'
  BY <1>1, <1>3 DEF Magic!AwakeToConcentrate, Magic!OffersCastable
<1>8. Magic!RepertoireFits'
  <2>1. \A table \in {KnownTable, CantripTable, PreparedTable} :
          table[level] \in Nat /\ table[level'] \in Nat /\ table[level] <= table[level']
    BY <1>1, <1>2, SpellAssumption DEF Magic!Levels
  <2>2. \A S : Magic!Cardinality(S) = Cardinality(S)
    BY DEF Magic!Cardinality, Cardinality
  <2>3. /\ Cardinality(known \cap Cantrips) \in Nat /\ Cardinality(Magic!Leveled(known)) \in Nat
        /\ Cardinality(prepared) \in Nat
    BY FS_Subset, FS_CardinalityType DEF Magic!Leveled
  <2>4. /\ Cardinality(known \cap Cantrips) <= CantripTable[level']
        /\ Cardinality(Magic!Leveled(known)) <= KnownTable[level']
        /\ Cardinality(prepared) <= PreparedTable[level']
    BY <2>1, <2>2, <2>3 DEF Magic!RepertoireFits
  <2>5. Magic!Leveled(known)' = Magic!Leveled(known)
    BY <1>1 DEF Magic!Leveled
  <2> QED
    BY <1>1, <2>2, <2>4, <2>5 DEF Magic!RepertoireFits
<1> QED
  BY <1>1, <1>5, <1>6, <1>7, <1>8

LEMMA NextMagic == MagicInv /\ Magic!Next => MagicInv'
<1> SUFFICES ASSUME MagicInv, Magic!Next PROVE MagicInv'
  OBVIOUS
<1>1. ASSUME NEW s \in Magic!Spells, Magic!Learn(s) \/ Magic!Prepare(s) \/ Magic!Unprepare(s)
      PROVE  MagicInv'
  BY <1>1, LearnKeeps, PrepareKeeps
<1>2. ASSUME NEW s \in Magic!Spells, NEW n \in Magic!SlotLevels \cup {0}, NEW held \in BOOLEAN,
             \/ \E self, won \in BOOLEAN : Magic!CastBlast(s, n, self, held, won)
             \/ \E scroll \in BOOLEAN : Magic!CastCure(s, n, scroll)
             \/ \E amount \in 0..2 : Magic!Answer(s, n, amount, held)
      PROVE  MagicInv'
  BY <1>2, CastBlastKeeps, CastCureKeeps, AnswerKeeps
<1>3. ASSUME NEW held \in BOOLEAN, NEW amount \in 1..2,
             Magic!Attacked(amount, held) \/ Magic!Answer("decline", 0, amount, held)
      PROVE  MagicInv'
  BY <1>3, AttackedKeeps, AnswerKeeps
<1> QED
  BY <1>1, <1>2, <1>3, RestKeeps, LevelUpKeeps DEF Magic!Next

LEMMA InitMagic == Magic!Init => MagicInv
<1> SUFFICES ASSUME Magic!Init PROVE MagicInv
  OBVIOUS
<1> USE DEF Magic!Init
<1>1. Magic!TypeOK
  BY SlotFacts DEF Magic!TypeOK
<1>2. fight \in Turns /\ pending \in BOOLEAN /\ debt \in Nat /\ (pending => fight.turn = "foe")
  BY DEF Turns, Magic!NoFight
<1>3. /\ \A n \in Magic!SlotLevels : slots[n] <= SlotTable[level][n]
      /\ Sum(slots, Magic!SlotLevels) + debt = Sum(SlotTable[level], Magic!SlotLevels)
  BY SlotFacts, FullSlots
<1>4. IsFiniteSet(known) /\ IsFiniteSet(prepared)
  BY FS_EmptySet
<1>5. Magic!RepertoireFits
  <2>1. Magic!Cardinality({}) = 0
    BY FS_EmptySet DEF Magic!Cardinality, Cardinality
  <2>2. known \cap Cantrips = {} /\ Magic!Leveled(known) = {}
    BY DEF Magic!Leveled
  <2>3. CantripTable[level] \in Nat /\ KnownTable[level] \in Nat /\ PreparedTable[level] \in Nat
    BY SpellAssumption, SlotFacts DEF Magic!Levels
  <2> QED
    BY <2>1, <2>2, <2>3 DEF Magic!RepertoireFits
<1>6. Magic!AwakeToConcentrate /\ Magic!OffersCastable
  BY DEF Magic!AwakeToConcentrate, Magic!OffersCastable
<1> QED
  BY <1>1, <1>2, <1>3, <1>4, <1>5, <1>6 DEF MagicInv

\* The slots that are left and owed are those that the level gives.
LEMMA SlotsHold == MagicInv => Magic!SlotsAddUp
<1> SUFFICES ASSUME MagicInv PROVE Magic!SlotsAddUp
  OBVIOUS
<1>1. slots \in [Magic!SlotLevels -> Nat] /\ SlotTable[level] \in [Magic!SlotLevels -> Nat]
  BY SlotFacts DEF MagicInv, Magic!TypeOK
<1>2. ASSUME NEW w \in [Magic!SlotLevels -> Nat]
      PROVE  Magic!MapThenSumSet(LAMBDA n : w[n], Magic!SlotLevels) = Sum(w, Magic!SlotLevels)
  <2> DEFINE Step(iter) == [s \in SUBSET Magic!SlotLevels |->
                              IF s = {} THEN 0 ELSE w[First(s)] + iter[s \ {First(s)}]]
             F == CHOOSE iter : iter = Step(iter)
  <2>1. Magic!MapThenSumSet(LAMBDA n : w[n], Magic!SlotLevels) = F[Magic!SlotLevels]
    BY Zenon DEF Magic!MapThenSumSet, Magic!MapThenFoldSet, First
  <2>2. IsFiniteSet(Magic!SlotLevels)
    BY SlotFacts
  <2>3. IsSum(SumFn(w, Magic!SlotLevels), w, Magic!SlotLevels)
    BY <2>2, SumExists
  <2>4. ASSUME NEW iter PROVE IsSum(iter, w, Magic!SlotLevels) <=> iter = Step(iter)
    BY DEF IsSum
  <2>5. IsSum(F, w, Magic!SlotLevels)
    <3>1. SumFn(w, Magic!SlotLevels) = Step(SumFn(w, Magic!SlotLevels))
      BY <2>3, <2>4
    <3> HIDE DEF Step
    <3>2. F = Step(F)
      BY <3>1
    <3> QED
      BY <2>4, <3>2
  <2> HIDE DEF F
  <2> QED
    BY <2>1, <2>2, <2>3, <2>5, SumIsUnique DEF Sum
<1>3. PICK full : full = SlotTable[level]
  OBVIOUS
<1>4. /\ Magic!MapThenSumSet(LAMBDA n : slots[n], Magic!SlotLevels) = Sum(slots, Magic!SlotLevels)
      /\ Magic!MapThenSumSet(LAMBDA n : SlotTable[level][n], Magic!SlotLevels)
           = Sum(SlotTable[level], Magic!SlotLevels)
  BY <1>1, <1>2
<1> QED
  BY <1>4 DEF MagicInv, Magic!SlotsAddUp

-----------------------------------------------------------------------------
(* What the hero owns. The entries of an id are a stack of at most two, and  *)
(* only the first is worn: a second one arises when units join a worn item.  *)

Places == (UNION {SlotsOf[i] : i \in Ids}) \cup {"none", "loose"}
Entries == [n : Nat \ {0}, worn : Places, within : Containers \cup {"none"}, hot : BOOLEAN]
Stacks == {q \in Seq(Entries) : Len(q) <= 2 /\ (Len(q) = 2 => q[2].worn = "none")}
Piles == [Ids -> Stacks]

Amount(q) == IF q = <<>> THEN 0 ELSE IF Len(q) = 1 THEN q[1].n ELSE q[1].n + q[2].n
Gear(pile) == [i \in Ids |-> IF pile[i] = <<>> THEN "none" ELSE pile[i][1].worn]

\* Units that join a stack, and units that leave it.
Joined(q, e) ==
    LET loose == {k \in DOMAIN q : q[k].worn = "none"}
    IN  IF loose = {} THEN Append(q, e) ELSE [q EXCEPT ![Possessions!Min(loose)].n = @ + e.n]
Taken(q, n) == IF q[1].n = n THEN Tail(q) ELSE [q EXCEPT ![1].n = @ - n]

LEMMA StackFacts ==
    ASSUME NEW q \in Stacks
    PROVE  /\ q \in Seq(Entries) /\ Len(q) \in 0..2 /\ DOMAIN q = 1..Len(q)
           /\ (q = <<>>) <=> (Len(q) = 0)
           /\ \A k \in 1..Len(q) : q[k] \in Entries /\ q[k].n \in Nat /\ q[k].n > 0
           /\ Len(q) = 2 => q[2].worn = "none"
           /\ Amount(q) \in Nat /\ (Amount(q) = 0 <=> q = <<>>)
           /\ q # <<>> => q[1].n <= Amount(q)
<1>1. q \in Seq(Entries) /\ Len(q) \in 0..2 /\ DOMAIN q = 1..Len(q) /\ ((q = <<>>) <=> (Len(q) = 0))
  <2>1. q \in Seq(Entries) /\ Len(q) <= 2
    BY DEF Stacks
  <2>2. Len(q) \in Nat /\ DOMAIN q = 1..Len(q)
    BY <2>1
  <2>3. (q = <<>>) <=> (Len(q) = 0)
    BY <2>1, EmptySeq
  <2> QED
    BY <2>1, <2>2, <2>3
<1>2. \A k \in 1..Len(q) : q[k] \in Entries /\ q[k].n \in Nat /\ q[k].n > 0
  <2>1. ASSUME NEW k \in 1..Len(q) PROVE q[k] \in Entries
    BY <1>1
  <2> QED
    BY <2>1 DEF Entries
<1>3. Amount(q) \in Nat /\ (Amount(q) = 0 <=> q = <<>>) /\ (q # <<>> => q[1].n <= Amount(q))
  <2>1. CASE Len(q) = 0
    BY <1>1, <2>1 DEF Amount
  <2>2. CASE Len(q) = 1
    BY <1>1, <1>2, <2>2 DEF Amount
  <2>3. CASE Len(q) = 2
    BY <1>1, <1>2, <2>3 DEF Amount
  <2> QED
    BY <1>1, <2>1, <2>2, <2>3
<1> QED
  BY <1>1, <1>2, <1>3 DEF Stacks

\* One entry changes its units, its place or its bag.
Changed(q, k, e) == [q EXCEPT ![k] = e]

LEMMA ChangedEntry ==
    ASSUME NEW q \in Stacks, NEW k \in 1..Len(q), NEW e \in Entries, k = 2 => e.worn = "none"
    PROVE  /\ Changed(q, k, e) \in Stacks /\ Len(Changed(q, k, e)) = Len(q) /\ Changed(q, k, e)[k] = e
           /\ \A j \in 1..Len(q) : j # k => Changed(q, k, e)[j] = q[j]
<1>1. PICK r : r = Changed(q, k, e)
  OBVIOUS
<1>2. q \in Seq(Entries) /\ Len(q) \in 0..2 /\ DOMAIN q = 1..Len(q) /\ (Len(q) = 2 => q[2].worn = "none")
  BY StackFacts
<1>3. r \in Seq(Entries) /\ Len(r) = Len(q)
  BY <1>1, <1>2 DEF Changed
<1>4. r[k] = e /\ \A j \in 1..Len(q) : j # k => r[j] = q[j]
  BY <1>1, <1>2 DEF Changed
<1>5. Len(r) = 2 => r[2].worn = "none"
  BY <1>2, <1>3, <1>4
<1> QED
  BY <1>1, <1>2, <1>3, <1>4, <1>5 DEF Stacks

LEMMA JoinedFits ==
    ASSUME NEW q \in Stacks, NEW e \in Entries, e.worn = "none"
    PROVE  /\ Joined(q, e) \in Stacks /\ Joined(q, e) # <<>>
           /\ Amount(Joined(q, e)) = Amount(q) + e.n
           /\ q = <<>> => Joined(q, e)[1] = e
           /\ q # <<>> => Joined(q, e)[1].worn = q[1].worn /\ Joined(q, e)[1].within = q[1].within
           /\ (Len(q) <= 1 /\ (q # <<>> => q[1].worn = "none")) => Len(Joined(q, e)) = 1
<1> DEFINE loose == {k \in DOMAIN q : q[k].worn = "none"}
           r == Joined(q, e)
<1>1. /\ q \in Seq(Entries) /\ Len(q) \in 0..2 /\ DOMAIN q = 1..Len(q) /\ ((q = <<>>) <=> (Len(q) = 0))
      /\ \A k \in 1..Len(q) : q[k] \in Entries /\ q[k].n \in Nat /\ q[k].n > 0
      /\ Len(q) = 2 => q[2].worn = "none"
  BY StackFacts
<1>2. e.n \in Nat /\ e.n > 0
  BY DEF Entries
<1>3. CASE loose = {}
  <2>1. r = Append(q, e)
    BY <1>3 DEF Joined
  <2>2. Len(q) # 2
    BY <1>1, <1>3
  <2>3. /\ r \in Seq(Entries) /\ Len(r) = Len(q) + 1 /\ r[Len(q) + 1] = e
        /\ \A k \in 1..Len(q) : r[k] = q[k]
    BY <1>1, <2>1
  <2>4. r \in Stacks /\ r # <<>>
    BY <1>1, <2>2, <2>3 DEF Stacks
  <2>5. CASE Len(q) = 0
    BY <1>1, <1>2, <2>3, <2>4, <2>5 DEF Amount
  <2>6. CASE Len(q) = 1
    <3>1. q # <<>> /\ q[1].worn # "none"
      BY <1>1, <1>3, <2>6
    <3>2. Amount(r) = Amount(q) + e.n /\ r[1] = q[1]
      BY <1>1, <1>2, <2>3, <2>4, <2>6 DEF Amount
    <3> QED
      BY <2>4, <3>1, <3>2
  <2> QED
    BY <1>1, <2>2, <2>5, <2>6
<1>4. CASE loose # {}
  <2>1. PICK m : m = Possessions!Min(loose)
    OBVIOUS
  <2>2. \E k \in loose : \A j \in loose : k <= j
    <3>1. loose \subseteq 1..2
      BY <1>1
    <3> HIDE DEF loose
    <3>2. CASE 1 \in loose
      BY <3>1, <3>2
    <3>3. CASE 1 \notin loose
      <4>1. \A k \in loose : k = 2
        BY <3>1, <3>3
      <4> QED
        BY <1>4, <4>1
    <3> QED
      BY <3>2, <3>3
  <2>3. m \in loose
    BY <2>1, <2>2 DEF Possessions!Min
  <2>4. m \in 1..Len(q) /\ q[m].worn = "none" /\ q[m] \in Entries /\ q[m].n \in Nat
    BY <1>1, <2>3
  <2>5. PICK f : f = [q[m] EXCEPT !.n = @ + e.n]
    OBVIOUS
  <2>6. f \in Entries /\ f.n = q[m].n + e.n /\ f.worn = q[m].worn /\ f.within = q[m].within
    BY <1>2, <2>4, <2>5 DEF Entries
  <2>7. r = [q EXCEPT ![m] = f]
    BY <1>4, <2>1, <2>5 DEF Joined
  <2>8. /\ r \in Stacks /\ Len(r) = Len(q) /\ r[m] = f
        /\ \A j \in 1..Len(q) : j # m => r[j] = q[j]
    <3>1. r = Changed(q, m, f)
      BY <2>7 DEF Changed
    <3>2. m = 2 => f.worn = "none"
      BY <2>4, <2>6
    <3> HIDE DEF r
    <3> QED
      BY <2>4, <2>6, <3>1, <3>2, ChangedEntry
  <2> HIDE DEF r, loose
  <2>9. r # <<>> /\ Len(q) # 0 /\ q # <<>>
    BY <1>1, <2>4, <2>8
  <2>10. r[1].worn = q[1].worn /\ r[1].within = q[1].within
    BY <1>1, <2>4, <2>6, <2>8
  <2>11. Amount(r) = Amount(q) + e.n
    <3>1. CASE Len(q) = 1
      BY <1>1, <1>2, <2>4, <2>6, <2>8, <2>9, <3>1 DEF Amount
    <3>2. CASE Len(q) = 2
      <4>1. q[1].n \in Nat /\ q[2].n \in Nat /\ e.n \in Nat
        BY <1>1, <1>2, <3>2
      <4>2. m \in {1, 2} /\ f.n = q[m].n + e.n /\ r[m] = f
        BY <2>4, <2>6, <2>8, <3>2
      <4>3. m = 1 => r[2] = q[2]
        BY <2>8, <3>2
      <4>4. m = 2 => r[1] = q[1]
        BY <2>8, <3>2
      <4>5. r[1].n + r[2].n = (q[1].n + q[2].n) + e.n
        BY ONLY <4>1, <4>2, <4>3, <4>4
      <4> QED
        BY <2>8, <2>9, <3>2, <4>5 DEF Amount
    <3> QED
      BY <1>1, <2>9, <3>1, <3>2
  <2> QED
    BY <1>1, <2>8, <2>9, <2>10, <2>11 DEF r
<1> QED
  BY <1>3, <1>4

LEMMA TakenFits ==
    ASSUME NEW q \in Stacks, q # <<>>, NEW n \in Nat \ {0}, n <= q[1].n
    PROVE  /\ Taken(q, n) \in Stacks /\ Len(Taken(q, n)) <= Len(q)
           /\ Amount(Taken(q, n)) = Amount(q) - n
           /\ n < q[1].n => Taken(q, n) # <<>>
           /\ (n < q[1].n \/ Len(q) = 1) /\ Taken(q, n) # <<>> =>
                 Taken(q, n)[1].worn = q[1].worn /\ Taken(q, n)[1].within = q[1].within
           /\ n = q[1].n /\ Taken(q, n) # <<>> => Taken(q, n)[1].worn = "none"
<1> DEFINE r == Taken(q, n)
<1>1. /\ q \in Seq(Entries) /\ Len(q) \in 1..2 /\ DOMAIN q = 1..Len(q)
      /\ \A k \in 1..Len(q) : q[k] \in Entries /\ q[k].n \in Nat /\ q[k].n > 0
      /\ Len(q) = 2 => q[2].worn = "none"
  BY StackFacts
<1>2. CASE q[1].n = n
  <2>1. r = Tail(q)
    BY <1>2 DEF Taken
  <2>2. r \in Seq(Entries) /\ Len(r) = Len(q) - 1 /\ \A k \in 1..Len(r) : r[k] = q[k + 1]
    BY <1>1, <2>1
  <2>3. r \in Stacks
    BY <1>1, <2>2 DEF Stacks
  <2> HIDE DEF r
  <2>4. CASE Len(q) = 1
    <3>1. Len(r) = 0 /\ r = <<>> /\ q # <<>>
      BY <2>2, <2>4, EmptySeq
    <3>2. Amount(q) = q[1].n /\ Amount(r) = 0
      BY <2>4, <3>1 DEF Amount
    <3>3. Amount(r) = Amount(q) - n
      BY <1>2, <3>2
    <3> QED
      BY <1>1, <1>2, <2>3, <2>4, <3>1, <3>3 DEF r
  <2>5. CASE Len(q) = 2
    <3>1. Len(r) = 1 /\ r[1] = q[2] /\ r # <<>>
      BY <2>2, <2>5, EmptySeq
    <3>2. Amount(r) = Amount(q) - n
      BY <1>1, <1>2, <2>5, <3>1 DEF Amount
    <3> QED
      BY <1>1, <1>2, <2>3, <2>5, <3>1, <3>2 DEF r
  <2> QED
    BY <1>1, <2>4, <2>5
<1>3. CASE q[1].n # n
  <2>1. PICK f : f = [q[1] EXCEPT !.n = @ - n]
    OBVIOUS
  <2>2. f \in Entries /\ f.n = q[1].n - n /\ f.worn = q[1].worn /\ f.within = q[1].within
    BY <1>1, <1>3, <2>1 DEF Entries
  <2>3. r = [q EXCEPT ![1] = f]
    BY <1>3, <2>1 DEF Taken
  <2>4. r \in Stacks /\ Len(r) = Len(q) /\ r[1] = f /\ \A j \in 1..Len(q) : j # 1 => r[j] = q[j]
    <3>1. r = Changed(q, 1, f)
      BY <2>3 DEF Changed
    <3>2. 1 \in 1..Len(q) /\ 1 # 2
      BY <1>1
    <3> HIDE DEF r
    <3> QED
      BY <2>2, <3>1, <3>2, ChangedEntry
  <2> HIDE DEF r
  <2>5. r # <<>>
    BY <1>1, <2>4
  <2>6. Amount(r) = Amount(q) - n
    <3>1. CASE Len(q) = 1
      BY <1>1, <2>2, <2>4, <2>5, <3>1 DEF Amount
    <3>2. CASE Len(q) = 2
      <4>1. r[1].n + r[2].n = (q[1].n + q[2].n) - n
        BY <1>1, <2>2, <2>4, <3>2
      <4> QED
        BY <2>4, <2>5, <3>2, <4>1 DEF Amount
    <3> QED
      BY <1>1, <3>1, <3>2
  <2> QED
    BY <1>1, <1>3, <2>2, <2>4, <2>5, <2>6 DEF r
<1> QED
  BY <1>2, <1>3

LEMMA ItemFacts ==
    /\ MaxUnits \in Nat /\ MaxUnits > 0 /\ "none" \notin Ids
    /\ Containers \subseteq Ids /\ Listed \subseteq Ids /\ Objects \subseteq Ids /\ Reward \in Ids
    /\ Objects \cap (Containers \cup Potions \cup Amulets \cup Listed \cup {Reward} \cup DOMAIN SplitOf) = {}
    /\ Possessions!Cardinality(Containers) + 1 \in Nat
    /\ {"none", "loose"} \subseteq Places
<1>1. IsFiniteSet(Containers)
  BY ItemAssumption, FS_Subset
<1>2. Possessions!Cardinality(Containers) = Cardinality(Containers)
  BY DEF Possessions!Cardinality, Cardinality
<1>3. Cardinality(Containers) + 1 \in Nat
  BY <1>1, FS_CardinalityType
<1>4. {"none", "loose"} \subseteq Places
  BY DEF Places
<1>5. /\ MaxUnits \in Nat /\ MaxUnits > 0 /\ "none" \notin Ids
      /\ Containers \subseteq Ids /\ Listed \subseteq Ids /\ Objects \subseteq Ids /\ Reward \in Ids
  BY ItemAssumption
<1>6. Objects \cap (Containers \cup Potions \cup Amulets \cup Listed \cup {Reward} \cup DOMAIN SplitOf) = {}
  BY ItemAssumption, Zenon
<1> QED
  BY <1>2, <1>3, <1>4, <1>5, <1>6

LEMMA PutIs ==
    ASSUME NEW pile, NEW i, NEW e
    PROVE  Possessions!Put(pile, i, e) = [pile EXCEPT ![i] = Joined(pile[i], e)]
BY DEF Possessions!Put, Joined, Possessions!None

LEMMA LessIs ==
    ASSUME NEW pile, NEW i, NEW n
    PROVE  Possessions!Less(pile, i, n) = [pile EXCEPT ![i] = Taken(pile[i], n)]
<1>1. CASE pile[i][1].n = n
  BY <1>1 DEF Possessions!Less, Taken
<1>2. CASE pile[i][1].n # n
  BY <1>2 DEF Possessions!Less, Taken
<1> QED
  BY <1>1, <1>2

LEMMA PieceFits ==
    ASSUME NEW n \in Nat \ {0}, NEW hot \in BOOLEAN
    PROVE  LET e == Possessions!Piece(n, hot)
           IN  /\ e \in Entries /\ e.n = n /\ e.worn = "none" /\ e.within = "none"
               /\ <<e>> \in Stacks /\ Amount(<<e>>) = n /\ Len(<<e>>) = 1 /\ <<e>> # <<>> /\ <<e>>[1] = e
<1> DEFINE e == Possessions!Piece(n, hot)
<1>1. e \in Entries /\ e.n = n /\ e.worn = "none" /\ e.within = "none"
  BY ItemFacts DEF Possessions!Piece, Possessions!None, Entries
<1> HIDE DEF e
<1>2. <<e>> \in Seq(Entries) /\ Len(<<e>>) = 1 /\ <<e>> # <<>> /\ <<e>>[1] = e
  BY <1>1
<1>3. <<e>> \in Stacks /\ Amount(<<e>>) = n
  BY <1>1, <1>2 DEF Stacks, Amount
<1> QED
  BY <1>1, <1>2, <1>3 DEF e

LEMMA NothingFits ==
    /\ <<>> \in Stacks /\ Amount(<<>>) = 0
    /\ Possessions!Nothing \in Piles /\ \A i \in Ids : Possessions!Nothing[i] = <<>>
<1>1. <<>> \in Stacks
  <2>1. <<>> \in Seq(Entries) /\ Len(<<>>) = 0
    BY EmptySeq
  <2> QED
    BY <2>1 DEF Stacks
<1> QED
  BY <1>1 DEF Possessions!Nothing, Piles, Amount

\* A load brings back what is missing of the hero's objects, and nothing else.
LEMMA LoadedFits ==
    ASSUME NEW pile \in Piles, NEW objs
    PROVE  /\ Possessions!Loaded(pile, objs) \in Piles
           /\ \A i \in Ids : \/ Possessions!Loaded(pile, objs)[i] = pile[i]
                             \/ /\ i \in Objects /\ pile[i] = <<>>
                                /\ Possessions!Loaded(pile, objs)[i] = <<Possessions!Piece(1, FALSE)>>
<1>1. <<Possessions!Piece(1, FALSE)>> \in Stacks
  <2>1. 1 \in Nat \ {0} /\ FALSE \in BOOLEAN
    OBVIOUS
  <2>2. <<Possessions!Piece(1, FALSE)>> \in Stacks
    BY <2>1, PieceFits, Zenon
  <2> QED
    BY <2>2
<1>2. \A i \in Ids : pile[i] \in Stacks
  BY DEF Piles
<1> QED
  BY <1>1, <1>2 DEF Possessions!Loaded, Piles

\* Only first entries are worn.
LEMMA GearIs ==
    ASSUME NEW pile \in Piles
    PROVE  /\ Possessions!WornAtAll(pile) = {i \in Ids : Gear(pile)[i] # "none"}
           /\ \A s : s # "none" => Possessions!Worn(pile, s) = {i \in Ids : Gear(pile)[i] = s}
<1>1. ASSUME NEW i \in Ids
      PROVE  /\ DOMAIN pile[i] = 1..Len(pile[i]) /\ Len(pile[i]) \in 0..2
             /\ (pile[i] = <<>>) <=> (Len(pile[i]) = 0)
             /\ Len(pile[i]) = 2 => pile[i][2].worn = "none"
  <2>1. pile[i] \in Stacks
    BY DEF Piles
  <2> QED
    BY <2>1, StackFacts
<1>2. ASSUME NEW i \in Ids, NEW s, s # "none"
      PROVE  (\E k \in DOMAIN pile[i] : pile[i][k].worn = s) <=> Gear(pile)[i] = s
  <2>1. Gear(pile)[i] = IF pile[i] = <<>> THEN "none" ELSE pile[i][1].worn
    BY DEF Gear
  <2> QED
    BY <1>1, <1>2, <2>1
<1>3. ASSUME NEW i \in Ids
      PROVE  (\E k \in DOMAIN pile[i] : pile[i][k].worn # "none") <=> Gear(pile)[i] # "none"
  <2>1. Gear(pile)[i] = IF pile[i] = <<>> THEN "none" ELSE pile[i][1].worn
    BY DEF Gear
  <2> QED
    BY <1>1, <2>1
<1> QED
  BY <1>2, <1>3 DEF Possessions!WornAtAll, Possessions!Worn, Possessions!None

-----------------------------------------------------------------------------
(* The bags around an item, and how they stay a tree.                        *)

Around(pile, x) == IF x = "none" \/ pile[x] = <<>> THEN "none" ELSE pile[x][1].within

IsChain(up, pile, i, m) ==
    up = [k \in 0..m |->
             IF k = 0 THEN i
             ELSE IF up[k - 1] = "none" \/ (up[k - 1] # "none" /\ pile[up[k - 1]] = <<>>) THEN "none"
             ELSE pile[up[k - 1]][1].within]
ChainFn(pile, i, m) == CHOOSE up : IsChain(up, pile, i, m)

LEMMA ChainExists ==
    ASSUME NEW pile, NEW i, NEW m \in Nat
    PROVE  /\ ChainFn(pile, i, m)[0] = i
           /\ \A k \in 0..m : k + 1 <= m => ChainFn(pile, i, m)[k + 1] = Around(pile, ChainFn(pile, i, m)[k])
<1> DEFINE N == {n \in Nat : \E up : IsChain(up, pile, i, n)}
<1>1. 0 \in N
  <2> DEFINE up == [k \in 0..0 |-> i]
  <2>1. IsChain(up, pile, i, 0)
    BY DEF IsChain
  <2> QED
    BY <2>1
<1>2. ASSUME NEW n \in N PROVE n + 1 \in N
  <2>1. PICK up : IsChain(up, pile, i, n)
    OBVIOUS
  <2>2. up[0] = i /\ \A k \in 1..n : up[k] = Around(pile, up[k - 1])
    <3>1. \A k \in 0..n :
             up[k] = IF k = 0 THEN i
                     ELSE IF up[k - 1] = "none" \/ (up[k - 1] # "none" /\ pile[up[k - 1]] = <<>>) THEN "none"
                     ELSE pile[up[k - 1]][1].within
      BY <2>1 DEF IsChain
    <3>2. up[0] = i
      BY <3>1
    <3>3. \A k \in 1..n : k \in 0..n /\ k # 0
      OBVIOUS
    <3> QED
      BY <3>1, <3>2, <3>3 DEF Around
  <2> DEFINE more == [k \in 0..(n + 1) |-> IF k <= n THEN up[k] ELSE Around(pile, up[n])]
  <2>3. more[0] = i /\ \A k \in 1..(n + 1) : more[k] = Around(pile, more[k - 1])
    <3>1. more[0] = i
      BY <2>2
    <3>2. ASSUME NEW k \in 1..(n + 1) PROVE more[k] = Around(pile, more[k - 1])
      <4>1. CASE k <= n
        <5>1. more[k] = up[k] /\ more[k - 1] = up[k - 1] /\ k \in 1..n
          BY <4>1
        <5> QED
          BY <2>2, <5>1
      <4>2. CASE ~(k <= n)
        <5>1. k = n + 1 /\ more[k] = Around(pile, up[n]) /\ more[k - 1] = up[n]
          BY <4>2
        <5> QED
          BY <5>1
      <4> QED
        BY <4>1, <4>2
    <3> QED
      BY <3>1, <3>2
  <2>4. more = [k \in 0..(n + 1) |-> more[k]]
    OBVIOUS
  <2> HIDE DEF more
  <2>5. \A k \in 0..(n + 1) :
          more[k] = IF k = 0 THEN i
                    ELSE IF more[k - 1] = "none" \/ (more[k - 1] # "none" /\ pile[more[k - 1]] = <<>>) THEN "none"
                    ELSE pile[more[k - 1]][1].within
    BY <2>3 DEF Around
  <2>6. IsChain(more, pile, i, n + 1)
    BY <2>4, <2>5 DEF IsChain
  <2> QED
    BY <2>6
<1>3. N = Nat
  <2> HIDE DEF N
  <2>1. N \in SUBSET Nat
    BY DEF N
  <2> QED
    BY <1>1, <1>2, <2>1, NatSetInduction
<1>4. IsChain(ChainFn(pile, i, m), pile, i, m)
  <2>1. \E up : IsChain(up, pile, i, m)
    BY <1>3
  <2> QED
    BY <2>1, Zenon DEF ChainFn
<1>5. PICK up : up = ChainFn(pile, i, m)
  OBVIOUS
<1>6. IsChain(up, pile, i, m)
  BY <1>4, <1>5
<1>7. up[0] = i
  <2>1. 0 \in 0..m
    OBVIOUS
  <2> QED
    BY ONLY <1>6, <2>1 DEF IsChain
<1>8. ASSUME NEW k \in 0..m, k + 1 <= m PROVE up[k + 1] = Around(pile, up[k])
  <2>1. k + 1 \in 0..m /\ k + 1 # 0 /\ (k + 1) - 1 = k
    BY <1>8
  <2> QED
    BY <1>6, <2>1 DEF IsChain, Around
<1> QED
  BY <1>5, <1>7, <1>8

LEMMA InsideIs ==
    ASSUME NEW pile, NEW i, NEW c
    PROVE  Possessions!Inside(pile, i, c)
             <=> \E k \in 1..(Possessions!Cardinality(Containers) + 1) :
                    ChainFn(pile, i, Possessions!Cardinality(Containers) + 1)[k] = c
BY Zenon DEF Possessions!Inside, ChainFn, IsChain, Possessions!None

\* Where nothing is put into a bag, no bag gets into itself.
LEMMA ChainsOnlyBreak ==
    ASSUME NEW p \in Piles, NEW q \in Piles, NEW i \in Ids,
           \A x \in Ids : Around(q, x) = Around(p, x) \/ Around(q, x) = "none",
           Possessions!Inside(q, i, i)
    PROVE  Possessions!Inside(p, i, i)
<1>1. PICK m \in Nat : m = Possessions!Cardinality(Containers) + 1
  BY ItemFacts
<1>2. PICK f, g : f = ChainFn(p, i, m) /\ g = ChainFn(q, i, m)
  OBVIOUS
<1>3. /\ f[0] = i /\ \A k \in 0..m : k + 1 <= m => f[k + 1] = Around(p, f[k])
      /\ g[0] = i /\ \A k \in 0..m : k + 1 <= m => g[k + 1] = Around(q, g[k])
  BY <1>2, ChainExists
<1>4. \A x \in Ids \cup {"none"} : Around(p, x) \in Ids \cup {"none"}
  <2> SUFFICES ASSUME NEW x \in Ids, p[x] # <<>>, x # "none" PROVE p[x][1].within \in Ids \cup {"none"}
    BY DEF Around
  <2>1. p[x] \in Stacks
    BY DEF Piles
  <2>2. p[x][1] \in Entries
    BY <2>1, StackFacts
  <2> QED
    BY <2>2, ItemFacts DEF Entries
<1>5. Around(q, "none") = "none"
  BY DEF Around
<1> DEFINE N == {k \in Nat : k <= m => f[k] \in Ids \cup {"none"} /\ (g[k] = f[k] \/ g[k] = "none")}
<1>6. 0 \in N
  BY <1>3
<1>7. ASSUME NEW k \in N PROVE k + 1 \in N
  <2> SUFFICES ASSUME k + 1 <= m
               PROVE  f[k + 1] \in Ids \cup {"none"} /\ (g[k + 1] = f[k + 1] \/ g[k + 1] = "none")
    OBVIOUS
  <2>1. k \in 0..m /\ f[k] \in Ids \cup {"none"} /\ (g[k] = f[k] \/ g[k] = "none")
    OBVIOUS
  <2>2. f[k + 1] = Around(p, f[k]) /\ g[k + 1] = Around(q, g[k])
    BY <1>3, <2>1
  <2> QED
    BY <1>4, <1>5, <2>1, <2>2
<1>8. N = Nat
  <2> HIDE DEF N
  <2>1. N \in SUBSET Nat
    BY DEF N
  <2> QED
    BY <1>6, <1>7, <2>1, NatSetInduction
<1>9. PICK k \in 1..m : g[k] = i
  BY <1>1, <1>2, InsideIs
<1>10. k \in N
  BY <1>8
<1>11. f[k] = i
  BY <1>9, <1>10, ItemFacts
<1> QED
  BY <1>1, <1>2, <1>11, InsideIs

LEMMA LooserIsWhole ==
    ASSUME NEW p \in Piles, NEW q \in Piles, Possessions!Whole(p),
           \A i \in Ids : Len(q[i]) <= 1,
           \A i \in Ids : q[i] # <<>> /\ q[i][1].within # "none" =>
              /\ p[i] # <<>> /\ p[i][1].within = q[i][1].within
              /\ q[i][1].worn = "none" /\ q[q[i][1].within] # <<>>
    PROVE  Possessions!Whole(q)
<1>1. \A x \in Ids : Around(q, x) = Around(p, x) \/ Around(q, x) = "none"
  BY DEF Around
<1>2. ASSUME NEW i \in Ids, q[i] # <<>>, q[i][1].within # "none"
      PROVE  /\ q[i][1].worn = "none" /\ q[i][1].within \in Containers
             /\ q[q[i][1].within] # <<>> /\ ~Possessions!Inside(q, i, i)
  <2>1. p[i] # <<>> /\ p[i][1].within = q[i][1].within
    BY <1>2
  <2>2. p[i][1].within \in Containers /\ ~Possessions!Inside(p, i, i)
    BY <1>2, <2>1 DEF Possessions!Whole, Possessions!Owned, Possessions!None
  <2> QED
    BY <1>1, <1>2, <2>1, <2>2, ChainsOnlyBreak
<1> QED
  BY <1>2 DEF Possessions!Whole, Possessions!Owned, Possessions!None

-----------------------------------------------------------------------------
(* What holds of the hero's goods between two commands.                      *)

Parted == {SplitOf[i] : i \in DOMAIN SplitOf}
Single == Ids \ (Objects \cup Parted)

GoodsTypes ==
    /\ inv \in Piles /\ shared \in Piles /\ remains \in Piles
    /\ \A i \in Ids : Len(shared[i]) <= 1 /\ Gear(shared)[i] = "none"
    /\ stock \in [Listed -> 0..MaxUnits] /\ acquired \in [Listed -> 0..MaxUnits]
    /\ charge \in [Amulets -> 0..1] /\ shining \subseteq Amulets
    /\ spent \in [Ids -> Nat]
    /\ life \in {"alive", "dead"} /\ (life = "alive" => remains = Possessions!Nothing)
    /\ looted \in BOOLEAN /\ tampered \in BOOLEAN

\* No slot is used twice, and nothing is held beside a two-handed weapon.
SlotsFit(gear) ==
    /\ \A i, j \in Ids : gear[i] = gear[j] /\ gear[i] \notin {"none", "loose"} => i = j
    /\ \A i, j \in Ids : gear[i] = "mainhand" /\ i \in TwoHanded => gear[j] # "offhand"

WardsFit(gear, lit, left) == lit = {w \in Amulets : gear[w] # "none" /\ left[w] > 0}

\* The units of an id, and those of the id with the part split from it.
Held(i) == Amount(inv[i]) + Amount(shared[i]) + Amount(remains[i])
Stored(i) ==
    spent[i] + (IF i \in Listed THEN stock[i] ELSE 0) + (IF i = Reward /\ ~looted THEN 1 ELSE 0)
Clan(i) == Held(i) + Stored(i) + (IF i \in DOMAIN SplitOf THEN Held(SplitOf[i]) + Stored(SplitOf[i]) ELSE 0)

ObjectsFit ==
    \A o \in Objects : Held(o) <= MaxUnits + 1 /\ Amount(shared[o]) <= MaxUnits /\ spent[o] <= MaxUnits + 1

GoodsInv ==
    /\ GoodsTypes
    /\ SlotsFit(Gear(inv))
    /\ WardsFit(Gear(inv), shining, charge)
    /\ Possessions!Whole(inv) \/ tampered
    /\ \A i \in Single : Clan(i) <= MaxUnits + 1
    /\ ObjectsFit

\* A sale or a use takes the second entry of a doubled id along.
Lost(i, j) ==
    /\ j \in Listed \cup Potions
    /\ Len(inv[j]) > 1
    /\ inv'[j] = <<>>
    /\ Clan(i)' = Clan(i) - (Amount(inv[j]) - inv[j][1].n)
ClansKept == \A i \in Single : Clan(i)' = Clan(i) \/ \E j \in Possessions!Family(i) : Lost(i, j)

LEMMA GearType == ASSUME NEW pile \in Piles PROVE Gear(pile) \in [Ids -> Places]
<1> SUFFICES ASSUME NEW i \in Ids, pile[i] # <<>> PROVE pile[i][1].worn \in Places
  BY ItemFacts DEF Gear
<1>1. pile[i] \in Stacks
  BY DEF Piles
<1>2. pile[i][1] \in Entries
  BY <1>1, StackFacts
<1> QED
  BY <1>2 DEF Entries

AmountsNat ==
    \A i \in Ids : /\ Amount(inv[i]) \in Nat /\ Amount(shared[i]) \in Nat /\ Amount(remains[i]) \in Nat
                   /\ spent[i] \in Nat /\ Held(i) \in Nat /\ Stored(i) \in Nat

LEMMA AmountsAreNat == GoodsTypes => AmountsNat
<1> SUFFICES ASSUME GoodsTypes, NEW i \in Ids
             PROVE  /\ Amount(inv[i]) \in Nat /\ Amount(shared[i]) \in Nat /\ Amount(remains[i]) \in Nat
                    /\ spent[i] \in Nat /\ Held(i) \in Nat /\ Stored(i) \in Nat
  BY DEF AmountsNat
<1>1. inv[i] \in Stacks /\ shared[i] \in Stacks /\ remains[i] \in Stacks
  BY DEF GoodsTypes, Piles
<1>2. Amount(inv[i]) \in Nat /\ Amount(shared[i]) \in Nat /\ Amount(remains[i]) \in Nat
  BY <1>1, StackFacts
<1>3. spent[i] \in Nat /\ (i \in Listed => stock[i] \in Nat)
  BY ItemFacts DEF GoodsTypes
<1> QED
  BY <1>2, <1>3 DEF Held, Stored

\* A load leaves the gear as it is, and finds objects that had gone.
LEMMA LoadKeeps ==
    ASSUME NEW pile \in Piles, NEW objs, NEW new, new = Possessions!Loaded(pile, objs)
    PROVE  /\ new \in Piles /\ Gear(new) = Gear(pile)
           /\ Possessions!Whole(pile) => Possessions!Whole(new)
           /\ \A i \in Ids : \/ Amount(new[i]) = Amount(pile[i])
                             \/ i \in Objects /\ Amount(pile[i]) = 0 /\ Amount(new[i]) = 1
<1> DEFINE found == <<Possessions!Piece(1, FALSE)>>
<1>1. /\ new \in Piles
      /\ \A i \in Ids : new[i] = pile[i] \/ (i \in Objects /\ pile[i] = <<>> /\ new[i] = found)
  BY LoadedFits
<1>2. /\ found # <<>> /\ Len(found) = 1 /\ Amount(found) = 1
      /\ found[1].worn = "none" /\ found[1].within = "none"
  <2>1. 1 \in Nat \ {0} /\ FALSE \in BOOLEAN
    OBVIOUS
  <2> QED
    BY <2>1, PieceFits, Zenon
<1> HIDE DEF found
<1>3. Gear(new) = Gear(pile)
  BY <1>1, <1>2 DEF Gear
<1>4. Amount(<<>>) = 0
  BY NothingFits
<1>5. ASSUME Possessions!Whole(pile) PROVE Possessions!Whole(new)
  <2>1. \A i \in Ids : Len(new[i]) <= 1
    <3>1. \A i \in Ids : Len(pile[i]) <= 1
      BY <1>5 DEF Possessions!Whole
    <3>2. 1 <= 1
      OBVIOUS
    <3> QED
      BY <1>1, <1>2, <3>1, <3>2
  <2>2. ASSUME NEW i \in Ids, new[i] # <<>>, new[i][1].within # "none"
        PROVE  /\ pile[i] # <<>> /\ pile[i][1].within = new[i][1].within
               /\ new[i][1].worn = "none" /\ new[new[i][1].within] # <<>>
    <3>1. new[i] = pile[i]
      BY <1>1, <1>2, <2>2
    <3>2. /\ pile[i][1].worn = "none" /\ pile[i][1].within \in Containers
          /\ pile[pile[i][1].within] # <<>>
      BY <1>5, <2>2, <3>1 DEF Possessions!Whole, Possessions!Owned, Possessions!None
    <3> QED
      BY <1>1, <1>2, <2>2, <3>1, <3>2, ItemFacts
  <2> QED
    BY <1>1, <1>5, <2>1, <2>2, LooserIsWhole
<1> QED
  BY <1>1, <1>2, <1>3, <1>4, <1>5

\* What is taken off never conflicts.
LEMMA LooserGear ==
    ASSUME NEW old, NEW new, SlotsFit(old),
           \A i \in Ids : new[i] = old[i] \/ new[i] \in {"none", "loose"}
    PROVE  SlotsFit(new)
BY DEF SlotsFit

\* A command that changes what is carried but no ward's place, nor any effect.
LEMMA PileKeeps ==
    ASSUME GoodsInv, NEW pile \in Piles, NEW objs, inv' = Possessions!Loaded(pile, objs),
           \A i \in Ids : \/ Gear(pile)[i] = Gear(inv)[i]
                          \/ i \notin Amulets /\ Gear(pile)[i] \in {"none", "loose"},
           Possessions!Whole(pile) \/ tampered',
           charge' = charge, shining' = shining
    PROVE  /\ inv' \in Piles
           /\ SlotsFit(Gear(inv'))
           /\ WardsFit(Gear(inv'), shining', charge')
           /\ Possessions!Whole(inv') \/ tampered'
           /\ \A i \in Ids : \/ Amount(inv'[i]) = Amount(pile[i])
                             \/ i \in Objects /\ Amount(pile[i]) = 0 /\ Amount(inv'[i]) = 1
<1>1. PICK new : new = inv'
  OBVIOUS
<1>2. /\ new \in Piles /\ Gear(new) = Gear(pile)
      /\ Possessions!Whole(pile) => Possessions!Whole(new)
      /\ \A i \in Ids : \/ Amount(new[i]) = Amount(pile[i])
                        \/ i \in Objects /\ Amount(pile[i]) = 0 /\ Amount(new[i]) = 1
  BY <1>1, LoadKeeps
<1>3. SlotsFit(Gear(new))
  BY <1>2, LooserGear DEF GoodsInv
<1>4. WardsFit(Gear(new), shining, charge)
  <2>1. \A w \in Amulets : Gear(pile)[w] = Gear(inv)[w]
    BY ItemAssumption
  <2> QED
    BY <1>2, <2>1 DEF GoodsInv, WardsFit
<1> QED
  BY <1>1, <1>2, <1>3, <1>4

\* Objects come back one at a time.
LEMMA ObjectsKeep ==
    ASSUME GoodsTypes', NEW pile \in Piles,
           \A i \in Ids : \/ Amount(inv'[i]) = Amount(pile[i])
                          \/ i \in Objects /\ Amount(pile[i]) = 0 /\ Amount(inv'[i]) = 1,
           \A o \in Objects : /\ Amount(pile[o]) + Amount(shared'[o]) + Amount(remains'[o]) <= MaxUnits + 1
                              /\ Amount(inv'[o]) = Amount(pile[o]) \/ Amount(remains'[o]) = 0
                              /\ Amount(shared'[o]) <= MaxUnits /\ spent'[o] <= MaxUnits + 1
    PROVE  ObjectsFit'
<1>1. AmountsNat'
  BY AmountsAreNat, PTL
<1>2. ASSUME NEW o \in Objects
      PROVE  Held(o)' <= MaxUnits + 1 /\ Amount(shared[o])' <= MaxUnits /\ spent[o]' <= MaxUnits + 1
  <2>1. o \in Ids /\ MaxUnits \in Nat
    BY ItemFacts
  <2>2. Amount(inv'[o]) \in Nat /\ Amount(shared'[o]) \in Nat /\ Amount(remains'[o]) \in Nat
    BY <1>1, <2>1 DEF AmountsNat
  <2>3. /\ Amount(inv'[o]) = Amount(pile[o]) \/ (Amount(pile[o]) = 0 /\ Amount(inv'[o]) = 1)
        /\ Amount(pile[o]) + Amount(shared'[o]) + Amount(remains'[o]) <= MaxUnits + 1
        /\ Amount(inv'[o]) = Amount(pile[o]) \/ Amount(remains'[o]) = 0
        /\ Amount(shared'[o]) <= MaxUnits /\ spent'[o] <= MaxUnits + 1
    BY <2>1
  <2>4. Amount(inv'[o]) + Amount(shared'[o]) + Amount(remains'[o]) <= MaxUnits + 1
    BY <2>1, <2>2, <2>3
  <2> QED
    BY <2>3, <2>4 DEF Held
<1> QED
  BY <1>2 DEF ObjectsFit

\* What is counted of a clan stays if no unit of an id is made or lost.
LEMMA CountsKeep ==
    ASSUME GoodsInv, GoodsTypes', NEW pile \in Piles,
           \A i \in Ids : \/ Amount(inv'[i]) = Amount(pile[i])
                          \/ i \in Objects /\ Amount(pile[i]) = 0 /\ Amount(inv'[i]) = 1,
           \A i \in Ids \ Objects :
              Amount(pile[i]) + Amount(shared'[i]) + Amount(remains'[i]) + Stored(i)' = Held(i) + Stored(i),
           \A o \in Objects : /\ Amount(pile[o]) + Amount(shared'[o]) + Amount(remains'[o]) <= MaxUnits + 1
                              /\ Amount(inv'[o]) = Amount(pile[o]) \/ Amount(remains'[o]) = 0
                              /\ Amount(shared'[o]) <= MaxUnits /\ spent'[o] <= MaxUnits + 1
    PROVE  /\ \A i \in Single : Clan(i)' <= MaxUnits + 1
           /\ ObjectsFit'
           /\ ClansKept
<1>1. ASSUME NEW i \in Ids \ Objects PROVE Held(i)' + Stored(i)' = Held(i) + Stored(i)
  <2>1. Amount(inv'[i]) = Amount(pile[i])
    OBVIOUS
  <2> QED
    BY <2>1 DEF Held
<1>2. \A i \in DOMAIN SplitOf : SplitOf[i] \in Ids \ Objects
  BY ItemAssumption
<1>3. ASSUME NEW i \in Single PROVE Clan(i)' = Clan(i)
  <2>1. i \in Ids \ Objects
    BY DEF Single
  <2>2. i \in Ids
    BY <2>1
  <2>3. \A j \in Ids : Held(j)' \in Nat /\ Stored(j)' \in Nat /\ Held(j) \in Nat /\ Stored(j) \in Nat
    <3>1. AmountsNat'
      BY AmountsAreNat, PTL
    <3>2. AmountsNat
      BY AmountsAreNat DEF GoodsInv
    <3> QED
      BY <3>1, <3>2 DEF AmountsNat
  <2>4. Held(i)' + Stored(i)' = Held(i) + Stored(i)
    BY <1>1, <2>1
  <2>5. CASE i \in DOMAIN SplitOf
    <3>1. PICK j : j = SplitOf[i]
      OBVIOUS
    <3>2. j \in Ids \ Objects /\ Held(j)' + Stored(j)' = Held(j) + Stored(j)
      BY <1>1, <1>2, <2>5, <3>1
    <3>3. /\ Clan(i) = Held(i) + Stored(i) + (Held(j) + Stored(j))
          /\ Clan(i)' = Held(i)' + Stored(i)' + (Held(j)' + Stored(j)')
      BY <2>5, <3>1 DEF Clan
    <3> QED
      BY <2>2, <2>3, <2>4, <3>2, <3>3
  <2>6. CASE i \notin DOMAIN SplitOf
    BY <2>2, <2>3, <2>4, <2>6 DEF Clan
  <2> QED
    BY <2>5, <2>6
<1>4. ObjectsFit'
  BY ObjectsKeep
<1> QED
  BY <1>3, <1>4 DEF GoodsInv, ClansKept

\* A command on living goods: what is left to show of it.
LEMMA CommandKeeps ==
    ASSUME GoodsInv, life = "alive", NEW pile \in Piles, NEW objs, inv' = Possessions!Loaded(pile, objs),
           \A i \in Ids : \/ Gear(pile)[i] = Gear(inv)[i]
                          \/ i \notin Amulets /\ Gear(pile)[i] \in {"none", "loose"},
           Possessions!Whole(pile) \/ tampered',
           charge' = charge, shining' = shining, life' = life, remains' = remains,
           shared' \in Piles, \A i \in Ids : Len(shared'[i]) <= 1 /\ Gear(shared')[i] = "none",
           stock' \in [Listed -> 0..MaxUnits], acquired' \in [Listed -> 0..MaxUnits],
           spent' \in [Ids -> Nat], looted' \in BOOLEAN, tampered' \in BOOLEAN,
           \A i \in Ids \ Objects :
              Amount(pile[i]) + Amount(shared'[i]) + Stored(i)' = Amount(inv[i]) + Amount(shared[i]) + Stored(i),
           \A o \in Objects : /\ Amount(pile[o]) + Amount(shared'[o]) <= MaxUnits + 1
                              /\ Amount(shared'[o]) <= MaxUnits /\ spent'[o] <= MaxUnits + 1
    PROVE  GoodsInv' /\ ClansKept
<1>1. /\ inv' \in Piles
      /\ SlotsFit(Gear(inv'))
      /\ WardsFit(Gear(inv'), shining', charge')
      /\ Possessions!Whole(inv') \/ tampered'
      /\ \A i \in Ids : \/ Amount(inv'[i]) = Amount(pile[i])
                        \/ i \in Objects /\ Amount(pile[i]) = 0 /\ Amount(inv'[i]) = 1
  BY PileKeeps
<1>2. GoodsTypes'
  BY <1>1 DEF GoodsInv, GoodsTypes
<1>3. \A i \in Ids : Amount(remains[i]) = 0 /\ Amount(remains'[i]) = 0
  BY NothingFits DEF GoodsInv, GoodsTypes
<1>4. \A i \in Ids : Amount(pile[i]) \in Nat
  BY StackFacts DEF Piles
<1>5. \A i \in Ids : /\ Amount(inv[i]) \in Nat /\ Amount(shared[i]) \in Nat /\ Stored(i) \in Nat
                     /\ Amount(shared'[i]) \in Nat /\ Stored(i)' \in Nat
  <2>1. AmountsNat'
    BY <1>2, AmountsAreNat, PTL
  <2>2. AmountsNat
    BY AmountsAreNat DEF GoodsInv
  <2> QED
    BY <2>1, <2>2 DEF AmountsNat
<1>6. ASSUME NEW i \in Ids \ Objects
      PROVE  Amount(pile[i]) + Amount(shared'[i]) + Amount(remains'[i]) + Stored(i)' = Held(i) + Stored(i)
  <2>1. Amount(pile[i]) + Amount(shared'[i]) + Stored(i)' = Amount(inv[i]) + Amount(shared[i]) + Stored(i)
    OBVIOUS
  <2>2. i \in Ids
    OBVIOUS
  <2> QED
    BY <1>3, <1>4, <1>5, <2>1, <2>2 DEF Held
<1>7. ASSUME NEW o \in Objects
      PROVE  /\ Amount(pile[o]) + Amount(shared'[o]) + Amount(remains'[o]) <= MaxUnits + 1
             /\ Amount(inv'[o]) = Amount(pile[o]) \/ Amount(remains'[o]) = 0
             /\ Amount(shared'[o]) <= MaxUnits /\ spent'[o] <= MaxUnits + 1
  <2>1. o \in Ids
    BY ItemFacts
  <2>2. Amount(pile[o]) + Amount(shared'[o]) + Amount(remains'[o]) = Amount(pile[o]) + Amount(shared'[o])
    BY <1>3, <1>4, <1>5, <2>1
  <2> QED
    BY <1>3, <2>1, <2>2
<1>8. /\ \A i \in Single : Clan(i)' <= MaxUnits + 1
      /\ ObjectsFit'
      /\ ClansKept
  BY <1>1, <1>2, <1>6, <1>7, CountsKeep
<1> QED
  BY <1>1, <1>2, <1>8 DEF GoodsInv

LEMMA FitsIsWhole == ASSUME NEW pile, Possessions!Fits(pile) PROVE Possessions!Whole(pile)
BY Zenon DEF Possessions!Fits

LEMMA PutFits ==
    ASSUME NEW pile \in Piles, NEW i \in Ids, NEW e \in Entries, e.worn = "none",
           NEW new, new = Possessions!Put(pile, i, e)
    PROVE  /\ new \in Piles /\ Gear(new) = Gear(pile)
           /\ \A j \in Ids : j # i => new[j] = pile[j]
           /\ Amount(new[i]) = Amount(pile[i]) + e.n /\ new[i] # <<>>
           /\ (Len(pile[i]) <= 1 /\ Gear(pile)[i] = "none") => Len(new[i]) = 1
           /\ pile[i] # <<>> => new[i][1].within = pile[i][1].within
           /\ pile[i] = <<>> => new[i][1] = e
<1>1. new = [pile EXCEPT ![i] = Joined(pile[i], e)]
  BY PutIs
<1>2. pile \in [Ids -> Stacks] /\ pile[i] \in Stacks
  BY DEF Piles
<1>3. new[i] = Joined(pile[i], e) /\ \A j \in Ids : j # i => new[j] = pile[j]
  BY <1>1, <1>2
<1>4. PICK q : q = pile[i]
  OBVIOUS
<1>5. /\ Joined(q, e) \in Stacks /\ Joined(q, e) # <<>>
      /\ Amount(Joined(q, e)) = Amount(q) + e.n
      /\ q = <<>> => Joined(q, e)[1] = e
      /\ q # <<>> => Joined(q, e)[1].worn = q[1].worn /\ Joined(q, e)[1].within = q[1].within
      /\ (Len(q) <= 1 /\ (q # <<>> => q[1].worn = "none")) => Len(Joined(q, e)) = 1
  BY <1>2, <1>4, JoinedFits
<1>6. new \in Piles
  BY <1>1, <1>2, <1>4, <1>5 DEF Piles
<1>7. Gear(new) = Gear(pile)
  <2>1. ASSUME NEW j \in Ids PROVE (IF new[j] = <<>> THEN "none" ELSE new[j][1].worn) = Gear(pile)[j]
    <3>1. CASE j = i
      BY <1>3, <1>4, <1>5, <3>1 DEF Gear
    <3>2. CASE j # i
      BY <1>3, <3>2 DEF Gear
    <3> QED
      BY <3>1, <3>2
  <2> QED
    BY <2>1 DEF Gear
<1>8. Gear(pile)[i] = "none" => (q # <<>> => q[1].worn = "none")
  BY <1>4 DEF Gear
<1> QED
  BY <1>3, <1>4, <1>5, <1>6, <1>7, <1>8

LEMMA LessFits ==
    ASSUME NEW pile \in Piles, NEW i \in Ids, pile[i] # <<>>, NEW n \in Nat \ {0}, n <= pile[i][1].n,
           NEW new, new = Possessions!Less(pile, i, n)
    PROVE  /\ new \in Piles
           /\ \A j \in Ids : j # i => new[j] = pile[j] /\ Gear(new)[j] = Gear(pile)[j]
           /\ Amount(new[i]) = Amount(pile[i]) - n
           /\ Gear(new)[i] \in {Gear(pile)[i], "none"}
           /\ (n < pile[i][1].n \/ pile[i][1].worn = "none") => Gear(new)[i] = Gear(pile)[i]
           /\ Len(new[i]) <= Len(pile[i])
           /\ n < pile[i][1].n => new[i] # <<>>
           /\ (Len(pile[i]) = 1 /\ new[i] # <<>>) => new[i][1].worn = pile[i][1].worn /\ new[i][1].within = pile[i][1].within
<1>1. new = [pile EXCEPT ![i] = Taken(pile[i], n)]
  BY LessIs
<1>2. pile \in [Ids -> Stacks] /\ pile[i] \in Stacks
  BY DEF Piles
<1>3. new[i] = Taken(pile[i], n) /\ \A j \in Ids : j # i => new[j] = pile[j]
  BY <1>1, <1>2
<1>4. PICK q : q = pile[i]
  OBVIOUS
<1>5. /\ Taken(q, n) \in Stacks /\ Len(Taken(q, n)) <= Len(q)
      /\ Amount(Taken(q, n)) = Amount(q) - n
      /\ n < q[1].n => Taken(q, n) # <<>>
      /\ (n < q[1].n \/ Len(q) = 1) /\ Taken(q, n) # <<>> =>
            Taken(q, n)[1].worn = q[1].worn /\ Taken(q, n)[1].within = q[1].within
      /\ n = q[1].n /\ Taken(q, n) # <<>> => Taken(q, n)[1].worn = "none"
  BY <1>2, <1>4, TakenFits
<1>6. new \in Piles
  BY <1>1, <1>2, <1>4, <1>5 DEF Piles
<1>7. \A j \in Ids : j # i => Gear(new)[j] = Gear(pile)[j]
  BY <1>3 DEF Gear
<1>8. /\ Gear(new)[i] \in {Gear(pile)[i], "none"}
      /\ (n < pile[i][1].n \/ pile[i][1].worn = "none") => Gear(new)[i] = Gear(pile)[i]
  <2>1. Gear(pile)[i] = q[1].worn
    BY <1>4 DEF Gear
  <2>2. Gear(new)[i] = IF Taken(q, n) = <<>> THEN "none" ELSE Taken(q, n)[1].worn
    BY <1>3, <1>4 DEF Gear
  <2>3. q[1].n \in Nat
    <3>1. q \in Stacks /\ q # <<>>
      BY <1>2, <1>4
    <3>2. 1 \in 1..Len(q)
      BY <3>1, StackFacts
    <3> QED
      BY <3>1, <3>2, StackFacts
  <2>4. n < q[1].n \/ n = q[1].n
    BY <1>4, <2>3
  <2> QED
    BY <1>4, <1>5, <2>1, <2>2, <2>4
<1> QED
  BY <1>3, <1>4, <1>5, <1>6, <1>7, <1>8

\* What is taken out of the inventory leaves the rest whole, if it held nothing.
LEMMA LessIsWhole ==
    ASSUME NEW pile \in Piles, NEW i \in Ids, pile[i] # <<>>, NEW n \in Nat \ {0}, n <= pile[i][1].n,
           NEW new, new = Possessions!Less(pile, i, n),
           Possessions!Whole(pile), i \in Containers => Possessions!Children(pile, i) = {}
    PROVE  Possessions!Whole(new)
<1>1. /\ new \in Piles
      /\ \A j \in Ids : j # i => new[j] = pile[j]
      /\ Len(new[i]) <= Len(pile[i])
      /\ (Len(pile[i]) = 1 /\ new[i] # <<>>) => new[i][1].worn = pile[i][1].worn /\ new[i][1].within = pile[i][1].within
  BY LessFits
<1>2. \A j \in Ids : Len(pile[j]) <= 1 /\ (pile[j] = <<>> <=> Len(pile[j]) = 0) /\ Len(pile[j]) \in 0..2
  <2>1. \A j \in Ids : Len(pile[j]) <= 1
    BY DEF Possessions!Whole
  <2>2. ASSUME NEW j \in Ids PROVE (pile[j] = <<>> <=> Len(pile[j]) = 0) /\ Len(pile[j]) \in 0..2
    <3>1. pile[j] \in Stacks
      BY DEF Piles
    <3> QED
      BY <3>1, StackFacts
  <2> QED
    BY <2>1, <2>2
<1>3. \A j \in Ids : Len(new[j]) <= 1
  <2>1. Len(new[i]) \in 0..2
    <3>1. new[i] \in Stacks
      BY <1>1 DEF Piles
    <3> QED
      BY <3>1, StackFacts
  <2> QED
    BY <1>1, <1>2, <2>1
<1>4. ASSUME NEW j \in Ids, pile[j] # <<>>, pile[j][1].within # "none"
      PROVE  /\ pile[j][1].worn = "none" /\ pile[j][1].within \in Containers
             /\ pile[pile[j][1].within] # <<>> /\ pile[j][1].within # i
  <2>1. /\ pile[j][1].worn = "none" /\ pile[j][1].within \in Containers
        /\ pile[pile[j][1].within] # <<>>
    BY <1>4 DEF Possessions!Whole, Possessions!Owned, Possessions!None
  <2>2. ASSUME pile[j][1].within = i PROVE FALSE
    <3>1. Possessions!Children(pile, i) = {}
      BY <2>1, <2>2
    <3>2. 1 \in DOMAIN pile[j]
      <4>1. pile[j] \in Stacks
        BY DEF Piles
      <4>2. DOMAIN pile[j] = 1..Len(pile[j]) /\ Len(pile[j]) = 1
        BY <1>2, <1>4, <4>1, StackFacts
      <4> QED
        BY <4>2
    <3> QED
      BY <1>4, <2>2, <3>1, <3>2 DEF Possessions!Children, Possessions!Owned
  <2> QED
    BY <2>1, <2>2
<1>5. ASSUME NEW j \in Ids, new[j] # <<>>, new[j][1].within # "none"
      PROVE  /\ pile[j] # <<>> /\ pile[j][1].within = new[j][1].within
             /\ new[j][1].worn = "none" /\ new[new[j][1].within] # <<>>
  <2>1. pile[j] # <<>> /\ new[j][1].worn = pile[j][1].worn /\ new[j][1].within = pile[j][1].within
    BY <1>1, <1>2, <1>5
  <2> QED
    BY <1>1, <1>4, <1>5, <2>1, ItemFacts
<1> QED
  BY <1>1, <1>3, <1>5, LooserIsWhole

\* A command that leaves the shared container alone.
LEMMA CarryKeeps ==
    ASSUME GoodsInv, life = "alive", NEW pile \in Piles, NEW objs, inv' = Possessions!Loaded(pile, objs),
           \A i \in Ids : \/ Gear(pile)[i] = Gear(inv)[i]
                          \/ i \notin Amulets /\ Gear(pile)[i] \in {"none", "loose"},
           Possessions!Whole(pile) \/ tampered,
           charge' = charge, shining' = shining, life' = life, remains' = remains,
           shared' = shared, tampered' = tampered,
           stock' \in [Listed -> 0..MaxUnits], acquired' \in [Listed -> 0..MaxUnits],
           spent' \in [Ids -> Nat], looted' \in BOOLEAN,
           \A i \in Ids \ Objects : Amount(pile[i]) + Stored(i)' = Amount(inv[i]) + Stored(i),
           \A o \in Objects : /\ Amount(pile[o]) <= Amount(inv[o]) \/ Amount(pile[o]) <= 1
                              /\ spent'[o] <= MaxUnits + 1
    PROVE  GoodsInv' /\ ClansKept
<1>1. /\ shared' \in Piles /\ tampered' \in BOOLEAN
      /\ \A i \in Ids : Len(shared'[i]) <= 1 /\ Gear(shared')[i] = "none"
  BY DEF GoodsInv, GoodsTypes
<1>2. \A i \in Ids : Amount(inv[i]) \in Nat /\ Amount(shared[i]) \in Nat /\ Stored(i) \in Nat
  BY AmountsAreNat DEF GoodsInv, AmountsNat
<1>3. \A i \in Ids : Amount(pile[i]) \in Nat
  BY StackFacts DEF Piles
<1>4. \A i \in Ids : Stored(i)' \in Nat
  <2> SUFFICES ASSUME NEW i \in Ids PROVE Stored(i)' \in Nat
    OBVIOUS
  <2>1. spent'[i] \in Nat /\ (i \in Listed => stock'[i] \in Nat)
    BY ItemFacts
  <2> QED
    BY <2>1 DEF Stored
<1>5. ASSUME NEW i \in Ids \ Objects
      PROVE  Amount(pile[i]) + Amount(shared'[i]) + Stored(i)' = Amount(inv[i]) + Amount(shared[i]) + Stored(i)
  <2>1. i \in Ids /\ Amount(pile[i]) + Stored(i)' = Amount(inv[i]) + Stored(i)
    OBVIOUS
  <2>2. PICK a, b, c, d, e : a = Amount(pile[i]) /\ b = Amount(inv[i]) /\ c = Amount(shared[i])
                            /\ d = Stored(i) /\ e = Stored(i)'
    OBVIOUS
  <2>3. {a, b, c, d, e} \subseteq Nat /\ a + e = b + d
    BY <1>2, <1>3, <1>4, <2>1, <2>2
  <2>4. a + c + e = b + c + d
    BY <2>3
  <2> QED
    BY <2>2, <2>4
<1>6. ASSUME NEW o \in Objects
      PROVE  /\ Amount(pile[o]) + Amount(shared'[o]) <= MaxUnits + 1
             /\ Amount(shared'[o]) <= MaxUnits /\ spent'[o] <= MaxUnits + 1
  <2>1. o \in Ids /\ MaxUnits \in Nat
    BY ItemFacts
  <2>2. Amount(remains[o]) = 0
    BY <2>1, NothingFits DEF GoodsInv, GoodsTypes
  <2>3. Amount(inv[o]) + Amount(shared[o]) <= MaxUnits + 1 /\ Amount(shared[o]) <= MaxUnits
    BY <1>2, <2>1, <2>2 DEF GoodsInv, ObjectsFit, Held
  <2> QED
    BY <1>2, <1>3, <2>1, <2>3
<1> QED
  BY <1>1, <1>5, <1>6, CommandKeeps

\* Units of a clan are few.
LEMMA FewUnits ==
    ASSUME GoodsInv, NEW i \in Ids
    PROVE  /\ Held(i) \in Nat /\ Held(i) <= MaxUnits + 1
           /\ i \notin Objects => Held(i) + Stored(i) <= MaxUnits + 1
           /\ spent[i] \in Nat /\ spent[i] <= MaxUnits + 1
<1>1. \A j \in Ids : Held(j) \in Nat /\ Stored(j) \in Nat /\ spent[j] \in Nat
  BY AmountsAreNat DEF GoodsInv, AmountsNat
<1>2. MaxUnits \in Nat
  BY ItemFacts
<1>3. CASE i \in Objects
  BY <1>1, <1>3 DEF GoodsInv, ObjectsFit
<1>4. CASE i \notin Objects
  <2>1. Held(i) + Stored(i) <= MaxUnits + 1
    <3>1. CASE i \in Parted
      <4>1. PICK j \in DOMAIN SplitOf : i = SplitOf[j]
        BY <3>1 DEF Parted
      <4>2. j \in Ids /\ j \notin Objects
        BY ItemAssumption
      <4>3. j \notin Parted
        BY ItemAssumption DEF Parted
      <4>4. Clan(j) <= MaxUnits + 1
        BY <4>2, <4>3 DEF GoodsInv, Single
      <4>5. Clan(j) = Held(j) + Stored(j) + (Held(i) + Stored(i))
        BY <4>1 DEF Clan
      <4> QED
        BY <1>1, <1>2, <4>2, <4>4, <4>5
    <3>2. CASE i \notin Parted
      <4>1. Clan(i) <= MaxUnits + 1
        BY <1>4, <3>2 DEF GoodsInv, Single
      <4>2. CASE i \in DOMAIN SplitOf
        <5>1. SplitOf[i] \in Ids
          BY <4>2, ItemAssumption
        <5> QED
          BY <1>1, <1>2, <4>1, <4>2, <5>1 DEF Clan
      <4>3. CASE i \notin DOMAIN SplitOf
        BY <1>1, <1>2, <4>1, <4>3 DEF Clan
      <4> QED
        BY <4>2, <4>3
    <3> QED
      BY <3>1, <3>2
  <2>2. spent[i] <= Stored(i)
    <3>1. i \in Listed => stock[i] \in Nat
      BY DEF GoodsInv, GoodsTypes
    <3> QED
      BY <1>1, <3>1 DEF Stored
  <2> QED
    BY <1>1, <1>2, <1>4, <2>1, <2>2
<1> QED
  BY <1>3, <1>4

LEMMA PieceIs ==
    ASSUME NEW n \in Nat \ {0}, NEW hot \in BOOLEAN
    PROVE  LET e == Possessions!Piece(n, hot) IN e \in Entries /\ e.n = n /\ e.worn = "none" /\ e.within = "none"
BY PieceFits, Zenon

-----------------------------------------------------------------------------
(* Trade, theft and loot.                                                    *)

LEMMA BuyKeeps ==
    ASSUME GoodsInv, life = "alive", NEW i \in Listed, NEW n \in 1..MaxUnits, Possessions!Buy(i, n)
    PROVE  GoodsInv' /\ ClansKept
<1> USE DEF Possessions!Buy
<1>1. PICK e : e = Possessions!Piece(n, acquired[i] > 0)
  OBVIOUS
<1>2. e \in Entries /\ e.n = n /\ e.worn = "none" /\ i \in Ids /\ i \notin Objects /\ n \in Nat
  <2>1. n \in Nat \ {0} /\ (acquired[i] > 0) \in BOOLEAN /\ i \in Ids /\ i \notin Objects
    BY ItemFacts
  <2> QED
    BY <1>1, <2>1, PieceIs, Zenon
<1>3. PICK pile : pile = Possessions!Put(inv, i, e)
  OBVIOUS
<1>4. inv \in Piles
  BY DEF GoodsInv, GoodsTypes
<1>5. /\ pile \in Piles /\ Gear(pile) = Gear(inv)
      /\ \A j \in Ids : j # i => pile[j] = inv[j]
      /\ Amount(pile[i]) = Amount(inv[i]) + n
  BY <1>2, <1>3, <1>4, PutFits
<1>6. Possessions!Whole(pile) /\ inv' = Possessions!Loaded(pile, objects)
  BY <1>1, <1>3, FitsIsWhole DEF Possessions!Commit, Possessions!CommitWith
<1>7. /\ stock' \in [Listed -> 0..MaxUnits] /\ acquired' \in [Listed -> 0..MaxUnits]
      /\ stock[i] \in Nat /\ stock'[i] = stock[i] - n /\ \A j \in Listed : j # i => stock'[j] = stock[j]
  <2>1. stock \in [Listed -> 0..MaxUnits] /\ acquired \in [Listed -> 0..MaxUnits] /\ MaxUnits \in Nat
    BY ItemFacts DEF GoodsInv, GoodsTypes
  <2>2. stock[i] >= n
    BY DEF Possessions!Purchasable
  <2> QED
    BY <2>1, <2>2
<1>8. spent' \in [Ids -> Nat] /\ looted' \in BOOLEAN
  BY DEF GoodsInv, GoodsTypes
<1>9. ASSUME NEW j \in Ids \ Objects PROVE Amount(pile[j]) + Stored(j)' = Amount(inv[j]) + Stored(j)
  <2>1. Amount(inv[j]) \in Nat /\ Stored(j) \in Nat /\ spent[j] \in Nat /\ spent' = spent /\ looted' = looted
    BY AmountsAreNat DEF GoodsInv, AmountsNat
  <2>2. CASE j = i
    BY <1>2, <1>5, <1>7, <2>1, <2>2 DEF Stored
  <2>3. CASE j # i
    BY <1>5, <1>7, <2>1, <2>3 DEF Stored
  <2> QED
    BY <2>2, <2>3
<1>10. ASSUME NEW o \in Objects
       PROVE  (Amount(pile[o]) <= Amount(inv[o]) \/ Amount(pile[o]) <= 1) /\ spent'[o] <= MaxUnits + 1
  <2>1. o \in Ids /\ o # i
    BY <1>2, ItemFacts
  <2>2. Amount(inv[o]) \in Nat /\ spent[o] <= MaxUnits + 1
    BY <2>1, FewUnits, AmountsAreNat DEF GoodsInv, AmountsNat
  <2> QED
    BY <1>5, <2>1, <2>2
<1> QED
  BY <1>5, <1>6, <1>7, <1>8, <1>9, <1>10, CarryKeeps

\* A unit of a new item, stolen or found, joins the inventory.
LEMMA FindKeeps ==
    ASSUME GoodsInv, life = "alive", NEW i \in Ids \ Objects, NEW hot \in BOOLEAN, NEW pile,
           pile = Possessions!Put(inv, i, Possessions!Piece(1, hot)),
           Possessions!Fits(pile), Possessions!Commit(pile),
           charge' = charge, shining' = shining, life' = life, remains' = remains,
           shared' = shared, tampered' = tampered, spent' = spent,
           stock' \in [Listed -> 0..MaxUnits], acquired' \in [Listed -> 0..MaxUnits], looted' \in BOOLEAN,
           \A j \in Ids : Stored(j)' = Stored(j) - (IF j = i THEN 1 ELSE 0)
    PROVE  GoodsInv' /\ ClansKept
<1>1. PICK e : e = Possessions!Piece(1, hot)
  OBVIOUS
<1>2. e \in Entries /\ e.n = 1 /\ e.worn = "none"
  <2>1. 1 \in Nat \ {0} /\ i \in Ids
    OBVIOUS
  <2> QED
    BY <1>1, <2>1, PieceIs, Zenon
<1>3. inv \in Piles /\ i \in Ids /\ spent \in [Ids -> Nat]
  BY DEF GoodsInv, GoodsTypes
<1>4. /\ pile \in Piles /\ Gear(pile) = Gear(inv)
      /\ \A j \in Ids : j # i => pile[j] = inv[j]
      /\ Amount(pile[i]) = Amount(inv[i]) + 1
  BY <1>1, <1>2, <1>3, PutFits
<1>5. Possessions!Whole(pile) /\ inv' = Possessions!Loaded(pile, objects)
  BY FitsIsWhole DEF Possessions!Commit, Possessions!CommitWith
<1>6. ASSUME NEW j \in Ids \ Objects PROVE Amount(pile[j]) + Stored(j)' = Amount(inv[j]) + Stored(j)
  <2>1. Amount(inv[j]) \in Nat /\ Stored(j) \in Nat
    BY AmountsAreNat DEF GoodsInv, AmountsNat
  <2>2. Stored(j)' = Stored(j) - (IF j = i THEN 1 ELSE 0)
    OBVIOUS
  <2>3. CASE j = i
    BY <1>4, <2>1, <2>2, <2>3
  <2>4. CASE j # i
    BY <1>4, <2>1, <2>2, <2>4
  <2> QED
    BY <2>3, <2>4
<1>7. ASSUME NEW o \in Objects
      PROVE  (Amount(pile[o]) <= Amount(inv[o]) \/ Amount(pile[o]) <= 1) /\ spent'[o] <= MaxUnits + 1
  <2>1. o \in Ids /\ o # i
    BY ItemFacts
  <2>2. Amount(inv[o]) \in Nat /\ spent[o] <= MaxUnits + 1
    BY <2>1, FewUnits, AmountsAreNat DEF GoodsInv, AmountsNat
  <2> QED
    BY <1>4, <2>1, <2>2
<1> QED
  BY <1>3, <1>4, <1>5, <1>6, <1>7, CarryKeeps

LEMMA StealKeeps ==
    ASSUME GoodsInv, life = "alive", NEW i \in Listed, Possessions!Steal(i)
    PROVE  GoodsInv' /\ ClansKept
<1> USE DEF Possessions!Steal
<1>1. i \in Ids \ Objects /\ TRUE \in BOOLEAN
  BY ItemFacts
<1>2. PICK pile : pile = Possessions!Put(inv, i, Possessions!Piece(1, TRUE))
  OBVIOUS
<1>3. Possessions!Fits(pile) /\ Possessions!Commit(pile)
  BY <1>2
<1>4. /\ stock' \in [Listed -> 0..MaxUnits] /\ acquired' \in [Listed -> 0..MaxUnits] /\ looted' \in BOOLEAN
      /\ stock[i] = 1 /\ stock'[i] = 0 /\ \A j \in Listed : j # i => stock'[j] = stock[j]
  BY ItemFacts DEF GoodsInv, GoodsTypes
<1>5. ASSUME NEW j \in Ids PROVE Stored(j)' = Stored(j) - (IF j = i THEN 1 ELSE 0)
  <2>1. spent[j] \in Nat /\ spent' = spent /\ looted' = looted
    BY DEF GoodsInv, GoodsTypes
  <2>2. CASE j = i
    BY <1>4, <2>1, <2>2 DEF Stored
  <2>3. CASE j # i
    <3>1. Stored(j) \in Nat
      BY AmountsAreNat DEF GoodsInv, AmountsNat
    <3>2. Stored(j)' = Stored(j)
      BY <1>4, <2>1, <2>3 DEF Stored
    <3> QED
      BY <2>3, <3>1, <3>2
  <2> QED
    BY <2>2, <2>3
<1> QED
  BY <1>1, <1>2, <1>3, <1>4, <1>5, FindKeeps

LEMMA LootKeeps ==
    ASSUME GoodsInv, life = "alive", Possessions!Loot
    PROVE  GoodsInv' /\ ClansKept
<1> USE DEF Possessions!Loot
<1>1. Reward \in Ids \ Objects /\ FALSE \in BOOLEAN
  BY ItemFacts
<1>2. PICK pile : pile = Possessions!Put(inv, Reward, Possessions!Piece(1, FALSE))
  OBVIOUS
<1>3. Possessions!Fits(pile) /\ Possessions!Commit(pile)
  BY <1>2
<1>4. /\ stock' \in [Listed -> 0..MaxUnits] /\ acquired' \in [Listed -> 0..MaxUnits]
      /\ looted = FALSE /\ looted' = TRUE
  BY DEF GoodsInv, GoodsTypes, Possessions!Searchable
<1>5. ASSUME NEW j \in Ids PROVE Stored(j)' = Stored(j) - (IF j = Reward THEN 1 ELSE 0)
  <2>1. spent[j] \in Nat /\ spent' = spent /\ stock' = stock /\ (j \in Listed => stock[j] \in Nat)
    BY DEF GoodsInv, GoodsTypes
  <2>2. CASE j = Reward
    BY <1>4, <2>1, <2>2 DEF Stored
  <2>3. CASE j # Reward
    BY <1>4, <2>1, <2>3 DEF Stored
  <2> QED
    BY <2>2, <2>3
<1> QED
  BY <1>1, <1>2, <1>3, <1>4, <1>5, FindKeeps

\* Units leave the inventory: sold, dropped or drunk.
LEMMA LeaveKeeps ==
    ASSUME GoodsInv, life = "alive", NEW i \in Ids, inv[i] # <<>>, NEW n \in 1..MaxUnits, n <= inv[i][1].n,
           i \in Containers => Possessions!Children(inv, i) = {},
           inv[i][1].worn = "none" \/ n < inv[i][1].n \/ i \notin Amulets,
           Possessions!Commit(Possessions!Less(inv, i, n)),
           charge' = charge, shining' = shining, life' = life, remains' = remains,
           shared' = shared, tampered' = tampered, looted' = looted,
           stock' \in [Listed -> 0..MaxUnits], acquired' \in [Listed -> 0..MaxUnits], spent' \in [Ids -> Nat],
           \A j \in Ids \ Objects : Stored(j)' = Stored(j) + (IF j = i THEN n ELSE 0),
           \A o \in Objects : spent'[o] <= MaxUnits + 1
    PROVE  GoodsInv' /\ ClansKept
<1>1. PICK pile : pile = Possessions!Less(inv, i, n)
  OBVIOUS
<1>2. inv \in Piles /\ n \in Nat \ {0} /\ looted' \in BOOLEAN
  BY DEF GoodsInv, GoodsTypes
<1>3. /\ pile \in Piles
      /\ \A j \in Ids : j # i => pile[j] = inv[j] /\ Gear(pile)[j] = Gear(inv)[j]
      /\ Amount(pile[i]) = Amount(inv[i]) - n
      /\ Gear(pile)[i] \in {Gear(inv)[i], "none"}
      /\ (n < inv[i][1].n \/ inv[i][1].worn = "none") => Gear(pile)[i] = Gear(inv)[i]
  BY <1>1, <1>2, LessFits
<1>4. Possessions!Whole(pile) \/ tampered
  BY <1>1, <1>2, LessIsWhole DEF GoodsInv
<1>5. inv' = Possessions!Loaded(pile, objects)
  BY <1>1 DEF Possessions!Commit, Possessions!CommitWith
<1>6. ASSUME NEW j \in Ids
      PROVE  \/ Gear(pile)[j] = Gear(inv)[j]
             \/ j \notin Amulets /\ Gear(pile)[j] \in {"none", "loose"}
  BY <1>3
<1>7. \A j \in Ids : Amount(inv[j]) \in Nat /\ Stored(j) \in Nat
  BY AmountsAreNat DEF GoodsInv, AmountsNat
<1>8. ASSUME NEW j \in Ids \ Objects PROVE Amount(pile[j]) + Stored(j)' = Amount(inv[j]) + Stored(j)
  <2>1. Amount(inv[j]) \in Nat /\ Stored(j) \in Nat /\ Stored(j)' = Stored(j) + (IF j = i THEN n ELSE 0)
    BY <1>7
  <2>2. CASE j = i
    BY <1>2, <1>3, <2>1, <2>2
  <2>3. CASE j # i
    BY <1>3, <2>1, <2>3
  <2> QED
    BY <2>2, <2>3
<1>9. ASSUME NEW o \in Objects
      PROVE  (Amount(pile[o]) <= Amount(inv[o]) \/ Amount(pile[o]) <= 1) /\ spent'[o] <= MaxUnits + 1
  <2>1. o \in Ids
    BY ItemFacts
  <2>2. CASE o = i
    BY <1>2, <1>3, <1>7, <2>1, <2>2
  <2>3. CASE o # i
    BY <1>3, <1>7, <2>1, <2>3
  <2> QED
    BY <2>2, <2>3
<1> QED
  BY <1>2, <1>3, <1>4, <1>5, <1>6, <1>8, <1>9, CarryKeeps

\* A sale or a use that takes both entries of a doubled id: shared storage has
\* torn the inventory before, and the units of the second entry are gone.
LEMMA SweptKeeps ==
    ASSUME GoodsInv, life = "alive", NEW i \in (Listed \cup Potions) \ Objects, Len(inv[i]) = 2,
           inv[i][1].worn = "none" \/ i \notin Amulets,
           Possessions!Commit([inv EXCEPT ![i] = <<>>]),
           charge' = charge, shining' = shining, life' = life, remains' = remains,
           shared' = shared, tampered' = tampered, looted' = looted,
           stock' \in [Listed -> 0..MaxUnits], acquired' \in [Listed -> 0..MaxUnits], spent' \in [Ids -> Nat],
           \A j \in Ids \ Objects : Stored(j)' = Stored(j) + (IF j = i THEN inv[i][1].n ELSE 0),
           \A o \in Objects : spent'[o] <= MaxUnits + 1
    PROVE  GoodsInv' /\ ClansKept
<1>1. PICK pile : pile = [inv EXCEPT ![i] = <<>>]
  OBVIOUS
<1>2. i \in Ids /\ MaxUnits \in Nat
  BY ItemAssumption
<1>3. inv \in Piles /\ inv[i] \in Stacks /\ inv[i] # <<>>
  <2>1. inv \in Piles /\ inv[i] \in Stacks
    BY <1>2 DEF GoodsInv, GoodsTypes, Piles
  <2> QED
    BY <2>1, StackFacts
<1>4. /\ pile \in Piles /\ pile[i] = <<>> /\ Amount(pile[i]) = 0
      /\ \A j \in Ids : j # i => pile[j] = inv[j]
  <2>1. <<>> \in Stacks /\ Amount(<<>>) = 0
    BY NothingFits
  <2>2. inv \in [Ids -> Stacks]
    BY <1>3 DEF Piles
  <2>3. pile \in [Ids -> Stacks] /\ pile[i] = <<>> /\ \A j \in Ids : j # i => pile[j] = inv[j]
    BY <1>1, <1>2, <2>1, <2>2
  <2> QED
    BY <2>1, <2>3 DEF Piles
<1>5. ASSUME NEW j \in Ids
      PROVE  \/ Gear(pile)[j] = Gear(inv)[j]
             \/ j \notin Amulets /\ Gear(pile)[j] \in {"none", "loose"}
  BY <1>3, <1>4 DEF Gear
<1>6. tampered'
  <2>1. ASSUME Possessions!Whole(inv) PROVE FALSE
    <3>1. \A j \in Ids : Len(inv[j]) <= 1
      BY <2>1 DEF Possessions!Whole
    <3>2. Len(inv[i]) <= 1 /\ ~(2 <= 1)
      BY <1>2, <3>1
    <3> QED
      BY <3>2
  <2> QED
    BY <2>1 DEF GoodsInv
<1>7. inv' = Possessions!Loaded(pile, objects)
  BY <1>1 DEF Possessions!Commit, Possessions!CommitWith
<1>8. /\ inv' \in Piles
      /\ SlotsFit(Gear(inv'))
      /\ WardsFit(Gear(inv'), shining', charge')
      /\ Possessions!Whole(inv') \/ tampered'
      /\ \A j \in Ids : \/ Amount(inv'[j]) = Amount(pile[j])
                        \/ j \in Objects /\ Amount(pile[j]) = 0 /\ Amount(inv'[j]) = 1
  BY <1>4, <1>5, <1>6, <1>7, PileKeeps
<1>9. GoodsTypes'
  BY <1>8 DEF GoodsInv, GoodsTypes
<1>10. AmountsNat /\ AmountsNat'
  BY <1>9, AmountsAreNat, PTL DEF GoodsInv
<1>11. PICK a, b : a = inv[i][1].n /\ b = inv[i][2].n
  OBVIOUS
<1>12. a \in Nat /\ b \in Nat /\ Amount(inv[i]) = a + b
  <2>1. 1 \in 1..Len(inv[i]) /\ 2 \in 1..Len(inv[i])
    OBVIOUS
  <2> QED
    BY <1>3, <1>11, <2>1, StackFacts DEF Amount
<1>13. /\ inv'[i] = <<>> /\ Amount(inv'[i]) = 0
       /\ \A j \in Ids \ Objects : j # i => Amount(inv'[j]) = Amount(inv[j])
  BY <1>2, <1>4, <1>7, <1>8 DEF Possessions!Loaded
<1>14. ASSUME NEW j \in Ids \ Objects
       PROVE  Held(j)' + Stored(j)' = (Held(j) + Stored(j)) - (IF j = i THEN b ELSE 0)
  <2>1. /\ Amount(inv[j]) \in Nat /\ Amount(shared[j]) \in Nat /\ Amount(remains[j]) \in Nat
        /\ Stored(j) \in Nat
    BY <1>10 DEF AmountsNat
  <2>2. CASE j = i
    <3>1. Stored(j)' = Stored(j) + a
      BY <1>11, <2>2
    <3>2. Held(j)' = Amount(shared[j]) + Amount(remains[j])
      BY <1>13, <2>1, <2>2 DEF Held
    <3>3. Held(j) = (a + b) + Amount(shared[j]) + Amount(remains[j])
      BY <1>12, <2>2 DEF Held
    <3> QED
      BY <1>12, <2>1, <2>2, <3>1, <3>2, <3>3
  <2>3. CASE j # i
    <3>1. Stored(j)' = Stored(j) + 0
      BY <2>3
    <3>2. Held(j)' = Held(j)
      BY <1>13, <2>3 DEF Held
    <3>3. Held(j) \in Nat
      BY <1>10 DEF AmountsNat
    <3> QED
      BY <2>1, <2>3, <3>1, <3>2, <3>3
  <2> QED
    BY <2>2, <2>3
<1>15. ASSUME NEW c \in Single
       PROVE  Clan(c)' <= Clan(c) /\ Clan(c) \in Nat /\ Clan(c)' \in Nat
              /\ (Clan(c)' = Clan(c) \/ (i \in Possessions!Family(c) /\ Clan(c)' = Clan(c) - b))
  <2>1. c \in Ids \ Objects
    BY DEF Single
  <2>2. \A j \in Ids : Held(j) \in Nat /\ Stored(j) \in Nat /\ Held(j)' \in Nat /\ Stored(j)' \in Nat
    BY <1>10 DEF AmountsNat
  <2>3. CASE c \in DOMAIN SplitOf
    <3>1. PICK d : d = SplitOf[c]
      OBVIOUS
    <3>2. d \in Ids \ Objects /\ d # c
      BY <2>3, <3>1, ItemAssumption
    <3>3. /\ Clan(c) = Held(c) + Stored(c) + (Held(d) + Stored(d))
          /\ Clan(c)' = Held(c)' + Stored(c)' + (Held(d)' + Stored(d)')
      BY <2>3, <3>1 DEF Clan
    <3>4. Possessions!Family(c) = {c, d}
      BY <2>3, <3>1 DEF Possessions!Family
    <3>5. /\ Held(c)' + Stored(c)' = (Held(c) + Stored(c)) - (IF c = i THEN b ELSE 0)
          /\ Held(d)' + Stored(d)' = (Held(d) + Stored(d)) - (IF d = i THEN b ELSE 0)
      BY <1>14, <2>1, <3>2
    <3>6. PICK p, q, r, s : /\ p = Held(c) + Stored(c) /\ q = Held(d) + Stored(d)
                            /\ r = Held(c)' + Stored(c)' /\ s = Held(d)' + Stored(d)'
      OBVIOUS
    <3>7. p \in Nat /\ q \in Nat /\ r \in Nat /\ s \in Nat
      <4>1. /\ Held(c) \in Nat /\ Stored(c) \in Nat /\ Held(c)' \in Nat /\ Stored(c)' \in Nat
            /\ Held(d) \in Nat /\ Stored(d) \in Nat /\ Held(d)' \in Nat /\ Stored(d)' \in Nat
        BY <2>1, <2>2, <3>2
      <4> QED
        BY ONLY <3>6, <4>1
    <3>8. /\ r = p - (IF c = i THEN b ELSE 0)
          /\ s = q - (IF d = i THEN b ELSE 0)
      BY <3>5, <3>6
    <3>9. r + s <= p + q /\ (r + s = p + q \/ (i \in {c, d} /\ r + s = (p + q) - b))
      BY <1>12, <3>2, <3>7, <3>8
    <3>10. Clan(c) = p + q /\ Clan(c)' = r + s
      BY <3>3, <3>6
    <3> QED
      BY <3>4, <3>7, <3>9, <3>10
  <2>4. CASE c \notin DOMAIN SplitOf
    <3>1. Clan(c) = Held(c) + Stored(c) /\ Clan(c)' = Held(c)' + Stored(c)'
      BY <2>1, <2>2, <2>4 DEF Clan
    <3>2. Possessions!Family(c) = {c}
      BY <2>4 DEF Possessions!Family
    <3>3. Held(c)' + Stored(c)' = (Held(c) + Stored(c)) - (IF c = i THEN b ELSE 0)
      BY <1>14, <2>1
    <3> QED
      BY <1>12, <2>1, <2>2, <3>1, <3>2, <3>3
  <2> QED
    BY <2>3, <2>4
<1>16. \A c \in Single : Clan(c)' <= MaxUnits + 1
  <2> SUFFICES ASSUME NEW c \in Single PROVE Clan(c)' <= MaxUnits + 1
    OBVIOUS
  <2>1. Clan(c) <= MaxUnits + 1
    BY DEF GoodsInv
  <2> QED
    BY <1>2, <1>15, <2>1
<1>17. ObjectsFit'
  <2>1. ASSUME NEW o \in Objects
        PROVE  /\ Amount(pile[o]) + Amount(shared'[o]) + Amount(remains'[o]) <= MaxUnits + 1
               /\ Amount(inv'[o]) = Amount(pile[o]) \/ Amount(remains'[o]) = 0
               /\ Amount(shared'[o]) <= MaxUnits /\ spent'[o] <= MaxUnits + 1
    <3>1. o \in Ids /\ o # i
      BY ItemFacts
    <3>2. pile[o] = inv[o] /\ Amount(remains[o]) = 0
      BY <1>4, <3>1, NothingFits DEF GoodsInv, GoodsTypes
    <3>3. Held(o) <= MaxUnits + 1 /\ Amount(shared[o]) <= MaxUnits
      BY DEF GoodsInv, ObjectsFit
    <3> QED
      BY <3>2, <3>3 DEF Held
  <2> QED
    BY <1>4, <1>8, <1>9, <2>1, ObjectsKeep
<1>18. ClansKept
  <2>1. ASSUME NEW c \in Single, Clan(c)' # Clan(c)
        PROVE  \E j \in Possessions!Family(c) : Lost(c, j)
    <3>1. i \in Possessions!Family(c) /\ Clan(c)' = Clan(c) - b
      BY <1>15, <2>1
    <3>2. Amount(inv[i]) - inv[i][1].n = b
      BY <1>11, <1>12
    <3>3. Lost(c, i)
      BY <1>13, <3>1, <3>2 DEF Lost
    <3> QED
      BY <3>1, <3>3
  <2> QED
    BY <2>1 DEF ClansKept
<1> QED
  BY <1>8, <1>9, <1>16, <1>17, <1>18 DEF GoodsInv

\* What is sold or used: as what is dropped, but for the last unit of a doubled id.
LEMMA UsedKeeps ==
    ASSUME GoodsInv, life = "alive", NEW i \in Listed \cup Potions, i \in Ids, i \notin Objects, inv[i] # <<>>,
           NEW n \in 1..MaxUnits, n <= inv[i][1].n,
           i \in Containers => Possessions!Children(inv, i) = {},
           inv[i][1].worn = "none" \/ i \notin Amulets,
           Possessions!Commit(Possessions!Used(inv, i, n)),
           charge' = charge, shining' = shining, life' = life, remains' = remains,
           shared' = shared, tampered' = tampered, looted' = looted,
           stock' \in [Listed -> 0..MaxUnits], acquired' \in [Listed -> 0..MaxUnits], spent' \in [Ids -> Nat],
           \A j \in Ids \ Objects : Stored(j)' = Stored(j) + (IF j = i THEN n ELSE 0),
           \A o \in Objects : spent'[o] <= MaxUnits + 1
    PROVE  GoodsInv' /\ ClansKept
<1>1. inv[i] \in Stacks /\ Len(inv[i]) \in {1, 2}
  <2>1. inv[i] \in Stacks
    BY DEF GoodsInv, GoodsTypes, Piles
  <2> QED
    BY <2>1, StackFacts
<1>2. CASE Len(inv[i]) = 2 /\ inv[i][1].n = n
  <2>1. Possessions!Used(inv, i, n) = [inv EXCEPT ![i] = <<>>]
    BY <1>2 DEF Possessions!Used
  <2>2. Possessions!Commit([inv EXCEPT ![i] = <<>>])
    BY <2>1
  <2>3. \A j \in Ids \ Objects : Stored(j)' = Stored(j) + (IF j = i THEN inv[i][1].n ELSE 0)
    BY <1>2
  <2> QED
    BY <1>2, <2>2, <2>3, SweptKeeps
<1>3. CASE ~(Len(inv[i]) = 2 /\ inv[i][1].n = n)
  <2>1. inv[i][1].n = n => Tail(inv[i]) = <<>>
    <3>1. ASSUME Len(inv[i]) = 1 PROVE Tail(inv[i]) = <<>>
      <4>1. Len(Tail(inv[i])) = 0 /\ Tail(inv[i]) \in Seq(Entries)
        BY <1>1, <3>1, StackFacts
      <4> QED
        BY <4>1, EmptySeq
    <3> QED
      BY <1>1, <1>3, <3>1
  <2>2. Possessions!Used(inv, i, n) = Possessions!Less(inv, i, n)
    <3>1. CASE inv[i][1].n = n
      BY <2>1, <3>1 DEF Possessions!Used, Possessions!Less
    <3>2. CASE inv[i][1].n # n
      BY <3>2 DEF Possessions!Used, Possessions!Less
    <3> QED
      BY <3>1, <3>2
  <2>3. Possessions!Commit(Possessions!Less(inv, i, n))
    BY <2>2
  <2> QED
    BY <2>3, LeaveKeeps
<1> QED
  BY <1>2, <1>3

LEMMA SellKeeps ==
    ASSUME GoodsInv, life = "alive", NEW i \in Listed, NEW n \in 1..MaxUnits, Possessions!Sell(i, n)
    PROVE  GoodsInv' /\ ClansKept
<1> USE DEF Possessions!Sell
<1>1. i \in Ids /\ i \notin Objects /\ n \in Nat /\ MaxUnits \in Nat
  BY ItemFacts
<1>2. /\ inv[i] # <<>> /\ n <= inv[i][1].n /\ inv[i][1].worn = "none"
      /\ i \in Containers => Possessions!Children(inv, i) = {}
  BY DEF Possessions!Sellable, Possessions!None
<1>3. /\ stock \in [Listed -> 0..MaxUnits] /\ acquired \in [Listed -> 0..MaxUnits] /\ spent \in [Ids -> Nat]
  BY DEF GoodsInv, GoodsTypes
<1>4. /\ stock' \in [Listed -> 0..MaxUnits] /\ acquired' \in [Listed -> 0..MaxUnits] /\ spent' \in [Ids -> Nat]
      /\ stock[i] \in Nat /\ stock'[i] = stock[i] + n /\ \A j \in Listed : j # i => stock'[j] = stock[j]
  <2>1. stock' \in [Listed -> 0..MaxUnits] /\ stock[i] \in Nat /\ stock'[i] = stock[i] + n
    BY <1>1, <1>3
  <2>2. acquired' \in [Listed -> 0..MaxUnits]
    <3>1. (IF inv[i][1].hot THEN n ELSE acquired[i]) \in 0..MaxUnits
      BY <1>1, <1>3
    <3> QED
      BY <1>3, <3>1
  <2> QED
    BY <1>3, <2>1, <2>2
<1>5. ASSUME NEW j \in Ids \ Objects PROVE Stored(j)' = Stored(j) + (IF j = i THEN n ELSE 0)
  <2>1. spent[j] \in Nat /\ spent' = spent /\ looted' = looted /\ (j \in Listed => stock[j] \in Nat)
    BY <1>3
  <2>2. CASE j = i
    BY <1>1, <1>4, <2>1, <2>2 DEF Stored
  <2>3. CASE j # i
    BY <1>4, <2>1, <2>3 DEF Stored
  <2> QED
    BY <2>2, <2>3
<1>6. ASSUME NEW o \in Objects PROVE spent'[o] <= MaxUnits + 1
  BY FewUnits, ItemFacts
<1>7. Possessions!Commit(Possessions!Used(inv, i, n)) /\ i \in Listed \cup Potions
  OBVIOUS
<1> QED
  BY <1>1, <1>2, <1>4, <1>5, <1>6, <1>7, UsedKeeps

\* What is dropped or drunk is spent.
LEMMA SpentKeeps ==
    ASSUME GoodsInv, NEW i \in Ids, NEW n \in 1..MaxUnits, Possessions!Gone(i, n),
           stock' = stock, looted' = looted,
           i \in Objects => spent[i] + n <= MaxUnits
    PROVE  /\ spent' \in [Ids -> Nat]
           /\ \A j \in Ids \ Objects : Stored(j)' = Stored(j) + (IF j = i THEN n ELSE 0)
           /\ \A o \in Objects : spent'[o] <= MaxUnits + 1
<1>1. spent \in [Ids -> Nat] /\ spent' = [spent EXCEPT ![i] = @ + n] /\ n \in Nat /\ MaxUnits \in Nat
  BY ItemFacts DEF GoodsInv, GoodsTypes, Possessions!Gone
<1>2. spent' \in [Ids -> Nat] /\ spent'[i] = spent[i] + n /\ \A j \in Ids : j # i => spent'[j] = spent[j]
  BY <1>1
<1>3. ASSUME NEW j \in Ids \ Objects PROVE Stored(j)' = Stored(j) + (IF j = i THEN n ELSE 0)
  <2>1. spent[j] \in Nat /\ (j \in Listed => stock[j] \in Nat)
    BY <1>1 DEF GoodsInv, GoodsTypes
  <2>2. CASE j = i
    BY <1>1, <1>2, <2>1, <2>2 DEF Stored
  <2>3. CASE j # i
    BY <1>2, <2>1, <2>3 DEF Stored
  <2> QED
    BY <2>2, <2>3
<1>4. ASSUME NEW o \in Objects PROVE spent'[o] <= MaxUnits + 1
  <2>1. o \in Ids /\ spent[o] \in Nat /\ spent[o] <= MaxUnits + 1
    BY FewUnits, ItemFacts
  <2>2. CASE o = i
    BY <1>1, <1>2, <2>1, <2>2
  <2>3. CASE o # i
    BY <1>2, <2>1, <2>3
  <2> QED
    BY <2>2, <2>3
<1> QED
  BY <1>2, <1>3, <1>4

LEMMA DropKeeps ==
    ASSUME GoodsInv, life = "alive", NEW i \in Ids, NEW n \in 1..MaxUnits, Possessions!DropItem(i, n)
    PROVE  GoodsInv' /\ ClansKept
<1> USE DEF Possessions!DropItem
<1>1. /\ inv[i] # <<>> /\ n <= inv[i][1].n
      /\ inv[i][1].worn = "none" \/ n < inv[i][1].n
      /\ i \in Containers => Possessions!Children(inv, i) = {}
  BY DEF Possessions!Droppable, Possessions!None
<1>2. stock' \in [Listed -> 0..MaxUnits] /\ acquired' \in [Listed -> 0..MaxUnits]
  BY DEF GoodsInv, GoodsTypes
<1>3. /\ spent' \in [Ids -> Nat]
      /\ \A j \in Ids \ Objects : Stored(j)' = Stored(j) + (IF j = i THEN n ELSE 0)
      /\ \A o \in Objects : spent'[o] <= MaxUnits + 1
  BY SpentKeeps
<1>4. Possessions!Commit(Possessions!Less(inv, i, n))
  OBVIOUS
<1> QED
  BY <1>1, <1>2, <1>3, <1>4, LeaveKeeps

LEMMA DrinkKeeps ==
    ASSUME GoodsInv, life = "alive", NEW i \in Ids, Possessions!Drink(i)
    PROVE  GoodsInv' /\ ClansKept
<1> USE DEF Possessions!Drink
<1>1. inv[i] # <<>> /\ i \notin Containers /\ i \notin Amulets /\ i \notin Objects
  BY ItemAssumption
<1>2. 1 <= inv[i][1].n /\ 1 \in 1..MaxUnits
  <2>1. inv[i] \in Stacks
    BY DEF GoodsInv, GoodsTypes, Piles
  <2>2. 1 \in 1..Len(inv[i])
    BY <1>1, <2>1, StackFacts
  <2>3. inv[i][1].n \in Nat /\ inv[i][1].n > 0
    BY <2>1, <2>2, StackFacts
  <2> QED
    BY <2>3, ItemFacts
<1>3. stock' \in [Listed -> 0..MaxUnits] /\ acquired' \in [Listed -> 0..MaxUnits]
  BY DEF GoodsInv, GoodsTypes
<1>4. /\ spent' \in [Ids -> Nat]
      /\ \A j \in Ids \ Objects : Stored(j)' = Stored(j) + (IF j = i THEN 1 ELSE 0)
      /\ \A o \in Objects : spent'[o] <= MaxUnits + 1
  BY <1>1, <1>2, SpentKeeps
<1>5. Possessions!Commit(Possessions!Used(inv, i, 1)) /\ i \in Listed \cup Potions
  OBVIOUS
<1> QED
  BY <1>1, <1>2, <1>3, <1>4, <1>5, UsedKeeps

-----------------------------------------------------------------------------
(* Equipment and death: entries that change their place only.                *)

LEMMA SameStack ==
    ASSUME NEW q \in Stacks, NEW r, r = [k \in DOMAIN q |-> r[k]],
           \A k \in DOMAIN q : r[k] \in Entries /\ r[k].n = q[k].n /\ (k = 2 => r[k].worn = "none")
    PROVE  r \in Stacks /\ Len(r) = Len(q) /\ Amount(r) = Amount(q) /\ (r = <<>> <=> q = <<>>)
<1>1. /\ DOMAIN q = 1..Len(q) /\ Len(q) \in 0..2 /\ (q = <<>> <=> Len(q) = 0)
      /\ \A k \in 1..Len(q) : q[k].n \in Nat
  BY StackFacts
<1>2. PICK n \in 0..2 : n = Len(q)
  BY <1>1
<1>3. r = [k \in 1..n |-> r[k]] /\ \A k \in 1..n : r[k] \in Entries /\ r[k].n = q[k].n
  BY <1>1, <1>2
<1>4. r \in Seq(Entries) /\ Len(r) = n
  BY <1>3
<1>5. r = <<>> <=> n = 0
  BY <1>4, EmptySeq
<1>6. n = 2 => r[2].worn = "none"
  <2>1. n = 2 => 2 \in DOMAIN q
    BY <1>1, <1>2
  <2> QED
    BY <2>1
<1>7. r \in Stacks
  BY <1>4, <1>6 DEF Stacks
<1>8. Amount(r) = Amount(q)
  <2>1. CASE n = 0
    BY <1>1, <1>2, <1>5, <2>1 DEF Amount
  <2>2. CASE n = 1
    BY <1>1, <1>2, <1>3, <1>4, <1>5, <2>2 DEF Amount
  <2>3. CASE n = 2
    <3>1. r[1].n = q[1].n /\ r[2].n = q[2].n
      BY <1>3, <2>3
    <3> QED
      BY <1>1, <1>2, <1>4, <1>5, <2>3, <3>1 DEF Amount
  <2> QED
    BY <2>1, <2>2, <2>3
<1> QED
  BY <1>1, <1>2, <1>4, <1>5, <1>7, <1>8

\* Nothing but the places where things are worn is different.
Alike(p, q) ==
    /\ q = [i \in Ids |-> q[i]]
    /\ \A i \in Ids : q[i] = [k \in DOMAIN p[i] |-> q[i][k]]
    /\ \A i \in Ids : \A k \in DOMAIN p[i] :
          /\ q[i][k] \in Entries /\ q[i][k].n = p[i][k].n /\ q[i][k].within = p[i][k].within
          /\ k = 2 => q[i][k].worn = "none"

LEMMA SamePile ==
    ASSUME NEW p \in Piles, NEW q, Alike(p, q)
    PROVE  /\ q \in Piles
           /\ \A i \in Ids : /\ Amount(q[i]) = Amount(p[i]) /\ Len(q[i]) = Len(p[i])
                             /\ q[i] = <<>> <=> p[i] = <<>>
           /\ /\ Possessions!Whole(p)
              /\ \A i \in Ids : p[i] # <<>> /\ p[i][1].within # "none" => q[i][1].worn = "none"
              => Possessions!Whole(q)
<1>1. ASSUME NEW i \in Ids
      PROVE  q[i] \in Stacks /\ Len(q[i]) = Len(p[i]) /\ Amount(q[i]) = Amount(p[i]) /\ (q[i] = <<>> <=> p[i] = <<>>)
  <2>1. PICK a, b : a = p[i] /\ b = q[i]
    OBVIOUS
  <2>2. a \in Stacks
    BY <2>1 DEF Piles
  <2>3. b = [k \in DOMAIN a |-> b[k]]
    BY <2>1 DEF Alike
  <2>4. \A k \in DOMAIN a : b[k] \in Entries /\ b[k].n = a[k].n /\ (k = 2 => b[k].worn = "none")
    BY <2>1 DEF Alike
  <2> QED
    BY <2>1, <2>2, <2>3, <2>4, SameStack
<1>2. q \in Piles
  BY <1>1 DEF Piles, Alike
<1>3. ASSUME Possessions!Whole(p),
             \A i \in Ids : p[i] # <<>> /\ p[i][1].within # "none" => q[i][1].worn = "none"
      PROVE  Possessions!Whole(q)
  <2>1. \A i \in Ids : Len(p[i]) <= 1
    BY <1>3 DEF Possessions!Whole
  <2>2. ASSUME NEW i \in Ids, q[i] # <<>>, q[i][1].within # "none"
        PROVE  /\ p[i] # <<>> /\ p[i][1].within = q[i][1].within
               /\ q[i][1].worn = "none" /\ q[q[i][1].within] # <<>>
    <3>1. p[i] # <<>>
      BY <1>1, <2>2
    <3>2. 1 \in DOMAIN p[i]
      <4>1. p[i] \in Stacks
        BY DEF Piles
      <4> QED
        BY <3>1, <4>1, StackFacts
    <3>3. p[i][1].within = q[i][1].within
      BY <3>2 DEF Alike
    <3>4. p[i][1].within \in Containers /\ p[p[i][1].within] # <<>>
      BY <1>3, <2>2, <3>1, <3>3 DEF Possessions!Whole, Possessions!Owned, Possessions!None
    <3>5. q[p[i][1].within] # <<>>
      BY <1>1, <3>4, ItemFacts
    <3> QED
      BY <1>3, <2>2, <3>1, <3>3, <3>5
  <2> QED
    BY <1>1, <1>2, <1>3, <2>1, <2>2, LooserIsWhole
<1> QED
  BY <1>1, <1>2, <1>3

\* A command that changes only where things are worn.
LEMMA DressKeeps ==
    ASSUME GoodsInv, life = "alive", NEW pile \in Piles, NEW objs, inv' = Possessions!Loaded(pile, objs),
           SlotsFit(Gear(pile)), WardsFit(Gear(pile), shining', charge),
           Possessions!Whole(pile) \/ tampered,
           \A i \in Ids : Amount(pile[i]) = Amount(inv[i]),
           shared' = shared, stock' = stock, acquired' = acquired, charge' = charge, life' = life,
           remains' = remains, looted' = looted, spent' = spent, tampered' = tampered
    PROVE  GoodsInv' /\ ClansKept
<1>1. PICK new : new = inv'
  OBVIOUS
<1>2. /\ new \in Piles /\ Gear(new) = Gear(pile)
      /\ Possessions!Whole(pile) => Possessions!Whole(new)
      /\ \A i \in Ids : \/ Amount(new[i]) = Amount(pile[i])
                        \/ i \in Objects /\ Amount(pile[i]) = 0 /\ Amount(new[i]) = 1
  BY <1>1, LoadKeeps
<1>3. shining' \subseteq Amulets
  BY DEF WardsFit
<1>4. GoodsTypes'
  BY <1>1, <1>2, <1>3 DEF GoodsInv, GoodsTypes
<1>5. ASSUME NEW i \in Ids
      PROVE  /\ Stored(i)' = Stored(i)
             /\ Amount(pile[i]) + Amount(shared'[i]) + Amount(remains'[i]) = Held(i)
             /\ Amount(remains'[i]) = 0
  <2>1. Amount(remains'[i]) = 0
    BY NothingFits DEF GoodsInv, GoodsTypes
  <2> QED
    BY <2>1 DEF Stored, Held
<1>6. ASSUME NEW o \in Objects
      PROVE  /\ Amount(pile[o]) + Amount(shared'[o]) + Amount(remains'[o]) <= MaxUnits + 1
             /\ Amount(inv'[o]) = Amount(pile[o]) \/ Amount(remains'[o]) = 0
             /\ Amount(shared'[o]) <= MaxUnits /\ spent'[o] <= MaxUnits + 1
  <2>1. o \in Ids
    BY ItemFacts
  <2> QED
    BY <1>5, <2>1 DEF GoodsInv, ObjectsFit
<1>7. /\ \A i \in Single : Clan(i)' <= MaxUnits + 1
      /\ ObjectsFit'
      /\ ClansKept
  BY <1>1, <1>2, <1>4, <1>5, <1>6, CountsKeep
<1> QED
  BY <1>1, <1>2, <1>4, <1>7 DEF GoodsInv

LEMMA UnequipKeeps ==
    ASSUME GoodsInv, life = "alive", NEW i \in Ids, Possessions!UnequipItem(i)
    PROVE  GoodsInv' /\ ClansKept
<1> USE DEF Possessions!UnequipItem
<1>1. inv \in Piles /\ inv[i] \in Stacks /\ inv[i] # <<>>
  BY DEF GoodsInv, GoodsTypes, Piles
<1>2. 1 \in 1..Len(inv[i]) /\ inv[i][1] \in Entries
  BY <1>1, StackFacts
<1>3. PICK e : e = [inv[i][1] EXCEPT !.worn = "none"]
  OBVIOUS
<1>4. e \in Entries /\ e.n = inv[i][1].n /\ e.worn = "none" /\ e.within = inv[i][1].within
  BY <1>2, <1>3, ItemFacts DEF Entries
<1>5. PICK r : r = Changed(inv[i], 1, e)
  OBVIOUS
<1>6. /\ r \in Stacks /\ Len(r) = Len(inv[i]) /\ r[1] = e
      /\ \A j \in 1..Len(inv[i]) : j # 1 => r[j] = inv[i][j]
  <2>1. inv[i] \in Stacks /\ 1 \in 1..Len(inv[i]) /\ e \in Entries /\ e.worn = "none"
    BY <1>1, <1>2, <1>4
  <2>2. /\ Changed(inv[i], 1, e) \in Stacks /\ Len(Changed(inv[i], 1, e)) = Len(inv[i])
        /\ Changed(inv[i], 1, e)[1] = e
        /\ \A j \in 1..Len(inv[i]) : j # 1 => Changed(inv[i], 1, e)[j] = inv[i][j]
    BY ONLY <2>1, ChangedEntry
  <2> QED
    BY <1>5, <2>2
<1>7. PICK pile : pile = [inv EXCEPT ![i] = r]
  OBVIOUS
<1>8. inv' = Possessions!Loaded(pile, objects)
  BY <1>3, <1>5, <1>7 DEF Possessions!Commit, Possessions!CommitWith, Changed, Possessions!None
<1>9. pile \in Piles /\ pile[i] = r /\ \A j \in Ids : j # i => pile[j] = inv[j]
  BY <1>1, <1>6, <1>7 DEF Piles
<1>10. /\ r # <<>> /\ Amount(r) = Amount(inv[i]) /\ Len(r) \in 1..2
  <2>1. Len(inv[i]) \in 1..2
    BY <1>1, StackFacts
  <2>2. r # <<>>
    BY <1>6, <2>1, StackFacts
  <2>3. CASE Len(inv[i]) = 1
    BY <1>1, <1>4, <1>6, <2>2, <2>3 DEF Amount
  <2>4. CASE Len(inv[i]) = 2
    <3>1. r[2] = inv[i][2]
      BY <1>6, <2>4
    <3> QED
      BY <1>1, <1>4, <1>6, <2>2, <2>4, <3>1 DEF Amount
  <2> QED
    BY <1>6, <2>1, <2>2, <2>3, <2>4
<1>11. Gear(pile)[i] = "none" /\ \A j \in Ids : j # i => Gear(pile)[j] = Gear(inv)[j]
  BY <1>4, <1>6, <1>9, <1>10 DEF Gear
<1>12. SlotsFit(Gear(pile))
  BY <1>11, LooserGear DEF GoodsInv
<1>13. WardsFit(Gear(pile), shining', charge)
  <2>1. shining = {w \in Amulets : Gear(inv)[w] # "none" /\ charge[w] > 0} /\ shining' = shining \ {i}
    BY DEF GoodsInv, WardsFit
  <2>2. Amulets \subseteq Ids
    BY ItemAssumption
  <2>3. ASSUME NEW w \in Amulets PROVE w \in shining' <=> Gear(pile)[w] # "none" /\ charge[w] > 0
    <3>1. CASE w = i
      BY <1>11, <2>1, <3>1
    <3>2. CASE w # i
      BY <1>11, <2>1, <2>2, <3>2
    <3> QED
      BY <3>1, <3>2
  <2>4. shining' = {w \in Amulets : Gear(pile)[w] # "none" /\ charge[w] > 0}
    <3>1. shining' \subseteq Amulets
      BY <2>1
    <3> QED
      BY <2>3, <3>1
  <2> QED
    BY <2>4 DEF WardsFit
<1>14. Possessions!Whole(pile) \/ tampered
  <2> SUFFICES ASSUME Possessions!Whole(inv) PROVE Possessions!Whole(pile)
    BY DEF GoodsInv
  <2>1. \A j \in Ids : Len(inv[j]) <= 1
    BY DEF Possessions!Whole
  <2>2. \A j \in Ids : Len(pile[j]) <= 1
    BY <1>6, <1>9, <2>1
  <2>3. ASSUME NEW j \in Ids, pile[j] # <<>>, pile[j][1].within # "none"
        PROVE  /\ inv[j] # <<>> /\ inv[j][1].within = pile[j][1].within
               /\ pile[j][1].worn = "none" /\ pile[pile[j][1].within] # <<>>
    <3>1. inv[j] # <<>> /\ inv[j][1].within = pile[j][1].within
      BY <1>1, <1>4, <1>6, <1>9, <2>3
    <3>2. inv[j][1].worn = "none" /\ inv[j][1].within \in Containers /\ inv[inv[j][1].within] # <<>>
      BY <2>3, <3>1 DEF Possessions!Whole, Possessions!Owned, Possessions!None
    <3> QED
      BY <1>4, <1>6, <1>9, <1>10, <3>1, <3>2, ItemFacts
  <2> QED
    BY <1>1, <1>9, <2>2, <2>3, LooserIsWhole
<1>15. \A j \in Ids : Amount(pile[j]) = Amount(inv[j])
  BY <1>9, <1>10
<1>16. UNCHANGED <<shared, party, stock, acquired, fence, charge, objects, life, remains, looted, spent, tampered>>
  OBVIOUS
<1> HIDE DEF Possessions!UnequipItem
<1> QED
  BY <1>8, <1>9, <1>12, <1>13, <1>14, <1>15, <1>16, DressKeeps

\* The pile of a hero who puts on item i in slot s.
Dressed(pile, i, s) ==
    [j \in Ids |->
        [k \in DOMAIN pile[j] |->
            IF j = i /\ k = 1 THEN [pile[j][k] EXCEPT !.worn = s]
            ELSE IF pile[j][k].worn = s THEN [pile[j][k] EXCEPT !.worn = "none"]
            ELSE pile[j][k]]]

LEMMA DressedIs ==
    ASSUME NEW pile \in Piles, NEW i \in Ids, NEW s \in SlotsOf[i], pile[i] # <<>>, pile[i][1].within = "none",
           NEW new, new = Dressed(pile, i, s)
    PROVE  /\ new \in Piles
           /\ \A j \in Ids : Amount(new[j]) = Amount(pile[j])
           /\ Possessions!Whole(pile) => Possessions!Whole(new)
           /\ Gear(new)[i] = s
           /\ \A j \in Ids : j # i => Gear(new)[j] = IF Gear(pile)[j] = s THEN "none" ELSE Gear(pile)[j]
<1>1. s \in Places /\ s # "none" /\ s # "loose" /\ "none" \in Places
  BY ItemAssumption DEF Places
<1>2. ASSUME NEW j \in Ids
      PROVE  /\ \A k \in DOMAIN pile[j] : pile[j][k] \in Entries
             /\ DOMAIN pile[j] = 1..Len(pile[j]) /\ Len(pile[j]) \in 0..2 /\ (pile[j] = <<>> <=> Len(pile[j]) = 0)
             /\ Len(pile[j]) = 2 => pile[j][2].worn = "none"
  <2>1. pile[j] \in Stacks
    BY DEF Piles
  <2> QED
    BY <2>1, StackFacts
<1>3. ASSUME NEW e \in Entries, NEW t \in Places
      PROVE  /\ [e EXCEPT !.worn = t] \in Entries /\ [e EXCEPT !.worn = t].worn = t
             /\ [e EXCEPT !.worn = t].n = e.n /\ [e EXCEPT !.worn = t].within = e.within
  BY DEF Entries
<1>4. new = [j \in Ids |-> new[j]] /\ \A j \in Ids : new[j] = [k \in DOMAIN pile[j] |-> new[j][k]]
  BY DEF Dressed
<1>5. ASSUME NEW j \in Ids, NEW k \in DOMAIN pile[j]
      PROVE  /\ new[j][k] \in Entries /\ new[j][k].n = pile[j][k].n /\ new[j][k].within = pile[j][k].within
             /\ k = 2 => new[j][k].worn = "none"
             /\ new[j][k].worn = IF j = i /\ k = 1 THEN s
                                 ELSE IF pile[j][k].worn = s THEN "none" ELSE pile[j][k].worn
  <2>1. pile[j][k] \in Entries
    BY <1>2
  <2>2. k = 2 => pile[j][k].worn = "none"
    BY <1>2
  <2>3. PICK e : e = pile[j][k]
    OBVIOUS
  <2>4. PICK on, off : on = [e EXCEPT !.worn = s] /\ off = [e EXCEPT !.worn = "none"]
    OBVIOUS
  <2>5. /\ on \in Entries /\ on.worn = s /\ on.n = e.n /\ on.within = e.within
        /\ off \in Entries /\ off.worn = "none" /\ off.n = e.n /\ off.within = e.within
    BY <1>1, <1>3, <2>1, <2>3, <2>4
  <2>6. new[j][k] = IF j = i /\ k = 1 THEN on ELSE IF e.worn = s THEN off ELSE e
    BY <2>3, <2>4 DEF Dressed
  <2> QED
    BY <1>1, <2>1, <2>2, <2>3, <2>5, <2>6
<1>6. /\ new \in Piles
      /\ \A j \in Ids : /\ Amount(new[j]) = Amount(pile[j]) /\ Len(new[j]) = Len(pile[j])
                        /\ new[j] = <<>> <=> pile[j] = <<>>
      /\ /\ Possessions!Whole(pile)
         /\ \A j \in Ids : pile[j] # <<>> /\ pile[j][1].within # "none" => new[j][1].worn = "none"
         => Possessions!Whole(new)
  <2>1. \A j \in Ids : \A k \in DOMAIN pile[j] :
           /\ new[j][k] \in Entries /\ new[j][k].n = pile[j][k].n /\ new[j][k].within = pile[j][k].within
           /\ k = 2 => new[j][k].worn = "none"
    BY <1>5
  <2>2. new = [j \in Ids |-> new[j]]
    BY <1>4
  <2>3. \A j \in Ids : new[j] = [k \in DOMAIN pile[j] |-> new[j][k]]
    BY <1>4
  <2>4. Alike(pile, new)
    BY <2>1, <2>2, <2>3 DEF Alike
  <2> QED
    BY <2>4, SamePile
<1>7. ASSUME NEW j \in Ids, pile[j] # <<>>
      PROVE  new[j][1].worn = IF j = i THEN s ELSE IF pile[j][1].worn = s THEN "none" ELSE pile[j][1].worn
  <2>1. 1 \in DOMAIN pile[j]
    BY <1>2, <1>7
  <2> QED
    BY <1>5, <2>1
<1>8. Possessions!Whole(pile) => Possessions!Whole(new)
  <2> SUFFICES ASSUME Possessions!Whole(pile), NEW j \in Ids, pile[j] # <<>>, pile[j][1].within # "none"
               PROVE  new[j][1].worn = "none"
    BY <1>6
  <2>1. pile[j][1].worn = "none" /\ j # i
    BY DEF Possessions!Whole, Possessions!Owned, Possessions!None
  <2> QED
    BY <1>7, <2>1
<1>9. /\ Gear(new)[i] = s
      /\ \A j \in Ids : j # i => Gear(new)[j] = IF Gear(pile)[j] = s THEN "none" ELSE Gear(pile)[j]
  BY <1>1, <1>6, <1>7 DEF Gear
<1> QED
  BY <1>6, <1>8, <1>9

LEMMA EquipKeeps ==
    ASSUME GoodsInv, life = "alive", NEW i \in Ids, NEW s \in SlotsOf[i], Possessions!EquipItem(i, s)
    PROVE  GoodsInv' /\ ClansKept
<1> USE DEF Possessions!EquipItem
<1>1. inv \in Piles /\ inv[i] # <<>> /\ inv[i][1].within = "none"
  BY DEF GoodsInv, GoodsTypes, Possessions!None
<1>2. PICK pile : pile = Dressed(inv, i, s)
  OBVIOUS
<1>3. inv' = Possessions!Loaded(pile, objects)
  BY <1>2 DEF Possessions!Commit, Possessions!CommitWith, Dressed, Possessions!None
<1>4. /\ pile \in Piles
      /\ \A j \in Ids : Amount(pile[j]) = Amount(inv[j])
      /\ Possessions!Whole(inv) => Possessions!Whole(pile)
      /\ Gear(pile)[i] = s
      /\ \A j \in Ids : j # i => Gear(pile)[j] = IF Gear(inv)[j] = s THEN "none" ELSE Gear(inv)[j]
  BY <1>1, <1>2, DressedIs
<1>5. s # "none" /\ s # "loose"
  BY ItemAssumption
<1>6. \A t : t # "none" => Possessions!Worn(inv, t) = {j \in Ids : Gear(inv)[j] = t}
  BY <1>1, GearIs
<1>7. SlotsFit(Gear(pile))
  <2>1. ASSUME NEW j \in Ids, NEW k \in Ids, Gear(pile)[j] = Gear(pile)[k], Gear(pile)[j] \notin {"none", "loose"}
        PROVE  j = k
    <3>1. CASE j = i \/ k = i
      BY <1>4, <1>5, <2>1, <3>1
    <3>2. CASE j # i /\ k # i
      BY <1>4, <2>1, <3>2 DEF GoodsInv, SlotsFit
    <3> QED
      BY <3>1, <3>2
  <2>2. ASSUME NEW j \in Ids, NEW k \in Ids, Gear(pile)[j] = "mainhand", j \in TwoHanded, Gear(pile)[k] = "offhand"
        PROVE  FALSE
    <3>1. CASE j = i
      <4>1. Possessions!Worn(inv, "offhand") \subseteq {i} /\ k # i
        BY <1>4, <2>2, <3>1 DEF Possessions!HandsFree
      <4> QED
        BY <1>4, <1>6, <2>2, <4>1
    <3>2. CASE k = i
      <4>1. Possessions!Worn(inv, "mainhand") \cap TwoHanded \subseteq {i} /\ j # i
        BY <1>4, <2>2, <3>2 DEF Possessions!HandsFree
      <4> QED
        BY <1>4, <1>6, <2>2, <4>1
    <3>3. CASE j # i /\ k # i
      BY <1>4, <2>2, <3>3 DEF GoodsInv, SlotsFit
    <3> QED
      BY <3>1, <3>2, <3>3
  <2> QED
    BY <2>1, <2>2 DEF SlotsFit
<1>8. WardsFit(Gear(pile), shining', charge)
  <2>1. shining = {w \in Amulets : Gear(inv)[w] # "none" /\ charge[w] > 0}
    BY DEF GoodsInv, WardsFit
  <2>2. shining' = (shining \ ({j \in Ids : Gear(inv)[j] = s} \ {i})) \cup ({i} \cap Amulets)
    BY <1>5, <1>6 DEF Possessions!Undisplaced
  <2>3. i \in Amulets => charge[i] > 0
    OBVIOUS
  <2>4. Amulets \subseteq Ids
    BY ItemAssumption
  <2>5. shining' = {w \in Amulets : Gear(pile)[w] # "none" /\ charge[w] > 0}
    <3>1. ASSUME NEW w \in Amulets PROVE w \in shining' <=> Gear(pile)[w] # "none" /\ charge[w] > 0
      <4>1. CASE w = i
        BY <1>4, <1>5, <2>1, <2>2, <2>3, <4>1
      <4>2. CASE w # i
        BY <1>4, <1>5, <2>1, <2>2, <2>4, <4>2
      <4> QED
        BY <4>1, <4>2
    <3>2. shining' \subseteq Amulets
      BY <2>1, <2>2
    <3> QED
      BY <3>1, <3>2
  <2> QED
    BY <2>5 DEF WardsFit
<1>9. Possessions!Whole(pile) \/ tampered
  BY <1>4 DEF GoodsInv
<1>10. UNCHANGED <<shared, party, stock, acquired, fence, charge, objects, life, remains, looted, spent, tampered>>
  OBVIOUS
<1> HIDE DEF Possessions!EquipItem
<1> QED
  BY <1>3, <1>4, <1>7, <1>8, <1>9, <1>10, DressKeeps

LEMMA ChargeKeeps ==
    ASSUME GoodsInv, NEW w \in Amulets, Possessions!SpendCharge(w)
    PROVE  GoodsInv' /\ ClansKept
<1> USE DEF Possessions!SpendCharge
<1>1. charge \in [Amulets -> 0..1] /\ shining = {v \in Amulets : Gear(inv)[v] # "none" /\ charge[v] > 0}
  BY DEF GoodsInv, GoodsTypes, WardsFit
<1>2. charge[w] = 1 /\ charge' = [charge EXCEPT ![w] = @ - 1]
  BY <1>1
<1>3. charge' \in [Amulets -> 0..1] /\ charge'[w] = 0 /\ \A v \in Amulets : v # w => charge'[v] = charge[v]
  BY <1>1, <1>2
<1>4. shining' = shining \ {w}
  BY <1>2 DEF Possessions!AfterCharge
<1>5. shining' = {v \in Amulets : Gear(inv)[v] # "none" /\ charge'[v] > 0}
  <2>1. ASSUME NEW v \in Amulets PROVE v \in shining' <=> Gear(inv)[v] # "none" /\ charge'[v] > 0
    <3>1. CASE v = w
      BY <1>3, <1>4, <3>1
    <3>2. CASE v # w
      BY <1>1, <1>3, <1>4, <3>2
    <3> QED
      BY <3>1, <3>2
  <2>2. shining' \subseteq Amulets
    BY <1>1, <1>4
  <2> QED
    BY <2>1, <2>2
<1>6. /\ inv' = inv /\ shared' = shared /\ remains' = remains /\ stock' = stock /\ acquired' = acquired
      /\ spent' = spent /\ looted' = looted /\ tampered' = tampered /\ life' = life
  OBVIOUS
<1> HIDE DEF Possessions!SpendCharge
<1>7. GoodsTypes'
  BY <1>3, <1>5, <1>6 DEF GoodsInv, GoodsTypes
<1>8. WardsFit(Gear(inv'), shining', charge')
  BY <1>5, <1>6 DEF WardsFit
<1>9. \A i \in Ids : Held(i)' = Held(i) /\ Stored(i)' = Stored(i)
  BY <1>6 DEF Held, Stored
<1>10. \A i \in Single : Clan(i)' = Clan(i)
  <2>1. \A i \in Single : i \in Ids
    BY DEF Single
  <2>2. \A i \in DOMAIN SplitOf : SplitOf[i] \in Ids
    BY ItemAssumption
  <2> QED
    BY <1>9, <2>1, <2>2 DEF Clan
<1>11. ObjectsFit'
  BY <1>6, <1>9, ItemFacts DEF GoodsInv, ObjectsFit
<1> QED
  BY <1>6, <1>7, <1>8, <1>10, <1>11 DEF GoodsInv, ClansKept

LEMMA GoodsIdle ==
    ASSUME GoodsInv, UNCHANGED <<inv, shared, stock, acquired, charge, shining, life, remains, looted, spent, tampered>>
    PROVE  GoodsInv' /\ ClansKept
<1>1. /\ inv' = inv /\ shared' = shared /\ remains' = remains /\ stock' = stock /\ acquired' = acquired
      /\ spent' = spent /\ looted' = looted /\ tampered' = tampered /\ life' = life
      /\ charge' = charge /\ shining' = shining
  OBVIOUS
<1>2. GoodsTypes'
  BY <1>1 DEF GoodsInv, GoodsTypes
<1>3. \A i \in Ids : Held(i)' = Held(i) /\ Stored(i)' = Stored(i)
  BY <1>1 DEF Held, Stored
<1>4. \A i \in Single : Clan(i)' = Clan(i)
  <2>1. \A i \in Single : i \in Ids
    BY DEF Single
  <2>2. \A i \in DOMAIN SplitOf : SplitOf[i] \in Ids
    BY ItemAssumption
  <2> QED
    BY <1>3, <2>1, <2>2 DEF Clan
<1>5. ObjectsFit'
  BY <1>1, <1>3, ItemFacts DEF GoodsInv, ObjectsFit
<1> QED
  BY <1>1, <1>2, <1>4, <1>5 DEF GoodsInv, ClansKept

\* Death leaves nothing in the inventory, and everything in the remains.
LEMMA DieKeeps ==
    ASSUME GoodsInv, life = "alive", Possessions!Die
    PROVE  GoodsInv' /\ ClansKept
<1> DEFINE N == Possessions!Nothing
<1>1. /\ life' = "dead" /\ inv' = N /\ shining' = shining \ Possessions!Owned(inv)
      /\ UNCHANGED <<shared, party, stock, acquired, fence, charge, looted, spent, tampered>>
      /\ remains' = [i \in Ids |-> [k \in DOMAIN inv[i] |-> [inv[i][k] EXCEPT !.worn = "none"]]]
  BY DEF Possessions!Die, Possessions!AtDeath, Possessions!None
<1>2. inv \in Piles /\ N \in Piles /\ (\A i \in Ids : N[i] = <<>>) /\ Amount(<<>>) = 0
  BY NothingFits DEF GoodsInv, GoodsTypes
<1>3. remains' \in Piles /\ \A i \in Ids : Amount(remains'[i]) = Amount(inv[i])
  <2>1. PICK body : body = remains'
    OBVIOUS
  <2>2. ASSUME NEW i \in Ids, NEW k \in DOMAIN inv[i]
        PROVE  /\ body[i][k] \in Entries /\ body[i][k].n = inv[i][k].n /\ body[i][k].within = inv[i][k].within
               /\ body[i][k].worn = "none"
    <3>1. inv[i] \in Stacks
      BY <1>2 DEF Piles
    <3>2. inv[i][k] \in Entries
      BY <3>1, StackFacts
    <3>3. body[i][k] = [inv[i][k] EXCEPT !.worn = "none"]
      BY <1>1, <2>1
    <3> QED
      BY <3>2, <3>3, ItemFacts DEF Entries
  <2>3. \A i \in Ids : body[i] = [k \in DOMAIN inv[i] |-> body[i][k]]
    BY <1>1, <2>1
  <2>4. body = [i \in Ids |-> body[i]]
    BY <1>1, <2>1
  <2>5. Alike(inv, body)
    BY <2>2, <2>3, <2>4 DEF Alike
  <2> QED
    BY <1>2, <2>1, <2>5, SamePile
<1> HIDE DEF N
<1>4. Gear(N) = [i \in Ids |-> "none"]
  BY <1>2 DEF Gear
<1>5. shining' = {}
  <2>1. shining = {v \in Amulets : Gear(inv)[v] # "none" /\ charge[v] > 0} /\ Amulets \subseteq Ids
    BY ItemAssumption DEF GoodsInv, WardsFit
  <2>2. \A v \in Amulets : Gear(inv)[v] # "none" => inv[v] # <<>>
    BY <2>1 DEF Gear
  <2> QED
    BY <1>1, <2>1, <2>2 DEF Possessions!Owned
<1>6. SlotsFit(Gear(N)) /\ WardsFit(Gear(N), {}, charge)
  <2>1. \A i \in Ids : Gear(N)[i] = "none"
    BY <1>4
  <2>2. Amulets \subseteq Ids
    BY ItemAssumption
  <2> QED
    BY <2>1, <2>2 DEF SlotsFit, WardsFit
<1>7. Possessions!Whole(N)
  <2>1. Len(<<>>) = 0 /\ 0 <= 1
    BY EmptySeq
  <2>2. \A i \in Ids : Len(N[i]) <= 1
    BY <1>2, <2>1
  <2>3. Possessions!Owned(N) = {}
    BY <1>2 DEF Possessions!Owned
  <2> QED
    BY <2>2, <2>3 DEF Possessions!Whole
<1>8. GoodsTypes'
  BY <1>1, <1>2, <1>3, <1>5 DEF GoodsInv, GoodsTypes
<1>9. ASSUME NEW i \in Ids
      PROVE  /\ Stored(i)' = Stored(i)
             /\ Amount(N[i]) + Amount(shared'[i]) + Amount(remains'[i]) = Held(i)
  <2>1. Stored(i)' = Stored(i)
    BY <1>1 DEF Stored
  <2>2. Amount(remains[i]) = 0 /\ Amount(N[i]) = 0
    BY <1>2, NothingFits DEF GoodsInv, GoodsTypes
  <2>3. PICK a, b : a = Amount(inv[i]) /\ b = Amount(shared[i])
    OBVIOUS
  <2>4. a \in Nat /\ b \in Nat /\ 0 + b + a = a + b + 0
    BY <2>3, AmountsAreNat DEF GoodsInv, AmountsNat
  <2>5. Amount(shared'[i]) = b /\ Amount(remains'[i]) = a
    BY <1>1, <1>3, <2>3
  <2> QED
    BY <2>1, <2>2, <2>3, <2>4, <2>5 DEF Held
<1>10. ASSUME NEW o \in Objects
       PROVE  /\ Amount(N[o]) + Amount(shared'[o]) + Amount(remains'[o]) <= MaxUnits + 1
              /\ Amount(inv'[o]) = Amount(N[o]) \/ Amount(remains'[o]) = 0
              /\ Amount(shared'[o]) <= MaxUnits /\ spent'[o] <= MaxUnits + 1
  <2>1. o \in Ids
    BY ItemFacts
  <2> QED
    BY <1>1, <1>9, <2>1 DEF GoodsInv, ObjectsFit
<1>11. /\ \A i \in Single : Clan(i)' <= MaxUnits + 1
       /\ ObjectsFit'
       /\ ClansKept
  BY <1>1, <1>2, <1>8, <1>9, <1>10, CountsKeep
<1> QED
  BY <1>1, <1>5, <1>6, <1>7, <1>8, <1>11 DEF GoodsInv

-----------------------------------------------------------------------------
(* What is counted: the units of a stack, and those of a clan.               *)

LEMMA UnitsAre ==
    ASSUME NEW pile \in Piles, NEW i \in Ids
    PROVE  Possessions!Units(pile, i) = Amount(pile[i])
<1> DEFINE D == DOMAIN pile[i]
           Step(iter) == [s \in SUBSET D |->
                            IF s = {} THEN 0 ELSE pile[i][First(s)].n + iter[s \ {First(s)}]]
           F == CHOOSE iter : iter = Step(iter)
           w == [k \in D |-> pile[i][k].n]
<1>1. Possessions!Units(pile, i) = F[D]
  BY Zenon DEF Possessions!Units, Possessions!MapThenSumSet, Possessions!MapThenFoldSet, First
<1>2. /\ D = 1..Len(pile[i]) /\ Len(pile[i]) \in 0..2 /\ (pile[i] = <<>> <=> Len(pile[i]) = 0)
      /\ \A k \in D : pile[i][k].n \in Nat
  <2>1. pile[i] \in Stacks
    BY DEF Piles
  <2> QED
    BY <2>1, StackFacts
<1>3. w \in [D -> Nat]
  BY <1>2
<1>4. (Len(pile[i]) = 0 => D = {}) /\ (Len(pile[i]) = 1 => D = {1}) /\ (Len(pile[i]) = 2 => D = {1, 2})
  <2>1. PICK n : n = Len(pile[i])
    OBVIOUS
  <2>2. n \in 0..2 /\ D = 1..n
    BY <1>2, <2>1
  <2> HIDE DEF D
  <2>3. (n = 0 => D = {}) /\ (n = 1 => D = {1}) /\ (n = 2 => D = {1, 2})
    BY <2>2
  <2> QED
    BY <2>1, <2>3
<1>5. IsFiniteSet(D)
  <2>1. 1 \in Int /\ Len(pile[i]) \in Int /\ D = 1..Len(pile[i])
    BY <1>2
  <2> QED
    BY <2>1, FS_Interval, Zenon
<1>6. ASSUME NEW iter PROVE IsSum(iter, w, D) <=> iter = Step(iter)
  <2>1. ASSUME NEW s \in SUBSET D, s # {} PROVE w[First(s)] = pile[i][First(s)].n
    BY <2>1, FirstIsIn
  <2>2. [s \in SUBSET D |-> IF s = {} THEN 0 ELSE w[First(s)] + iter[s \ {First(s)}]] = Step(iter)
    BY <2>1
  <2> QED
    BY <2>2 DEF IsSum
<1>7. IsSum(F, w, D)
  <2>1. IsSum(SumFn(w, D), w, D)
    <3> HIDE DEF w, D
    <3> QED
      BY <1>3, <1>5, SumExists
  <2>2. SumFn(w, D) = Step(SumFn(w, D))
    BY <1>6, <2>1
  <2> HIDE DEF Step
  <2>3. F = Step(F)
    BY <2>2
  <2> QED
    BY <1>6, <2>3
<1> HIDE DEF F, D
<1>8. F[D] = Sum(w, D)
  <2> HIDE DEF w
  <2>1. IsSum(SumFn(w, D), w, D)
    BY <1>3, <1>5, SumExists
  <2> QED
    BY <1>5, <1>7, <2>1, SumIsUnique DEF Sum
<1>9. Sum(w, D) = Amount(pile[i])
  <2>1. CASE Len(pile[i]) = 0
    BY <1>2, <1>4, <2>1, SmallSums DEF Amount
  <2>2. CASE Len(pile[i]) = 1
    <3>1. Sum(w, {1}) = w[1] /\ w[1] = pile[i][1].n
      BY <1>3, <1>4, <2>2, SmallSums
    <3> QED
      BY <1>2, <1>4, <2>2, <3>1 DEF Amount
  <2>3. CASE Len(pile[i]) = 2
    <3>1. Sum(w, {1, 2}) = w[1] + w[2] /\ w[1] = pile[i][1].n /\ w[2] = pile[i][2].n
      <4>1. w \in [{1, 2} -> Nat] /\ 1 # 2
        BY <1>3, <1>4, <2>3
      <4>2. Sum(w, {1, 2}) = w[1] + w[2]
        <5> HIDE DEF w
        <5> QED
          BY <4>1, SmallSums
      <4> QED
        BY <1>4, <2>3, <4>2
    <3> QED
      BY <1>2, <1>4, <2>3, <3>1 DEF Amount
  <2> QED
    BY <1>2, <2>1, <2>2, <2>3
<1> QED
  BY <1>1, <1>8, <1>9

LEMMA CountedIs == GoodsTypes => \A i \in Single : Possessions!Counted(i) = Clan(i)
<1> SUFFICES ASSUME GoodsTypes, NEW i \in Single PROVE Possessions!Counted(i) = Clan(i)
  OBVIOUS
<1> DEFINE D == Possessions!Family(i)
           Weight(j) == Possessions!Units(inv, j) + Possessions!Units(shared, j) + Possessions!Units(remains, j)
                          + spent[j] + (IF j \in Listed THEN stock[j] ELSE 0)
                          + (IF j = Reward /\ ~looted THEN 1 ELSE 0)
           Step(iter) == [s \in SUBSET D |-> IF s = {} THEN 0 ELSE Weight(First(s)) + iter[s \ {First(s)}]]
           F == CHOOSE iter : iter = Step(iter)
           w == [j \in D |-> Held(j) + Stored(j)]
<1>1. Possessions!Counted(i) = F[D]
  BY Zenon DEF Possessions!Counted, Possessions!MapThenSumSet, Possessions!MapThenFoldSet, First
<1>2. i \in Ids /\ i \notin Objects
  BY DEF Single
<1>3. /\ i \in DOMAIN SplitOf => D = {i, SplitOf[i]} /\ SplitOf[i] # i /\ SplitOf[i] \in Ids
      /\ i \notin DOMAIN SplitOf => D = {i}
  BY ItemAssumption DEF Possessions!Family
<1>4. D \subseteq Ids
  BY <1>2, <1>3
<1> HIDE DEF D
<1>5. \A j \in Ids : Held(j) \in Nat /\ Stored(j) \in Nat
  BY AmountsAreNat DEF AmountsNat
<1>6. w \in [D -> Nat]
  BY <1>4, <1>5
<1>7. ASSUME NEW j \in Ids PROVE Weight(j) = Held(j) + Stored(j)
  <2>1. /\ Possessions!Units(inv, j) = Amount(inv[j]) /\ Possessions!Units(shared, j) = Amount(shared[j])
        /\ Possessions!Units(remains, j) = Amount(remains[j])
    BY UnitsAre DEF GoodsTypes
  <2>2. Amount(inv[j]) \in Nat /\ Amount(shared[j]) \in Nat /\ Amount(remains[j]) \in Nat /\ spent[j] \in Nat
    BY AmountsAreNat DEF AmountsNat
  <2>3. j \in Listed => stock[j] \in Nat
    BY DEF GoodsTypes
  <2> QED
    BY <2>1, <2>2, <2>3 DEF Held, Stored
<1> HIDE DEF Weight
<1>8. IsFiniteSet(D)
  <2>1. IsFiniteSet({i})
    BY FS_Singleton
  <2>2. IsFiniteSet({i} \cup {SplitOf[i]})
    BY <2>1, FS_AddElement
  <2>3. {i} \cup {SplitOf[i]} = {i, SplitOf[i]}
    OBVIOUS
  <2> QED
    BY <1>3, <2>1, <2>2, <2>3
<1>9. ASSUME NEW iter PROVE IsSum(iter, w, D) <=> iter = Step(iter)
  <2>1. ASSUME NEW s \in SUBSET D, s # {} PROVE w[First(s)] = Weight(First(s))
    <3>1. PICK x : x = First(s)
      OBVIOUS
    <3>2. x \in D /\ x \in Ids
      BY <1>4, <2>1, <3>1, FirstIsIn
    <3>3. w[x] = Weight(x)
      BY <1>7, <3>2
    <3> QED
      BY <3>1, <3>3
  <2> HIDE DEF w
  <2>2. [s \in SUBSET D |-> IF s = {} THEN 0 ELSE w[First(s)] + iter[s \ {First(s)}]] = Step(iter)
    BY <2>1
  <2> QED
    BY <2>2 DEF IsSum
<1>10. IsSum(F, w, D)
  <2>1. IsSum(SumFn(w, D), w, D)
    <3> HIDE DEF w
    <3> QED
      BY <1>6, <1>8, SumExists
  <2>2. SumFn(w, D) = Step(SumFn(w, D))
    BY <1>9, <2>1
  <2> HIDE DEF Step
  <2>3. F = Step(F)
    BY <2>2
  <2> QED
    BY <1>9, <2>3
<1> HIDE DEF F
<1>11. F[D] = Sum(w, D)
  <2> HIDE DEF w
  <2>1. IsSum(SumFn(w, D), w, D)
    BY <1>6, <1>8, SumExists
  <2> QED
    BY <1>8, <1>10, <2>1, SumIsUnique DEF Sum
<1>12. \A j \in D : w[j] = Held(j) + Stored(j)
  OBVIOUS
<1> HIDE DEF w
<1>13. Sum(w, D) = Clan(i)
  <2>1. CASE i \in DOMAIN SplitOf
    <3>1. PICK j : j = SplitOf[i]
      OBVIOUS
    <3>2. D = {i, j} /\ i # j /\ j \in Ids
      BY <1>3, <2>1, <3>1
    <3>3. Sum(w, D) = w[i] + w[j]
      BY <1>6, <3>2, SmallSums
    <3>4. w[i] = Held(i) + Stored(i) /\ w[j] = Held(j) + Stored(j)
      BY <1>12, <3>2
    <3> QED
      BY <1>2, <1>5, <2>1, <3>1, <3>2, <3>3, <3>4 DEF Clan
  <2>2. CASE i \notin DOMAIN SplitOf
    <3>1. Sum(w, D) = w[i] /\ w[i] = Held(i) + Stored(i)
      BY <1>3, <1>6, <1>12, <2>2, SmallSums
    <3> QED
      BY <1>2, <1>5, <2>2, <3>1 DEF Clan
  <2> QED
    BY <2>1, <2>2
<1> QED
  BY <1>1, <1>11, <1>13

\* Clans that are kept are what the commands must keep.
LEMMA ClansAreUnits ==
    ASSUME GoodsTypes, GoodsTypes', ClansKept
    PROVE  Possessions!UnitsConserved
<1>1. \A i \in Single : Possessions!Counted(i) = Clan(i)
  BY CountedIs
<1>2. (\A i \in Single : Possessions!Counted(i) = Clan(i))'
  BY CountedIs, PTL
<1>3. Ids \ (Objects \cup Possessions!Range(SplitOf)) = Single
  BY DEF Single, Parted, Possessions!Range
<1>4. ASSUME NEW i \in Single PROVE Possessions!Conserving(i)
  <2>1. Possessions!Counted(i) = Clan(i) /\ Possessions!Counted(i)' = Clan(i)'
    BY <1>1, <1>2
  <2>2. CASE Clan(i)' = Clan(i)
    BY <2>1, <2>2 DEF Possessions!Conserving
  <2>3. CASE \E j \in Possessions!Family(i) : Lost(i, j)
    <3>1. PICK j \in Possessions!Family(i) : Lost(i, j)
      BY <2>3
    <3>2. j \in Ids
      BY <3>1, ItemAssumption DEF Lost
    <3>3. Possessions!Units(inv, j) = Amount(inv[j])
      BY <3>2, UnitsAre DEF GoodsTypes
    <3>4. Possessions!Swept(i, j)
      BY <2>1, <3>1, <3>3 DEF Lost, Possessions!Swept
    <3> QED
      BY <3>1, <3>4 DEF Possessions!Conserving
  <2> QED
    BY <2>2, <2>3 DEF ClansKept
<1> QED
  BY <1>3, <1>4 DEF Possessions!UnitsConserved

-----------------------------------------------------------------------------
(* The party's container.                                                    *)

\* Units that move between the inventory and the container: what is left to show.
LEMMA ShareKeeps ==
    ASSUME GoodsInv, life = "alive", NEW i \in Ids, NEW pile \in Piles, inv' = Possessions!Loaded(pile, objects),
           Gear(pile) = Gear(inv),
           Possessions!Whole(pile) \/ tampered', tampered' \in BOOLEAN,
           shared' \in Piles, \A j \in Ids : j # i => shared'[j] = shared[j] /\ pile[j] = inv[j],
           Len(shared'[i]) <= 1, Gear(shared') = Gear(shared),
           Amount(pile[i]) + Amount(shared'[i]) = Amount(inv[i]) + Amount(shared[i]),
           i \in Objects => Amount(shared'[i]) <= MaxUnits,
           stock' = stock, acquired' = acquired, charge' = charge, shining' = shining, life' = life,
           remains' = remains, looted' = looted, spent' = spent
    PROVE  GoodsInv' /\ ClansKept
<1>1. /\ stock' \in [Listed -> 0..MaxUnits] /\ acquired' \in [Listed -> 0..MaxUnits]
      /\ spent' \in [Ids -> Nat] /\ looted' \in BOOLEAN
  BY DEF GoodsInv, GoodsTypes
<1>2. \A j \in Ids : Len(shared'[j]) <= 1 /\ Gear(shared')[j] = "none"
  BY DEF GoodsInv, GoodsTypes
<1>3. \A j \in Ids : /\ Amount(inv[j]) \in Nat /\ Amount(shared[j]) \in Nat /\ Stored(j) \in Nat
                     /\ Stored(j)' = Stored(j)
  BY AmountsAreNat DEF GoodsInv, AmountsNat, Stored
<1>4. \A j \in Ids : Amount(pile[j]) + Amount(shared'[j]) = Amount(inv[j]) + Amount(shared[j])
  <2> SUFFICES ASSUME NEW j \in Ids PROVE Amount(pile[j]) + Amount(shared'[j]) = Amount(inv[j]) + Amount(shared[j])
    OBVIOUS
  <2>1. CASE j = i
    BY <2>1
  <2>2. CASE j # i
    BY <2>2
  <2> QED
    BY <2>1, <2>2
<1>5. \A j \in Ids \ Objects :
         Amount(pile[j]) + Amount(shared'[j]) + Stored(j)' = Amount(inv[j]) + Amount(shared[j]) + Stored(j)
  BY <1>3, <1>4
<1>6. ASSUME NEW o \in Objects
      PROVE  /\ Amount(pile[o]) + Amount(shared'[o]) <= MaxUnits + 1
             /\ Amount(shared'[o]) <= MaxUnits /\ spent'[o] <= MaxUnits + 1
  <2>1. o \in Ids
    BY ItemFacts
  <2>2. Amount(remains[o]) = 0
    BY <2>1, NothingFits DEF GoodsInv, GoodsTypes
  <2>3. Amount(inv[o]) + Amount(shared[o]) <= MaxUnits + 1 /\ Amount(shared[o]) <= MaxUnits /\ spent[o] <= MaxUnits + 1
    BY <1>3, <2>1, <2>2 DEF GoodsInv, ObjectsFit, Held
  <2>4. Amount(shared'[o]) <= MaxUnits
    <3>1. CASE o = i
      BY <3>1
    <3>2. CASE o # i
      BY <2>1, <2>3, <3>2
    <3> QED
      BY <3>1, <3>2
  <2>5. Amount(pile[o]) + Amount(shared'[o]) = Amount(inv[o]) + Amount(shared[o])
    BY <1>4, <2>1
  <2> QED
    BY <2>3, <2>4, <2>5
<1>7. \A j \in Ids : \/ Gear(pile)[j] = Gear(inv)[j]
                     \/ j \notin Amulets /\ Gear(pile)[j] \in {"none", "loose"}
  OBVIOUS
<1> QED
  BY <1>1, <1>2, <1>5, <1>6, <1>7, CommandKeeps

LEMMA ToSharedKeeps ==
    ASSUME GoodsInv, life = "alive", NEW i \in Ids, NEW n \in 1..MaxUnits, Possessions!ToShared(i, n)
    PROVE  GoodsInv' /\ ClansKept
<1> USE DEF Possessions!ToShared
<1>1. /\ inv \in Piles /\ shared \in Piles /\ tampered \in BOOLEAN
      /\ Len(shared[i]) <= 1 /\ Gear(shared)[i] = "none"
  BY DEF GoodsInv, GoodsTypes
<1>2. inv[i] # <<>> /\ n <= inv[i][1].n /\ inv[i][1].worn = "none" /\ n \in Nat \ {0} /\ n \in Nat
  BY DEF Possessions!None
<1>3. PICK pile : pile = Possessions!Less(inv, i, n)
  OBVIOUS
<1>4. /\ pile \in Piles
      /\ \A j \in Ids : j # i => pile[j] = inv[j] /\ Gear(pile)[j] = Gear(inv)[j]
      /\ Amount(pile[i]) = Amount(inv[i]) - n
      /\ Gear(pile)[i] = Gear(inv)[i]
  BY <1>1, <1>2, <1>3, LessFits
<1>5. Gear(pile) = Gear(inv)
  <2>1. Gear(pile) \in [Ids -> Places] /\ Gear(inv) \in [Ids -> Places]
    BY <1>1, <1>4, GearType
  <2> QED
    BY <1>4, <2>1
<1>6. inv' = Possessions!Loaded(pile, objects)
  BY <1>3 DEF Possessions!Commit, Possessions!CommitWith, Possessions!Left
<1>7. tampered' \in BOOLEAN /\ (Possessions!Whole(pile) \/ tampered')
  <2>1. tampered' = (tampered \/ Possessions!Children(inv, i) # {})
    OBVIOUS
  <2>2. CASE tampered \/ Possessions!Children(inv, i) # {}
    BY <2>1, <2>2
  <2>3. CASE ~tampered /\ Possessions!Children(inv, i) = {}
    BY <1>1, <1>2, <1>3, <2>1, <2>3, LessIsWhole DEF GoodsInv
  <2> QED
    BY <2>2, <2>3
<1>8. inv[i][1].hot \in BOOLEAN
  <2>1. inv[i] \in Stacks
    BY <1>1 DEF Piles
  <2>2. 1 \in 1..Len(inv[i])
    BY <1>2, <2>1, StackFacts
  <2>3. inv[i][1] \in Entries
    BY <2>1, <2>2, StackFacts
  <2> QED
    BY <2>3 DEF Entries
<1>9. PICK e : e = Possessions!Piece(n, inv[i][1].hot)
  OBVIOUS
<1>10. e \in Entries /\ e.n = n /\ e.worn = "none"
  BY <1>2, <1>8, <1>9, PieceIs, Zenon
<1>11. shared' = Possessions!Put(shared, i, e)
  BY <1>9
<1>12. /\ shared' \in Piles /\ Gear(shared') = Gear(shared)
       /\ \A j \in Ids : j # i => shared'[j] = shared[j]
       /\ Amount(shared'[i]) = Amount(shared[i]) + n
       /\ Len(shared'[i]) = 1
  BY <1>1, <1>10, <1>11, PutFits
<1>13. Amount(inv[i]) \in Nat /\ Amount(shared[i]) \in Nat
  BY AmountsAreNat DEF GoodsInv, AmountsNat
<1>14. Amount(shared'[i]) <= MaxUnits
  BY <1>1, <1>12, UnitsAre
<1>15. Amount(pile[i]) + Amount(shared'[i]) = Amount(inv[i]) + Amount(shared[i])
  BY <1>2, <1>4, <1>12, <1>13
<1>16. \A j \in Ids : j # i => shared'[j] = shared[j] /\ pile[j] = inv[j]
  BY <1>4, <1>12
<1>17. UNCHANGED <<party, stock, acquired, fence, charge, shining, objects, life, remains, looted, spent>>
  OBVIOUS
<1>18. Len(shared'[i]) <= 1
  BY <1>12
<1> HIDE DEF Possessions!ToShared
<1> QED
  BY <1>4, <1>5, <1>6, <1>7, <1>12, <1>14, <1>15, <1>16, <1>17, <1>18, ShareKeeps

LEMMA FromSharedKeeps ==
    ASSUME GoodsInv, life = "alive", NEW i \in Ids, NEW n \in 1..MaxUnits, Possessions!FromShared(i, n)
    PROVE  GoodsInv' /\ ClansKept
<1> USE DEF Possessions!FromShared
<1>1. /\ inv \in Piles /\ shared \in Piles /\ tampered \in BOOLEAN
      /\ Len(shared[i]) <= 1 /\ Gear(shared)[i] = "none"
  BY DEF GoodsInv, GoodsTypes
<1>2. shared[i] # <<>> /\ n <= shared[i][1].n /\ n \in Nat \ {0} /\ n \in Nat
  OBVIOUS
<1>3. shared[i][1].worn = "none" /\ shared[i][1].hot \in BOOLEAN
  <2>1. shared[i] \in Stacks
    BY <1>1 DEF Piles
  <2>2. 1 \in 1..Len(shared[i])
    BY <1>2, <2>1, StackFacts
  <2>3. shared[i][1] \in Entries
    BY <2>1, <2>2, StackFacts
  <2> QED
    BY <1>1, <1>2, <2>3 DEF Entries, Gear
<1>4. PICK e : e = Possessions!Piece(n, shared[i][1].hot)
  OBVIOUS
<1>5. e \in Entries /\ e.n = n /\ e.worn = "none" /\ e.within = "none"
  BY <1>2, <1>3, <1>4, PieceIs, Zenon
<1>6. PICK pile : pile = Possessions!Put(inv, i, e)
  OBVIOUS
<1>7. /\ pile \in Piles /\ Gear(pile) = Gear(inv)
      /\ \A j \in Ids : j # i => pile[j] = inv[j]
      /\ Amount(pile[i]) = Amount(inv[i]) + n /\ pile[i] # <<>>
      /\ (Len(inv[i]) <= 1 /\ Gear(inv)[i] = "none") => Len(pile[i]) = 1
      /\ inv[i] # <<>> => pile[i][1].within = inv[i][1].within
      /\ inv[i] = <<>> => pile[i][1] = e
  BY <1>1, <1>5, <1>6, PutFits
<1>8. inv' = Possessions!Loaded(pile, objects)
  BY <1>4, <1>6 DEF Possessions!Commit, Possessions!CommitWith
<1>9. tampered' \in BOOLEAN /\ (Possessions!Whole(pile) \/ tampered')
  <2>1. tampered' = (tampered \/ i \in Possessions!WornAtAll(inv))
    OBVIOUS
  <2>2. CASE tampered \/ i \in Possessions!WornAtAll(inv)
    BY <2>1, <2>2
  <2>3. CASE ~tampered /\ i \notin Possessions!WornAtAll(inv)
    <3>1. Gear(inv)[i] = "none"
      BY <1>1, <2>3, GearIs
    <3>2. Possessions!Whole(inv)
      BY <2>3 DEF GoodsInv
    <3>3. \A j \in Ids : Len(inv[j]) <= 1
      BY <3>2 DEF Possessions!Whole
    <3>4. \A j \in Ids : Len(pile[j]) <= 1
      <4>1. Len(pile[i]) = 1 /\ 1 <= 1
        BY <1>7, <3>1, <3>3
      <4>2. ASSUME NEW j \in Ids PROVE Len(pile[j]) <= 1
        <5>1. CASE j = i
          BY <4>1, <5>1
        <5>2. CASE j # i
          BY <1>7, <3>3, <5>2
        <5> QED
          BY <5>1, <5>2
      <4> QED
        BY <4>2
    <3>5. ASSUME NEW j \in Ids, pile[j] # <<>>, pile[j][1].within # "none"
          PROVE  /\ inv[j] # <<>> /\ inv[j][1].within = pile[j][1].within
                 /\ pile[j][1].worn = "none" /\ pile[pile[j][1].within] # <<>>
      <4>1. inv[j] # <<>> /\ inv[j][1].within = pile[j][1].within
        BY <1>5, <1>7, <3>5
      <4>2. inv[j][1].worn = "none" /\ inv[j][1].within \in Containers /\ inv[inv[j][1].within] # <<>>
        BY <3>2, <3>5, <4>1 DEF Possessions!Whole, Possessions!Owned, Possessions!None
      <4>3. Gear(inv)[j] = "none" /\ Gear(pile)[j] = "none"
        BY <1>7, <4>1, <4>2 DEF Gear
      <4>4. pile[j][1].worn = "none"
        BY <3>5, <4>3 DEF Gear
      <4> QED
        BY <1>7, <4>1, <4>2, <4>4, ItemFacts
    <3>6. Possessions!Whole(pile)
      BY <1>1, <1>7, <3>2, <3>4, <3>5, LooserIsWhole
    <3> QED
      BY <2>1, <2>3, <3>6
  <2> QED
    BY <2>2, <2>3
<1>10. shared' = Possessions!Less(shared, i, n)
  BY DEF Possessions!Left
<1>11. /\ shared' \in Piles
       /\ \A j \in Ids : j # i => shared'[j] = shared[j] /\ Gear(shared')[j] = Gear(shared)[j]
       /\ Amount(shared'[i]) = Amount(shared[i]) - n
       /\ Gear(shared')[i] = Gear(shared)[i]
       /\ Len(shared'[i]) <= Len(shared[i])
  BY <1>1, <1>2, <1>3, <1>10, LessFits
<1>12. Gear(shared') = Gear(shared)
  <2>1. Gear(shared') \in [Ids -> Places] /\ Gear(shared) \in [Ids -> Places]
    BY <1>1, <1>11, GearType
  <2> QED
    BY <1>11, <2>1
<1>13. Amount(inv[i]) \in Nat /\ Amount(shared[i]) \in Nat
  BY AmountsAreNat DEF GoodsInv, AmountsNat
<1>14. Len(shared'[i]) <= 1
  <2>1. shared[i] \in Stacks /\ shared'[i] \in Stacks
    BY <1>1, <1>11 DEF Piles
  <2>2. Len(shared[i]) \in 0..2 /\ Len(shared'[i]) \in 0..2
    BY <2>1, StackFacts
  <2> QED
    BY <1>1, <1>11, <2>2
<1>15. i \in Objects => Amount(shared'[i]) <= MaxUnits
  BY <1>2, <1>11, <1>13, ItemFacts DEF GoodsInv, ObjectsFit
<1>16. Amount(pile[i]) + Amount(shared'[i]) = Amount(inv[i]) + Amount(shared[i])
  BY <1>2, <1>7, <1>11, <1>13
<1>17. \A j \in Ids : j # i => shared'[j] = shared[j] /\ pile[j] = inv[j]
  BY <1>7, <1>11
<1>18. UNCHANGED <<party, stock, acquired, fence, charge, shining, objects, life, remains, looted, spent>>
  OBVIOUS
<1> HIDE DEF Possessions!FromShared
<1> QED
  BY <1>7, <1>8, <1>9, <1>11, <1>12, <1>14, <1>15, <1>16, <1>17, <1>18, ShareKeeps

-----------------------------------------------------------------------------
(* Bags and splits: resolveInventoryTransfer().                              *)

LEMMA MoveKeeps ==
    ASSUME GoodsInv, life = "alive", NEW i \in Ids, NEW n \in 1..MaxUnits, NEW c \in Containers \cup {"none"},
           Possessions!InventoryTransfer(i, n, c), n = inv[i][1].n
    PROVE  GoodsInv' /\ ClansKept
<1> USE DEF Possessions!InventoryTransfer
<1>1. inv \in Piles /\ inv[i] \in Stacks /\ inv[i] # <<>> /\ inv[i][1].worn = "none"
  BY DEF GoodsInv, GoodsTypes, Piles, Possessions!MayMove, Possessions!None
<1>14. /\ UNCHANGED <<shared, party, stock, acquired, fence, charge, shining, objects, life, remains, looted, spent, tampered>>
       /\ Possessions!Fits(Possessions!Moved(i, n, c)) /\ Possessions!Commit(Possessions!Moved(i, n, c))
  OBVIOUS
<1> HIDE DEF Possessions!InventoryTransfer
<1>2. Len(inv[i]) \in 1..2 /\ 1 \in 1..Len(inv[i]) /\ inv[i][1] \in Entries
  BY <1>1, StackFacts
<1>3. PICK e : e = [inv[i][1] EXCEPT !.within = c]
  OBVIOUS
<1>4. e \in Entries /\ e.n = inv[i][1].n /\ e.worn = "none"
  BY <1>1, <1>2, <1>3 DEF Entries
<1>5. PICK r : r = Changed(inv[i], 1, e)
  OBVIOUS
<1>6. /\ r \in Stacks /\ Len(r) = Len(inv[i]) /\ r[1] = e
      /\ \A k \in 1..Len(inv[i]) : k # 1 => r[k] = inv[i][k]
  <2>1. inv[i] \in Stacks /\ 1 \in 1..Len(inv[i]) /\ e \in Entries /\ e.worn = "none"
    BY <1>1, <1>2, <1>4
  <2>2. /\ Changed(inv[i], 1, e) \in Stacks /\ Len(Changed(inv[i], 1, e)) = Len(inv[i])
        /\ Changed(inv[i], 1, e)[1] = e
        /\ \A k \in 1..Len(inv[i]) : k # 1 => Changed(inv[i], 1, e)[k] = inv[i][k]
    BY ONLY <2>1, ChangedEntry
  <2> QED
    BY <1>5, <2>2
<1>7. PICK pile : pile = [inv EXCEPT ![i] = r]
  OBVIOUS
<1>8. Possessions!Moved(i, n, c) = pile
  BY <1>3, <1>5, <1>7 DEF Possessions!Moved, Changed
<1>9. inv' = Possessions!Loaded(pile, objects) /\ Possessions!Whole(pile)
  BY <1>8, <1>14, FitsIsWhole DEF Possessions!Commit, Possessions!CommitWith
<1>10. pile \in Piles /\ pile[i] = r /\ \A j \in Ids : j # i => pile[j] = inv[j]
  BY <1>1, <1>6, <1>7 DEF Piles
<1>11. r # <<>> /\ Amount(r) = Amount(inv[i])
  <2>1. r # <<>>
    BY <1>2, <1>6, StackFacts
  <2>2. CASE Len(inv[i]) = 1
    BY <1>1, <1>4, <1>6, <2>1, <2>2 DEF Amount
  <2>3. CASE Len(inv[i]) = 2
    <3>1. r[2] = inv[i][2]
      BY <1>6, <2>3
    <3> QED
      BY <1>1, <1>4, <1>6, <2>1, <2>3, <3>1 DEF Amount
  <2> QED
    BY <1>2, <2>1, <2>2, <2>3
<1>12. \A j \in Ids : Gear(pile)[j] = Gear(inv)[j]
  <2> SUFFICES ASSUME NEW j \in Ids PROVE Gear(pile)[j] = Gear(inv)[j]
    OBVIOUS
  <2>1. CASE j = i
    BY <1>1, <1>4, <1>6, <1>10, <1>11, <2>1 DEF Gear
  <2>2. CASE j # i
    BY <1>10, <2>2 DEF Gear
  <2> QED
    BY <2>1, <2>2
<1>13. \A j \in Ids : Amount(pile[j]) = Amount(inv[j])
  BY <1>10, <1>11
<1>15. SlotsFit(Gear(pile)) /\ WardsFit(Gear(pile), shining', charge)
  <2>1. Gear(pile) = Gear(inv)
    <3>1. Gear(pile) \in [Ids -> Places] /\ Gear(inv) \in [Ids -> Places]
      BY <1>1, <1>10, GearType
    <3> QED
      BY <1>12, <3>1
  <2> QED
    BY <1>14, <2>1 DEF GoodsInv
<1> QED
  BY <1>9, <1>10, <1>13, <1>14, <1>15, DressKeeps

\* A split moves units between the two ids of a clan.
LEMMA SplitKeeps ==
    ASSUME GoodsInv, life = "alive", NEW i \in Ids, NEW n \in 1..MaxUnits, NEW c \in Containers \cup {"none"},
           Possessions!InventoryTransfer(i, n, c), n # inv[i][1].n
    PROVE  GoodsInv' /\ ClansKept
<1> USE DEF Possessions!InventoryTransfer
<1>1. inv \in Piles /\ inv[i] \in Stacks /\ inv[i] # <<>> /\ inv[i][1].worn = "none"
  BY DEF GoodsInv, GoodsTypes, Piles, Possessions!MayMove, Possessions!None
<1>2. 1 \in 1..Len(inv[i]) /\ inv[i][1] \in Entries /\ inv[i][1].n \in Nat
  BY <1>1, StackFacts
<1>3. n \in Nat \ {0} /\ n \in Nat /\ n < inv[i][1].n /\ n <= inv[i][1].n
  BY <1>2
<1>4. i \in DOMAIN SplitOf /\ inv[SplitOf[i]] = <<>>
  BY <1>3
<1>5. PICK s : s = SplitOf[i]
  OBVIOUS
<1>6. s \in Ids /\ s \notin Objects /\ s # i /\ i \notin Objects /\ s \in Parted /\ inv[s] = <<>>
  BY <1>4, <1>5, ItemAssumption DEF Parted
<1>7. PICK f : f = [inv[i][1] EXCEPT !.n = n, !.within = c]
  OBVIOUS
<1>8. f \in Entries /\ f.n = n /\ f.worn = "none"
  <2>1. PICK e : e = inv[i][1]
    OBVIOUS
  <2>2. e \in Entries /\ e.worn = "none" /\ f = [e EXCEPT !.n = n, !.within = c]
    BY <1>1, <1>2, <1>7, <2>1
  <2>3. f = [n |-> n, worn |-> e.worn, within |-> c, hot |-> e.hot]
    BY <2>2 DEF Entries
  <2> QED
    BY <1>3, <2>2, <2>3 DEF Entries
<1>9. PICK rest, pile : rest = Possessions!Less(inv, i, n) /\ pile = Possessions!Put(rest, s, f)
  OBVIOUS
<1>10. Possessions!Moved(i, n, c) = pile
  BY <1>5, <1>7, <1>9 DEF Possessions!Moved
<1>11. inv' = Possessions!Loaded(pile, objects) /\ Possessions!Whole(pile)
  BY <1>10, FitsIsWhole DEF Possessions!Commit, Possessions!CommitWith
<1>12. UNCHANGED <<shared, party, stock, acquired, fence, charge, shining, objects, life, remains, looted, spent, tampered>>
  OBVIOUS
<1> HIDE DEF Possessions!InventoryTransfer
<1>13. /\ rest \in Piles
       /\ \A j \in Ids : j # i => rest[j] = inv[j] /\ Gear(rest)[j] = Gear(inv)[j]
       /\ Amount(rest[i]) = Amount(inv[i]) - n
       /\ Gear(rest)[i] = Gear(inv)[i]
  BY <1>1, <1>3, <1>9, LessFits
<1>14. /\ pile \in Piles /\ Gear(pile) = Gear(rest)
       /\ \A j \in Ids : j # s => pile[j] = rest[j]
       /\ Amount(pile[s]) = Amount(rest[s]) + n
  <2>1. rest \in Piles /\ s \in Ids /\ f \in Entries /\ f.worn = "none" /\ pile = Possessions!Put(rest, s, f)
    BY <1>6, <1>8, <1>9, <1>13
  <2>2. /\ pile \in Piles /\ Gear(pile) = Gear(rest)
        /\ \A j \in Ids : j # s => pile[j] = rest[j]
        /\ Amount(pile[s]) = Amount(rest[s]) + f.n
    BY ONLY <2>1, PutFits
  <2> QED
    BY <1>8, <2>2
<1>15. \A j \in Ids : Gear(pile)[j] = Gear(inv)[j]
  BY <1>13, <1>14
<1>16. /\ inv' \in Piles
       /\ SlotsFit(Gear(inv'))
       /\ WardsFit(Gear(inv'), shining', charge')
       /\ Possessions!Whole(inv') \/ tampered'
       /\ \A j \in Ids : \/ Amount(inv'[j]) = Amount(pile[j])
                         \/ j \in Objects /\ Amount(pile[j]) = 0 /\ Amount(inv'[j]) = 1
  <2>1. Possessions!Whole(pile) \/ tampered'
    BY <1>11
  <2>2. \A j \in Ids : \/ Gear(pile)[j] = Gear(inv)[j]
                       \/ j \notin Amulets /\ Gear(pile)[j] \in {"none", "loose"}
    BY <1>15
  <2> QED
    BY <1>11, <1>12, <1>14, <2>1, <2>2, PileKeeps
<1>17. GoodsTypes'
  BY <1>12, <1>16 DEF GoodsInv, GoodsTypes
<1>18. /\ Amount(inv'[i]) = Amount(inv[i]) - n /\ Amount(inv'[s]) = Amount(inv[s]) + n
       /\ \A j \in Ids : j # i /\ j # s => Amount(pile[j]) = Amount(inv[j])
  BY <1>6, <1>13, <1>14, <1>16
<1>19. \A j \in Ids : /\ Amount(inv[j]) \in Nat /\ Amount(shared[j]) \in Nat /\ Amount(remains[j]) \in Nat
                      /\ Held(j) \in Nat /\ Stored(j) \in Nat
  BY AmountsAreNat DEF GoodsInv, AmountsNat
<1>20. \A j \in Ids : Stored(j)' = Stored(j)
  BY <1>12 DEF Stored
<1>21. Held(i)' = Held(i) - n /\ Held(s)' = Held(s) + n
  <2>1. ASSUME NEW j \in Ids, NEW m \in Int, Amount(inv'[j]) = Amount(inv[j]) + m
        PROVE  Held(j)' = Held(j) + m
    <3>1. PICK a, b, d : a = Amount(inv[j]) /\ b = Amount(shared[j]) /\ d = Amount(remains[j])
      OBVIOUS
    <3>2. a \in Nat /\ b \in Nat /\ d \in Nat /\ (a + m) + b + d = (a + b + d) + m
      BY <1>19, <3>1
    <3>3. Held(j) = a + b + d /\ Held(j)' = (a + m) + b + d
      BY <1>12, <2>1, <3>1 DEF Held
    <3> QED
      BY <3>2, <3>3
  <2>2. Amount(inv'[i]) = Amount(inv[i]) + (-n) /\ -n \in Int /\ n \in Int
    BY <1>3, <1>18, <1>19
  <2>3. Held(i)' = Held(i) + (-n) /\ Held(s)' = Held(s) + n
    BY <1>6, <1>18, <2>1, <2>2
  <2> QED
    BY <1>3, <1>19, <2>3
<1>22. \A j \in Ids \ Objects : j # i /\ j # s => Held(j)' = Held(j)
  BY <1>12, <1>16, <1>18 DEF Held
<1>23. ASSUME NEW j \in Single PROVE Clan(j)' = Clan(j)
  <2>1. j \in Ids /\ j \notin Objects /\ j \notin Parted /\ j # s
    BY <1>6 DEF Single
  <2>2. CASE j = i
    <3>1. /\ Clan(i) = Held(i) + Stored(i) + (Held(s) + Stored(s))
          /\ Clan(i)' = Held(i)' + Stored(i)' + (Held(s)' + Stored(s)')
      BY <1>4, <1>5 DEF Clan
    <3>2. /\ Held(i) \in Nat /\ Held(s) \in Nat /\ Stored(i) \in Nat /\ Stored(s) \in Nat
          /\ Stored(i)' = Stored(i) /\ Stored(s)' = Stored(s) /\ n \in Nat
      BY <1>3, <1>6, <1>19, <1>20
    <3>3. Clan(i)' = Clan(i)
      BY ONLY <1>21, <3>1, <3>2
    <3> QED
      BY <2>2, <3>3
  <2>3. CASE j # i
    <3>1. Held(j)' = Held(j) /\ Stored(j)' = Stored(j)
      BY <1>20, <1>22, <2>1, <2>3
    <3>2. CASE j \in DOMAIN SplitOf
      <4>1. PICK t : t = SplitOf[j]
        OBVIOUS
      <4>2. t \in Ids \ Objects /\ t # s /\ t # i
        BY <1>4, <1>5, <2>3, <3>2, <4>1, ItemAssumption
      <4>3. Held(t)' = Held(t) /\ Stored(t)' = Stored(t)
        BY <1>20, <1>22, <4>2
      <4> QED
        BY <3>1, <3>2, <4>1, <4>3 DEF Clan
    <3>3. CASE j \notin DOMAIN SplitOf
      BY <3>1, <3>3 DEF Clan
    <3> QED
      BY <3>2, <3>3
  <2> QED
    BY <2>2, <2>3
<1>24. ObjectsFit'
  <2>1. ASSUME NEW o \in Objects
        PROVE  /\ Amount(pile[o]) + Amount(shared'[o]) + Amount(remains'[o]) <= MaxUnits + 1
               /\ Amount(inv'[o]) = Amount(pile[o]) \/ Amount(remains'[o]) = 0
               /\ Amount(shared'[o]) <= MaxUnits /\ spent'[o] <= MaxUnits + 1
    <3>1. o \in Ids /\ o # i /\ o # s
      BY <1>6, ItemFacts
    <3>2. Amount(pile[o]) = Amount(inv[o])
      BY <1>18, <3>1
    <3>3. Amount(remains'[o]) = 0
      BY <1>12, <3>1, NothingFits DEF GoodsInv, GoodsTypes
    <3> QED
      BY <1>12, <3>2, <3>3 DEF GoodsInv, ObjectsFit, Held
  <2> QED
    BY <1>14, <1>16, <1>17, <2>1, ObjectsKeep
<1> QED
  BY <1>16, <1>17, <1>23, <1>24 DEF GoodsInv, ClansKept

-----------------------------------------------------------------------------
(* Objects of the scene.                                                     *)

LEMMA SyncedFits ==
    ASSUME inv \in Piles, NEW o \in Objects, NEW new, NEW pile, pile = Possessions!Synced(o, new)
    PROVE  /\ pile \in Piles
           /\ \A j \in Ids : j # o => pile[j] = inv[j] /\ Gear(pile)[j] = Gear(inv)[j]
           /\ Amount(pile[o]) <= Amount(inv[o]) \/ Amount(pile[o]) <= 1
           /\ Gear(pile)[o] = Gear(inv)[o] \/ Gear(pile)[o] \in {"none", "loose"}
           /\ (~new.mine \/ new.state = "destroyed") /\ Possessions!Whole(inv) => Possessions!Whole(pile)
<1>1. o \in Ids /\ o \notin Containers /\ inv[o] \in Stacks
  BY ItemFacts DEF Piles
<1>2. Amount(inv[o]) \in Nat /\ <<>> \in Stacks /\ Amount(<<>>) = 0
  BY <1>1, StackFacts, NothingFits
<1> DEFINE gone == new.state = "destroyed" \/ (objects[o].mine /\ ~new.mine /\ new.state = "intact")
<1>3. CASE gone
  <2>1. pile = [inv EXCEPT ![o] = <<>>]
    BY <1>3 DEF Possessions!Synced
  <2>2. pile \in Piles /\ pile[o] = <<>> /\ \A j \in Ids : j # o => pile[j] = inv[j]
    BY <1>1, <1>2, <2>1 DEF Piles
  <2>3. Gear(pile)[o] = "none" /\ \A j \in Ids : j # o => Gear(pile)[j] = Gear(inv)[j]
    BY <1>1, <2>2 DEF Gear
  <2>4. ASSUME Possessions!Whole(inv) PROVE Possessions!Whole(pile)
    <3>1. \A j \in Ids : Len(inv[j]) <= 1
      BY <2>4 DEF Possessions!Whole
    <3>2. Len(<<>>) = 0 /\ 0 <= 1
      BY EmptySeq
    <3>3. \A j \in Ids : Len(pile[j]) <= 1
      BY <2>2, <3>1, <3>2
    <3>4. ASSUME NEW j \in Ids, pile[j] # <<>>, pile[j][1].within # "none"
          PROVE  /\ inv[j] # <<>> /\ inv[j][1].within = pile[j][1].within
                 /\ pile[j][1].worn = "none" /\ pile[pile[j][1].within] # <<>>
      <4>1. j # o /\ pile[j] = inv[j]
        BY <2>2, <3>4
      <4>2. inv[j][1].worn = "none" /\ inv[j][1].within \in Containers /\ inv[inv[j][1].within] # <<>>
        BY <2>4, <3>4, <4>1 DEF Possessions!Whole, Possessions!Owned, Possessions!None
      <4> QED
        BY <1>1, <2>2, <3>4, <4>1, <4>2, ItemFacts
    <3> QED
      BY <2>2, <2>4, <3>3, <3>4, LooserIsWhole
  <2> QED
    BY <1>2, <2>2, <2>3, <2>4
<1>4. CASE ~gone /\ ~new.mine
  <2>1. pile = inv
    BY <1>4 DEF Possessions!Synced
  <2> QED
    BY <1>2, <2>1
<1>5. CASE ~gone /\ new.mine /\ inv[o] = <<>>
  <2>1. PICK one : one = <<Possessions!Piece(1, FALSE)>>
    OBVIOUS
  <2>2. one \in Stacks /\ one # <<>> /\ Amount(one) = 1 /\ one[1].worn = "none"
    <3>1. 1 \in Nat \ {0} /\ FALSE \in BOOLEAN
      OBVIOUS
    <3> QED
      BY <2>1, <3>1, PieceFits, Zenon
  <2>3. pile = [inv EXCEPT ![o] = one]
    BY <1>5, <2>1 DEF Possessions!Synced
  <2>4. pile \in Piles /\ pile[o] = one /\ \A j \in Ids : j # o => pile[j] = inv[j]
    BY <1>1, <2>2, <2>3 DEF Piles
  <2>5. Gear(pile)[o] = "none" /\ \A j \in Ids : j # o => Gear(pile)[j] = Gear(inv)[j]
    BY <1>1, <2>2, <2>4 DEF Gear
  <2>6. Amount(pile[o]) <= 1
    BY <2>2, <2>4
  <2> QED
    BY <1>5, <2>4, <2>5, <2>6
<1>6. CASE ~gone /\ new.mine /\ inv[o] # <<>>
  <2>1. /\ Len(inv[o]) \in 1..2 /\ 1 \in 1..Len(inv[o]) /\ inv[o][1] \in Entries
        /\ inv[o] \in Seq(Entries) /\ DOMAIN inv[o] = 1..Len(inv[o])
    BY <1>1, <1>6, StackFacts
  <2>2. PICK w : w = IF new.state = "equipped" THEN "loose" ELSE "none"
    OBVIOUS
  <2>3. PICK e : e = [inv[o][1] EXCEPT !.within = "none"]
    OBVIOUS
  <2>4. PICK f : f = [e EXCEPT !.worn = w]
    OBVIOUS
  <2>5. e \in Entries /\ e.n = inv[o][1].n
    BY <2>1, <2>3 DEF Entries
  <2>6. f \in Entries /\ f.n = inv[o][1].n /\ f.worn = w
    BY <2>2, <2>4, <2>5, ItemFacts DEF Entries
  <2>7. PICK r : r = Changed(inv[o], 1, f)
    OBVIOUS
  <2>8. /\ r \in Stacks /\ Len(r) = Len(inv[o]) /\ r[1] = f
        /\ \A k \in 1..Len(inv[o]) : k # 1 => r[k] = inv[o][k]
    <3>1. 1 = 2 => f.worn = "none"
      OBVIOUS
    <3>2. 1 \in 1..Len(inv[o])
      BY <2>1
    <3> QED
      BY <1>1, <2>6, <2>7, <3>1, <3>2, ChangedEntry
  <2>9. pile = [inv EXCEPT ![o] = r]
    <3>1. pile = [inv EXCEPT ![o][1].within = "none", ![o][1].worn = w]
      BY <1>6, <2>2 DEF Possessions!Synced, Possessions!None
    <3>2. PICK bare : bare = [inv EXCEPT ![o][1].within = "none"]
      OBVIOUS
    <3>3. pile = [bare EXCEPT ![o][1].worn = w]
      BY <3>1, <3>2
    <3>4. bare = [inv EXCEPT ![o] = Changed(inv[o], 1, e)]
      BY <2>3, <3>2 DEF Changed
    <3>5. PICK m : m = Changed(inv[o], 1, e)
      OBVIOUS
    <3>6. inv \in [Ids -> Stacks]
      BY DEF Piles
    <3>7. bare[o] = m /\ bare = [inv EXCEPT ![o] = m]
      BY <1>1, <3>4, <3>5, <3>6
    <3>8. m[1] = e /\ m = [inv[o] EXCEPT ![1] = e]
      BY <2>1, <3>5 DEF Changed
    <3>9. pile = [bare EXCEPT ![o] = [m EXCEPT ![1] = f]]
      BY <2>4, <3>3, <3>7, <3>8
    <3>10. [m EXCEPT ![1] = f] = r
      BY <2>1, <2>7, <3>8 DEF Changed
    <3> QED
      BY <3>6, <3>7, <3>9, <3>10
  <2>10. pile \in Piles /\ pile[o] = r /\ \A j \in Ids : j # o => pile[j] = inv[j]
    BY <1>1, <2>8, <2>9 DEF Piles
  <2>11. r # <<>> /\ Amount(r) = Amount(inv[o])
    <3>1. r # <<>>
      BY <2>1, <2>8, StackFacts
    <3>2. CASE Len(inv[o]) = 1
      BY <1>6, <2>6, <2>8, <3>1, <3>2 DEF Amount
    <3>3. CASE Len(inv[o]) = 2
      <4>1. r[2] = inv[o][2]
        BY <2>8, <3>3
      <4> QED
        BY <1>6, <2>6, <2>8, <3>1, <3>3, <4>1 DEF Amount
    <3> QED
      BY <2>1, <3>1, <3>2, <3>3
  <2>12. Gear(pile)[o] = w /\ \A j \in Ids : j # o => Gear(pile)[j] = Gear(inv)[j]
    BY <1>1, <2>6, <2>8, <2>10, <2>11 DEF Gear
  <2> QED
    BY <1>2, <1>6, <2>2, <2>10, <2>11, <2>12
<1> QED
  BY <1>3, <1>4, <1>5, <1>6

\* A change of an object, with what it does to the inventory.
LEMMA SyncKeeps ==
    ASSUME GoodsInv, life = "alive", NEW o \in Objects, NEW new, NEW objs,
           inv' = Possessions!Loaded(Possessions!Synced(o, new), objs),
           new.mine /\ new.state # "destroyed" => Possessions!Fits(Possessions!Synced(o, new)),
           spent' = spent \/ spent' = [spent EXCEPT ![o] = 1],
           UNCHANGED <<shared, stock, acquired, charge, shining, life, remains, looted, tampered>>
    PROVE  GoodsInv' /\ ClansKept
<1>1. PICK pile : pile = Possessions!Synced(o, new)
  OBVIOUS
<1>2. inv \in Piles /\ spent \in [Ids -> Nat] /\ o \in Ids /\ MaxUnits \in Nat
  BY ItemFacts DEF GoodsInv, GoodsTypes
<1>3. /\ pile \in Piles
      /\ \A j \in Ids : j # o => pile[j] = inv[j] /\ Gear(pile)[j] = Gear(inv)[j]
      /\ Amount(pile[o]) <= Amount(inv[o]) \/ Amount(pile[o]) <= 1
      /\ Gear(pile)[o] = Gear(inv)[o] \/ Gear(pile)[o] \in {"none", "loose"}
      /\ (~new.mine \/ new.state = "destroyed") /\ Possessions!Whole(inv) => Possessions!Whole(pile)
  BY <1>1, <1>2, SyncedFits, Z3
<1>4. Possessions!Whole(pile) \/ tampered
  <2>1. CASE new.mine /\ new.state # "destroyed"
    BY <1>1, <2>1, FitsIsWhole
  <2>2. CASE ~new.mine \/ new.state = "destroyed"
    BY <1>3, <2>2 DEF GoodsInv
  <2> QED
    BY <2>1, <2>2
<1>5. inv' = Possessions!Loaded(pile, objs)
  BY <1>1
<1>6. ASSUME NEW j \in Ids
      PROVE  Gear(pile)[j] = Gear(inv)[j] \/ (j \notin Amulets /\ Gear(pile)[j] \in {"none", "loose"})
  <2>1. o \notin Amulets
    BY ItemFacts
  <2> QED
    BY <1>3, <2>1
<1>7. /\ stock' \in [Listed -> 0..MaxUnits] /\ acquired' \in [Listed -> 0..MaxUnits] /\ looted' \in BOOLEAN
  BY DEF GoodsInv, GoodsTypes
<1>8. spent' \in [Ids -> Nat] /\ (\A j \in Ids : j # o => spent'[j] = spent[j]) /\ spent'[o] <= MaxUnits + 1
  <2>1. spent[o] <= MaxUnits + 1
    BY <1>2, FewUnits
  <2>2. CASE spent' = spent
    BY <1>2, <2>1, <2>2
  <2>3. CASE spent' = [spent EXCEPT ![o] = 1]
    BY <1>2, <2>3
  <2> QED
    BY <2>2, <2>3
<1>9. ASSUME NEW j \in Ids \ Objects PROVE Amount(pile[j]) + Stored(j)' = Amount(inv[j]) + Stored(j)
  <2>1. pile[j] = inv[j] /\ spent'[j] = spent[j]
    BY <1>3, <1>8
  <2>2. Stored(j)' = Stored(j)
    BY <2>1 DEF Stored
  <2> QED
    BY <2>1, <2>2
<1>10. ASSUME NEW p \in Objects
       PROVE  (Amount(pile[p]) <= Amount(inv[p]) \/ Amount(pile[p]) <= 1) /\ spent'[p] <= MaxUnits + 1
  <2>1. p \in Ids
    BY ItemFacts
  <2>2. CASE p = o
    BY <1>3, <1>8, <2>2
  <2>3. CASE p # o
    <3>1. Amount(inv[p]) \in Nat
      BY <2>1, AmountsAreNat DEF GoodsInv, AmountsNat
    <3>2. spent[p] <= MaxUnits + 1
      BY <2>1, FewUnits
    <3> QED
      BY <1>3, <1>8, <2>1, <2>3, <3>1, <3>2
  <2> QED
    BY <2>2, <2>3
<1> QED
  BY <1>3, <1>4, <1>5, <1>6, <1>7, <1>8, <1>9, <1>10, CarryKeeps

LEMMA ChangeKeeps ==
    ASSUME GoodsInv, life = "alive", NEW o \in Objects, NEW new, Possessions!Change(o, new)
    PROVE  GoodsInv' /\ ClansKept
<1>1. /\ inv' = Possessions!Loaded(Possessions!Synced(o, new), [objects EXCEPT ![o] = new])
      /\ new.mine /\ new.state # "destroyed" => Possessions!Fits(Possessions!Synced(o, new))
      /\ spent' = spent \/ spent' = [spent EXCEPT ![o] = 1]
      /\ UNCHANGED <<shared, stock, acquired, charge, shining, life, remains, looted, tampered>>
  BY DEF Possessions!Change, Possessions!CommitWith
<1> QED
  BY <1>1, SyncKeeps

LEMMA AttachKeeps ==
    ASSUME GoodsInv, life = "alive", NEW o \in Objects, NEW rope, Possessions!Attach(o, rope)
    PROVE  GoodsInv' /\ ClansKept
<1>1. PICK new : new = [mine |-> objects[o].mine, state |-> "attached"]
  OBVIOUS
<1>2. /\ inv' = Possessions!Loaded(Possessions!Synced(o, new), [objects EXCEPT ![o] = new, ![rope] = new])
      /\ new.mine => Possessions!Fits(Possessions!Synced(o, new))
      /\ spent' = spent
      /\ UNCHANGED <<shared, stock, acquired, charge, shining, life, remains, looted, tampered>>
  BY <1>1, Zenon DEF Possessions!Attach, Possessions!CommitWith
<1> QED
  BY <1>2, SyncKeeps

LEMMA ActivateKeeps ==
    ASSUME GoodsInv, life = "alive", NEW o \in Objects, Possessions!Activate(o)
    PROVE  GoodsInv' /\ ClansKept
<1>1. PICK objs : inv' = Possessions!Loaded(inv, objs)
  BY Zenon DEF Possessions!Activate, Possessions!CommitWith
<1>2. UNCHANGED <<shared, party, stock, acquired, fence, charge, shining, life, remains, looted, spent, tampered>>
  BY Zenon DEF Possessions!Activate
<1>3. inv \in Piles /\ SlotsFit(Gear(inv)) /\ WardsFit(Gear(inv), shining', charge)
  BY <1>2 DEF GoodsInv, GoodsTypes
<1>4. Possessions!Whole(inv) \/ tampered
  BY DEF GoodsInv
<1> QED
  BY <1>1, <1>2, <1>3, <1>4, DressKeeps

-----------------------------------------------------------------------------
(* The goods, from the beginning and through every command.                  *)

LEMMA InteractKeeps ==
    ASSUME GoodsInv, life = "alive", Possessions!Interact
    PROVE  GoodsInv' /\ ClansKept
<1>1. ASSUME NEW o \in Objects, NEW s, Possessions!Becomes(o, s) PROVE GoodsInv' /\ ClansKept
  <2>1. PICK new : new = [objects[o] EXCEPT !.state = s]
    OBVIOUS
  <2>2. Possessions!Change(o, new)
    BY <1>1, <2>1, Zenon DEF Possessions!Becomes
  <2> QED
    BY <2>2, ChangeKeeps
<1>2. ASSUME NEW o \in Objects, NEW new, Possessions!Change(o, new) PROVE GoodsInv' /\ ClansKept
  BY <1>2, ChangeKeeps
<1>3. ASSUME NEW o \in Objects,
             \/ Possessions!Operate(o) \/ Possessions!EquipObject(o) \/ Possessions!Ignite(o)
             \/ Possessions!Extinguish(o) \/ Possessions!Break(o) \/ Possessions!Damage(o)
      PROVE  \E s : Possessions!Becomes(o, s)
  <2>1. CASE Possessions!Operate(o)
    BY <2>1, Zenon DEF Possessions!Operate
  <2>2. CASE Possessions!EquipObject(o)
    BY <2>2, Zenon DEF Possessions!EquipObject
  <2>3. CASE Possessions!Ignite(o)
    BY <2>3, Zenon DEF Possessions!Ignite
  <2>4. CASE Possessions!Extinguish(o)
    BY <2>4, Zenon DEF Possessions!Extinguish
  <2>5. CASE Possessions!Break(o)
    BY <2>5, Zenon DEF Possessions!Break
  <2>6. CASE Possessions!Damage(o)
    BY <2>6, Zenon DEF Possessions!Damage
  <2> QED
    BY <1>3, <2>1, <2>2, <2>3, <2>4, <2>5, <2>6
<1>4. ASSUME NEW o \in Objects, Possessions!TakeObject(o) \/ Possessions!DropObject(o)
      PROVE  \E new : Possessions!Change(o, new)
  <2>1. CASE Possessions!TakeObject(o)
    BY <2>1, Zenon DEF Possessions!TakeObject
  <2>2. CASE Possessions!DropObject(o)
    BY <2>2, Zenon DEF Possessions!DropObject
  <2> QED
    BY <1>4, <2>1, <2>2
<1>5. ASSUME NEW o \in Objects,
             \/ Possessions!Operate(o) \/ Possessions!TakeObject(o) \/ Possessions!DropObject(o)
             \/ Possessions!EquipObject(o) \/ Possessions!Ignite(o) \/ Possessions!Extinguish(o)
             \/ Possessions!Break(o) \/ Possessions!Damage(o) \/ Possessions!Activate(o)
      PROVE  GoodsInv' /\ ClansKept
  <2>1. CASE Possessions!TakeObject(o) \/ Possessions!DropObject(o)
    BY <1>2, <1>4, <2>1
  <2>2. CASE Possessions!Activate(o)
    BY <2>2, ActivateKeeps
  <2>3. CASE \/ Possessions!Operate(o) \/ Possessions!EquipObject(o) \/ Possessions!Ignite(o)
             \/ Possessions!Extinguish(o) \/ Possessions!Break(o) \/ Possessions!Damage(o)
    BY <1>1, <1>3, <2>3
  <2> QED
    BY <1>5, <2>1, <2>2, <2>3
<1> QED
  BY <1>5, AttachKeeps DEF Possessions!Interact

LEMMA NextGoods == GoodsInv /\ Possessions!Next => GoodsInv' /\ ClansKept
<1> SUFFICES ASSUME GoodsInv, Possessions!Next PROVE GoodsInv' /\ ClansKept
  OBVIOUS
<1>1. life = "alive"
  BY DEF Possessions!Next
<1>2. CASE Possessions!Trade
  BY <1>1, <1>2, BuyKeeps, SellKeeps, StealKeeps DEF Possessions!Trade
<1>3. CASE Possessions!Arrange
  <2>1. ASSUME NEW i \in Ids, NEW n \in 1..MaxUnits, NEW c \in Containers \cup {"none"},
               Possessions!InventoryTransfer(i, n, c)
        PROVE  GoodsInv' /\ ClansKept
    BY <1>1, <2>1, MoveKeeps, SplitKeeps
  <2>2. ASSUME NEW i \in Ids,
               \/ Possessions!UnequipItem(i) \/ Possessions!Drink(i)
               \/ \E s \in SlotsOf[i] : Possessions!EquipItem(i, s)
        PROVE  GoodsInv' /\ ClansKept
    BY <1>1, <2>2, UnequipKeeps, DrinkKeeps, EquipKeeps
  <2>3. ASSUME NEW i \in Ids, NEW n \in 1..MaxUnits, Possessions!DropItem(i, n) PROVE GoodsInv' /\ ClansKept
    BY <1>1, <2>3, DropKeeps
  <2>4. ASSUME NEW w \in Amulets, Possessions!SpendCharge(w) PROVE GoodsInv' /\ ClansKept
    BY <2>4, ChargeKeeps
  <2> QED
    BY <1>1, <1>3, <2>1, <2>2, <2>3, <2>4, LootKeeps DEF Possessions!Arrange, Possessions!None
<1>4. CASE Possessions!Share
  <2>1. CASE Possessions!PartyCreate
    BY <2>1, GoodsIdle DEF Possessions!PartyCreate
  <2> QED
    BY <1>1, <1>4, <2>1, ToSharedKeeps, FromSharedKeeps DEF Possessions!Share
<1> QED
  BY <1>1, <1>2, <1>3, <1>4, InteractKeeps, DieKeeps DEF Possessions!Next

LEMMA InitGoods == Possessions!Init => GoodsInv
<1> SUFFICES ASSUME Possessions!Init PROVE GoodsInv
  OBVIOUS
<1>1. PICK kit \in Kits :
        /\ inv = Possessions!InitPile(kit.units)
        /\ stock = [i \in Listed |-> kit.stock]
        /\ looted = ~kit.loot
  BY Zenon DEF Possessions!Init
<1>2. /\ shared = Possessions!Nothing /\ remains = Possessions!Nothing
      /\ acquired = [i \in Listed |-> 0] /\ charge = [w \in Amulets |-> 1] /\ shining = {}
      /\ life = "alive" /\ spent = [i \in Ids |-> 0] /\ tampered = FALSE
  BY Zenon DEF Possessions!Init
<1>3. /\ kit.units \in [Ids -> 0..MaxUnits] /\ kit.stock \in 0..MaxUnits /\ kit.loot \in BOOLEAN
      /\ \A i \in DOMAIN SplitOf : kit.units[SplitOf[i]] = 0 /\ SplitOf[i] \notin Listed \cup {Reward}
      /\ \A i \in Ids : kit.units[i] + (IF i \in Listed THEN kit.stock ELSE 0)
                           + (IF i = Reward /\ kit.loot THEN 1 ELSE 0) <= MaxUnits + 1
  BY KitAssumption
<1>4. ASSUME NEW i \in Ids
      PROVE  /\ inv[i] \in Stacks /\ Len(inv[i]) <= 1 /\ Amount(inv[i]) = kit.units[i]
             /\ inv[i] # <<>> => inv[i][1].worn = "none" /\ inv[i][1].within = "none"
  <2>1. PICK n \in Nat : n = kit.units[i]
    BY <1>3
  <2>2. inv[i] = IF n > 0 THEN <<Possessions!Piece(n, FALSE)>> ELSE <<>>
    BY <1>1, <2>1 DEF Possessions!InitPile
  <2>3. CASE n > 0
    <3>1. n \in Nat \ {0} /\ FALSE \in BOOLEAN
      BY <2>3
    <3>2. PICK e, q : e = Possessions!Piece(n, FALSE) /\ q = <<e>>
      OBVIOUS
    <3>3. /\ e.worn = "none" /\ e.within = "none"
          /\ q \in Stacks /\ Amount(q) = n /\ Len(q) = 1 /\ q[1] = e
      BY <3>1, <3>2, PieceFits, Zenon
    <3>4. inv[i] = q
      BY <2>2, <2>3, <3>2
    <3>5. 1 <= 1
      OBVIOUS
    <3>6. Len(q) <= 1 /\ q[1].worn = "none" /\ q[1].within = "none"
      BY <3>3, <3>5
    <3> HIDE <3>2
    <3> QED
      BY <2>1, <3>3, <3>4, <3>6
  <2>4. CASE n = 0
    <3>1. inv[i] = <<>>
      BY <2>2, <2>4
    <3>2. Len(<<>>) = 0 /\ 0 <= 1
      BY EmptySeq
    <3> QED
      BY <2>1, <2>4, <3>1, <3>2, NothingFits
  <2> QED
    BY <2>1, <2>3, <2>4
<1>5. inv \in Piles
  BY <1>1, <1>4 DEF Piles, Possessions!InitPile
<1>6. /\ shared \in Piles /\ remains \in Piles
      /\ \A i \in Ids : Len(shared[i]) <= 1 /\ Gear(shared)[i] = "none"
  <2>1. Len(<<>>) = 0 /\ 0 <= 1
    BY EmptySeq
  <2> QED
    BY <1>2, <2>1, NothingFits DEF Gear
<1>7. GoodsTypes
  <2>1. stock \in [Listed -> 0..MaxUnits] /\ acquired \in [Listed -> 0..MaxUnits] /\ looted \in BOOLEAN
    BY <1>1, <1>2, <1>3, ItemFacts
  <2>2. charge \in [Amulets -> 0..1] /\ spent \in [Ids -> Nat]
    <3>1. 1 \in 0..1 /\ 0 \in Nat
      OBVIOUS
    <3> QED
      BY <1>2, <3>1
  <2>3. shining \subseteq Amulets /\ tampered \in BOOLEAN
    BY <1>2
  <2> QED
    BY <1>2, <1>5, <1>6, <2>1, <2>2, <2>3 DEF GoodsTypes
<1>8. \A i \in Ids : Gear(inv)[i] = "none"
  BY <1>4 DEF Gear
<1>9. SlotsFit(Gear(inv)) /\ WardsFit(Gear(inv), shining, charge)
  BY <1>2, <1>8, ItemAssumption DEF SlotsFit, WardsFit
<1>10. Possessions!Whole(inv)
  BY <1>4 DEF Possessions!Whole, Possessions!Owned, Possessions!None
<1>11. ASSUME NEW i \in Ids
       PROVE  /\ Held(i) = kit.units[i] /\ kit.units[i] \in Nat
              /\ Stored(i) = (IF i \in Listed THEN kit.stock ELSE 0) + (IF i = Reward /\ kit.loot THEN 1 ELSE 0)
              /\ Stored(i) \in Nat /\ Amount(shared[i]) = 0 /\ spent[i] = 0
  <2>1. Amount(inv[i]) = kit.units[i] /\ kit.units[i] \in Nat /\ Amount(shared[i]) = 0 /\ Amount(remains[i]) = 0
    BY <1>2, <1>3, <1>4, NothingFits
  <2>2. Held(i) = kit.units[i]
    BY <2>1 DEF Held
  <2>3. spent[i] = 0 /\ kit.stock \in Nat /\ (i \in Listed => stock[i] = kit.stock)
    BY <1>1, <1>2, <1>3
  <2>4. ~looted <=> kit.loot
    BY <1>1, <1>3
  <2>5. PICK a, b : a = (IF i \in Listed THEN kit.stock ELSE 0) /\ b = (IF i = Reward /\ kit.loot THEN 1 ELSE 0)
    OBVIOUS
  <2>6. a \in Nat /\ b \in Nat /\ 0 + a + b = a + b
    BY <2>3, <2>5
  <2>7. Stored(i) = 0 + a + b
    BY <2>3, <2>4, <2>5 DEF Stored
  <2> QED
    BY <2>1, <2>2, <2>3, <2>5, <2>6, <2>7
<1>12. ASSUME NEW i \in Single PROVE Clan(i) <= MaxUnits + 1
  <2>1. i \in Ids
    BY DEF Single
  <2>2. Held(i) + Stored(i) <= MaxUnits + 1 /\ Held(i) \in Nat /\ Stored(i) \in Nat
    <3>1. kit.stock \in Nat
      BY <1>3
    <3>2. kit.units[i] + (IF i \in Listed THEN kit.stock ELSE 0)
             + (IF i = Reward /\ kit.loot THEN 1 ELSE 0) <= MaxUnits + 1
      BY <1>3, <2>1
    <3>3. PICK a, b, d : /\ a = kit.units[i] /\ b = (IF i \in Listed THEN kit.stock ELSE 0)
                        /\ d = (IF i = Reward /\ kit.loot THEN 1 ELSE 0)
      OBVIOUS
    <3>4. a \in Nat /\ b \in Nat /\ d \in Nat /\ a + b + d = a + (b + d)
      BY <1>11, <2>1, <3>1, <3>3
    <3>5. Held(i) = a /\ Stored(i) = b + d
      BY <1>11, <2>1, <3>3
    <3> QED
      BY <3>2, <3>3, <3>4, <3>5
  <2>3. CASE i \in DOMAIN SplitOf
    <3>1. PICK s : s = SplitOf[i]
      OBVIOUS
    <3>2. s \in Ids /\ kit.units[s] = 0 /\ s \notin Listed /\ s # Reward
      BY <1>3, <2>3, <3>1, ItemAssumption
    <3>3. Held(s) = 0 /\ Stored(s) = 0
      BY <1>11, <3>2
    <3> QED
      BY <2>2, <2>3, <3>1, <3>3 DEF Clan
  <2>4. CASE i \notin DOMAIN SplitOf
    BY <2>2, <2>4 DEF Clan
  <2> QED
    BY <2>3, <2>4
<1>13. ObjectsFit
  <2> SUFFICES ASSUME NEW o \in Objects
               PROVE  Held(o) <= MaxUnits + 1 /\ Amount(shared[o]) <= MaxUnits /\ spent[o] <= MaxUnits + 1
    BY DEF ObjectsFit
  <2>1. o \in Ids /\ MaxUnits \in Nat
    BY ItemFacts
  <2>2. Held(o) \in 0..MaxUnits /\ Amount(shared[o]) = 0 /\ spent[o] = 0
    BY <1>3, <1>11, <2>1
  <2> QED
    BY <2>1, <2>2
<1> QED
  BY <1>7, <1>9, <1>10, <1>12, <1>13 DEF GoodsInv

-----------------------------------------------------------------------------
(* What follows for the goods of the hero.                                   *)

\* No entry holds more units than there are of its id.
LEMMA EntriesAreFew ==
    ASSUME GoodsInv, NEW i \in Ids, NEW pile \in {inv, shared, remains}, NEW k \in DOMAIN pile[i]
    PROVE  /\ pile[i][k].n \in 1..2 * MaxUnits
           /\ pile[i][k].within \in Containers \cup {"none"}
<1>1. inv \in Piles /\ shared \in Piles /\ remains \in Piles
  BY DEF GoodsInv, GoodsTypes
<1>2. pile[i] \in Stacks
  BY <1>1 DEF Piles
<1>3. PICK q : q = pile[i]
  OBVIOUS
<1>4. /\ Len(q) \in 0..2 /\ DOMAIN q = 1..Len(q) /\ k \in DOMAIN q /\ (q = <<>> <=> Len(q) = 0)
      /\ \A j \in 1..Len(q) : q[j] \in Entries /\ q[j].n \in Nat /\ q[j].n > 0
  BY <1>2, <1>3, StackFacts
<1>5. q[k].n <= Amount(q)
  BY <1>4 DEF Amount
<1>6. Amount(q) <= Held(i)
  <2>1. AmountsNat
    BY AmountsAreNat DEF GoodsInv
  <2>2. Amount(inv[i]) \in Nat /\ Amount(shared[i]) \in Nat /\ Amount(remains[i]) \in Nat
    BY <2>1 DEF AmountsNat
  <2>3. Amount(q) \in {Amount(inv[i]), Amount(shared[i]), Amount(remains[i])}
    BY <1>3
  <2>4. PICK a, b, d, m : a = Amount(inv[i]) /\ b = Amount(shared[i]) /\ d = Amount(remains[i]) /\ m = Amount(q)
    OBVIOUS
  <2>5. m <= a + b + d
    BY <2>2, <2>3, <2>4
  <2> QED
    BY <2>4, <2>5 DEF Held
<1>7. Held(i) \in Nat /\ Held(i) <= MaxUnits + 1 /\ MaxUnits \in Nat /\ MaxUnits > 0
  BY FewUnits, ItemFacts
<1>8. Amount(q) \in Nat /\ q[k].n \in Nat /\ q[k].n > 0
  BY <1>2, <1>3, <1>4, StackFacts
<1>9. q[k].n \in 1..2 * MaxUnits
  BY <1>5, <1>6, <1>7, <1>8
<1>10. q[k].within \in Containers \cup {"none"}
  BY <1>4 DEF Entries
<1> QED
  BY <1>3, <1>9, <1>10

LEMMA GoodsTypesHold == GoodsInv => Possessions!TypeOK
<1> SUFFICES ASSUME GoodsInv PROVE Possessions!TypeOK
  OBVIOUS
<1>1. \A i \in Ids, pile \in {inv, shared, remains} :
        \A k \in DOMAIN pile[i] :
            /\ pile[i][k].n \in 1..2 * MaxUnits
            /\ pile[i][k].within \in Containers \cup {Possessions!None}
  BY EntriesAreFew DEF Possessions!None
<1>2. spent \in [Ids -> 0..MaxUnits + 1]
  <2>1. spent \in [Ids -> Nat] /\ MaxUnits \in Nat
    BY ItemFacts DEF GoodsInv, GoodsTypes
  <2>2. ASSUME NEW i \in Ids PROVE spent[i] \in 0..MaxUnits + 1
    BY <2>1, FewUnits
  <2> QED
    BY <2>1, <2>2
<1>3. /\ stock \in [Listed -> 0..MaxUnits] /\ acquired \in [Listed -> 0..MaxUnits]
      /\ charge \in [Amulets -> 0..1] /\ shining \subseteq Amulets /\ life \in {"alive", "dead"}
  BY DEF GoodsInv, GoodsTypes
<1> QED
  BY <1>1, <1>2, <1>3 DEF Possessions!TypeOK

LEMMA GoodsHold ==
    GoodsInv => /\ Possessions!WardShinesWhileWorn
                /\ Possessions!OneItemPerSlot
                /\ Possessions!BagsWhole
<1> SUFFICES ASSUME GoodsInv
             PROVE  /\ Possessions!WardShinesWhileWorn
                    /\ Possessions!OneItemPerSlot
                    /\ Possessions!BagsWhole
  OBVIOUS
<1>1. /\ Possessions!WornAtAll(inv) = {i \in Ids : Gear(inv)[i] # "none"}
      /\ \A s : s # "none" => Possessions!Worn(inv, s) = {i \in Ids : Gear(inv)[i] = s}
  BY GearIs DEF GoodsInv, GoodsTypes
<1>2. Possessions!WardShinesWhileWorn
  <2>1. Amulets \subseteq Ids
    BY ItemAssumption
  <2>2. shining = {w \in Amulets : Gear(inv)[w] # "none" /\ charge[w] > 0}
    BY DEF GoodsInv, WardsFit
  <2> QED
    BY <1>1, <2>1, <2>2 DEF Possessions!WardShinesWhileWorn
<1>3. ASSUME NEW i \in Ids, NEW s \in SlotsOf[i]
      PROVE  Possessions!Cardinality(Possessions!Worn(inv, s)) <= 1
  <2>1. s \notin {"none", "loose"}
    BY ItemAssumption
  <2>2. PICK W : W = {j \in Ids : Gear(inv)[j] = s}
    OBVIOUS
  <2>3. \A j, l \in W : j = l
    BY <2>1, <2>2 DEF GoodsInv, SlotsFit
  <2>4. Cardinality(W) <= 1
    <3>1. CASE W = {}
      BY <3>1, FS_EmptySet
    <3>2. CASE W # {}
      <4>1. PICK j \in W : TRUE
        BY <3>2
      <4>2. W = {j}
        BY <2>3, <4>1
      <4>3. Cardinality({j}) = 1
        BY FS_Singleton
      <4> QED
        BY <4>2, <4>3
    <3> QED
      BY <3>1, <3>2
  <2>5. Possessions!Cardinality(W) = Cardinality(W)
    BY DEF Possessions!Cardinality, Cardinality
  <2> QED
    BY <1>1, <2>1, <2>2, <2>4, <2>5
<1>4. Possessions!Worn(inv, "mainhand") \cap TwoHanded # {} => Possessions!Worn(inv, "offhand") = {}
  BY <1>1 DEF GoodsInv, SlotsFit
<1>5. Possessions!OneItemPerSlot
  BY <1>3, <1>4 DEF Possessions!OneItemPerSlot
<1>6. Possessions!BagsWhole
  BY DEF GoodsInv, Possessions!BagsWhole
<1> QED
  BY <1>2, <1>5, <1>6

-----------------------------------------------------------------------------
(* Every component in its own behaviours.                                    *)

HeroInv ==
    /\ part = "Possessions" => GoodsInv
    /\ part = "Magic" => MagicInv
    /\ part = "CharacterCreation" => SheetInv
    /\ part = "SavedCampaign" => SaveInv

LEMMA InitHero == Init => HeroInv
BY InitGoods, InitMagic, InitSheet, InitSave DEF Init, HeroInv

LEMMA NextHero ==
    ASSUME HeroInv, Next
    PROVE  /\ HeroInv'
           /\ part = "Possessions" => ClansKept
           /\ part = "SavedCampaign" =>
                 /\ SavedCampaign!LoadsOnce
                 /\ SavedCampaign!DecayIsSettled
                 /\ SavedCampaign!ZonesLeaveAnIssue
<1> USE DEF HeroInv, Next
<1>1. part' = part
  OBVIOUS
<1>2. CASE part = "Possessions"
  BY <1>1, <1>2, NextGoods
<1>3. CASE part = "Magic"
  BY <1>1, <1>3, NextMagic
<1>4. CASE part = "CharacterCreation"
  BY <1>1, <1>4, NextSheet
<1>5. CASE part = "SavedCampaign"
  BY <1>1, <1>5, NextSave
<1> QED
  BY <1>1, <1>2, <1>3, <1>4, <1>5

\* Everything a component keeps is kept while nothing happens.
LEMMA QuietHero == HeroInv /\ UNCHANGED allVars => HeroInv'
<1> SUFFICES ASSUME HeroInv, UNCHANGED allVars PROVE HeroInv'
  OBVIOUS
<1> USE DEF HeroInv, allVars
<1>1. part' = part
  OBVIOUS
<1>2. CASE part = "Possessions"
  <2>1. UNCHANGED <<inv, shared, stock, acquired, charge, shining, life, remains, looted, spent, tampered>>
    OBVIOUS
  <2> QED
    BY <1>1, <1>2, <2>1, GoodsIdle
<1>3. CASE part = "Magic"
  <2>1. UNCHANGED <<level, known, prepared, slots, conc, hp, dice, scrolls, fight, pending, debt>>
    OBVIOUS
  <2> HIDE DEF HeroInv, allVars
  <2>2. MagicInv
    BY <1>3 DEF HeroInv
  <2>3. MagicInv'
    BY <2>1, <2>2 DEF MagicInv, Magic!TypeOK, Magic!AwakeToConcentrate, Magic!RepertoireFits,
          Magic!OffersCastable, Magic!SlotLevels, Magic!Levels, Magic!Spells, Magic!Leveled
  <2> QED
    BY <1>1, <1>3, <2>3 DEF HeroInv
<1>4. CASE part = "CharacterCreation"
  <2>1. UNCHANGED <<phase, pinned, draft, character, updates, rolled>>
    OBVIOUS
  <2> HIDE DEF HeroInv, allVars
  <2>2. SheetInv
    BY <1>4 DEF HeroInv
  <2>3. SheetInv'
    BY <2>1, <2>2 DEF SheetInv, CharacterCreation!TypeOK, CharacterCreation!RollStands,
          CharacterCreation!NoSkillWasted, CharacterCreation!ScoresAsChosen
  <2> QED
    BY <1>1, <1>4, <2>3 DEF HeroInv
<1>5. CASE part = "SavedCampaign"
  <2>1. UNCHANGED <<hero, savedFight, clock, events, actors, sustained, savedParty, savedRemains,
                    quest, advance, loaded>>
    OBVIOUS
  <2> HIDE DEF HeroInv, allVars
  <2>2. SaveInv
    BY <1>5 DEF HeroInv
  <2>3. SaveTyped'
    BY <2>1, <2>2 DEF SaveInv, SaveTyped, SavedCampaign!TypeOK
  <2>4. loaded' => Settled'
    <3> USE DEF SavedCampaign!Gone, SavedCampaign!Actors, SavedCampaign!Actor, SavedCampaign!Terminal,
                SavedCampaign!Clock, SavedCampaign!Weathers
    <3>1. /\ hero' = hero /\ savedFight' = savedFight /\ clock' = clock /\ events' = events
          /\ actors' = actors /\ sustained' = sustained /\ savedParty' = savedParty
          /\ savedRemains' = savedRemains /\ quest' = quest /\ advance' = advance /\ loaded' = loaded
      BY <2>1
    <3>2. (SavedCampaign!Clock(clock))' = SavedCampaign!Clock(clock)
      BY <3>1
    <3>3. (SavedCampaign!Actors)' = SavedCampaign!Actors /\ (SavedCampaign!Gone)' = SavedCampaign!Gone
      BY <3>1
    <3>4. (SavedCampaign!Events)' = SavedCampaign!Events
      BY <3>1 DEF SavedCampaign!Events, SavedCampaign!Known
    <3>5. (SavedCampaign!Party)' = SavedCampaign!Party
      BY <3>1 DEF SavedCampaign!Party, SavedCampaign!Members, SavedCampaign!Present, SavedCampaign!Hero
    <3>6. (SavedCampaign!Remains)' = SavedCampaign!Remains
      BY <3>1 DEF SavedCampaign!Remains, SavedCampaign!Corpse, SavedCampaign!Recorded
    <3>7. (SavedCampaign!Revived)' = SavedCampaign!Revived
      BY <3>1 DEF SavedCampaign!Revived, SavedCampaign!Consistent, SavedCampaign!LifeRead
    <3>8. (SavedCampaign!Quest)' = SavedCampaign!Quest /\ (SavedCampaign!Advance)' = SavedCampaign!Advance
      BY <3>1 DEF SavedCampaign!Quest, SavedCampaign!Least, SavedCampaign!Advance
    <3>9. (SavedCampaign!Fight)' = SavedCampaign!Fight
      BY <3>1 DEF SavedCampaign!Fight, SavedCampaign!Alerted, SavedCampaign!Reaction, SavedCampaign!LifeRead
    <3> HIDE DEF SavedCampaign!Gone, SavedCampaign!Actors, SavedCampaign!Actor, SavedCampaign!Terminal,
                 SavedCampaign!Clock, SavedCampaign!Weathers
    <3> QED
      BY <2>2, <3>1, <3>2, <3>3, <3>4, <3>5, <3>6, <3>7, <3>8, <3>9 DEF SaveInv, Settled
  <2>5. SavedCampaign!EveryoneAccounted' /\ SavedCampaign!HeroWhole'
    BY <2>1, <2>2 DEF SaveInv, SavedCampaign!EveryoneAccounted, SavedCampaign!HeroWhole
  <2> QED
    BY <1>1, <1>5, <2>3, <2>4, <2>5 DEF HeroInv, SaveInv
<1> QED
  BY <1>1, <1>2, <1>3, <1>4, <1>5

\* Every reachable state of the possessions, the magic, the sheet and the read campaign
\* satisfies the inductive invariant (resolveInventoryTransfer(), resolveEquipItem(),
\* resolveSpellcasting(), createCanonicalCharacter(), normalizeEngineCampaign()).
THEOREM HeroInvariant == Spec => []HeroInv
<1>1. HeroInv /\ [Next]_allVars => HeroInv'
  BY NextHero, QuietHero
<1> QED
  BY <1>1, InitHero, PTL DEF Spec

\* Every component of the hero keeps its types, for any items, spells and sheets, and no
\* entry ever holds more units than there were (engine-domain.ts).
THEOREM HeroTypesCorrect == Spec => []TypeOK
<1>1. HeroInv => TypeOK
  BY GoodsTypesHold DEF HeroInv, TypeOK, MagicInv, SheetInv, SaveInv, SaveTyped
<1> QED
  BY <1>1, HeroInvariant, PTL

\* With any items in any slots and bags, a ward protects exactly while it is worn with a
\* charge left, no slot holds two items and no hand is free that a weapon needs, and bags
\* hold what is in them (resolveEquipItem(), inventoryTopologyIssue(), corpseFromDeath()).
THEOREM GoodsStayWhole == Spec => []GoodsWhole
<1>1. HeroInv => GoodsWhole
  BY GoodsHold DEF HeroInv, GoodsWhole
<1> QED
  BY <1>1, HeroInvariant, PTL

\* With any tables a caster's slots and casts add up, nobody holds a spell at zero hit
\* points and every offered reaction can be taken; with any classes, backgrounds and dice
\* the sheet is what was rolled and chosen; a read campaign accounts for everyone and its
\* hero is in one piece (resolveSpellcasting(), resolveReaction(), createCanonicalCharacter(),
\* normalizeEngineCampaign()).
THEOREM HeroStaysSound == Spec => []HeroSound
<1>1. HeroInv => HeroSound
  BY SlotsHold DEF HeroInv, HeroSound, MagicInv, SheetInv, SaveInv
<1> QED
  BY <1>1, HeroInvariant, PTL

\* No step makes a unit of an item or loses one, but for the second entry of an id that
\* goes with the last unit of the first, and none changes a campaign by reading it once more, lets the weather move a settled decay, or drops a zone without an issue
\* (resolveMerchantTrade(), resolvePartySharedTransfer(), addInventory(),
\* normalizeEngineCampaign()).
THEOREM HeroStepsKeep == Spec => StepsKeep
<1>1. HeroInv /\ HeroInv' /\ [Next]_allVars =>
        [/\ part = "Possessions" => Possessions!UnitsConserved
         /\ part = "SavedCampaign" =>
            /\ SavedCampaign!LoadsOnce
            /\ SavedCampaign!DecayIsSettled
            /\ SavedCampaign!ZonesLeaveAnIssue]_allVars
  <2> SUFFICES ASSUME HeroInv, HeroInv', Next
               PROVE  /\ part = "Possessions" => Possessions!UnitsConserved
                      /\ part = "SavedCampaign" =>
                         /\ SavedCampaign!LoadsOnce
                         /\ SavedCampaign!DecayIsSettled
                         /\ SavedCampaign!ZonesLeaveAnIssue
    OBVIOUS
  <2>1. /\ part = "Possessions" => ClansKept
        /\ part = "SavedCampaign" =>
              /\ SavedCampaign!LoadsOnce
              /\ SavedCampaign!DecayIsSettled
              /\ SavedCampaign!ZonesLeaveAnIssue
    BY NextHero
  <2>2. part' = part
    BY DEF Next
  <2>3. CASE part = "Possessions"
    <3>1. GoodsTypes /\ GoodsTypes' /\ ClansKept
      BY <2>1, <2>2, <2>3 DEF HeroInv, GoodsInv
    <3> QED
      BY <2>1, <2>3, <3>1, ClansAreUnits
  <2> QED
    BY <2>1, <2>3
<1> QED
  BY <1>1, HeroInvariant, PTL DEF Spec, StepsKeep
=============================================================================
