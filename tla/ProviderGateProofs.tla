------------------------ MODULE ProviderGateProofs ------------------------
(***************************************************************************)
(* The safety properties of the provider gate, proved for any set of calls, *)
(* any ceilings and any wait bounds.                                        *)
(***************************************************************************)
EXTENDS ProviderGate, FiniteSetTheorems, SequenceTheorems, TLAPS

\* Removing the i-th element keeps the others and their order.
LEMMA RemoveAtElements ==
    ASSUME NEW S, NEW s \in Seq(S), NEW i \in 1..Len(s)
    PROVE  /\ RemoveAt(s, i) \in Seq(S)
           /\ Len(RemoveAt(s, i)) = Len(s) - 1
           /\ \A j \in 1..(Len(s) - 1) :
                 RemoveAt(s, i)[j] = IF j < i THEN s[j] ELSE s[j + 1]
<1> DEFINE front == SubSeq(s, 1, i - 1)
           back  == SubSeq(s, i + 1, Len(s))
<1>1. /\ front \in Seq(S)
      /\ Len(front) = i - 1
      /\ \A j \in 1..(i - 1) : front[j] = s[j]
  BY SubSeqProperties, ElementOfSeq
<1>2. /\ back \in Seq(S)
      /\ Len(back) = Len(s) - i
      /\ \A j \in 1..(Len(s) - i) : back[j] = s[j + i]
  BY SubSeqProperties, ElementOfSeq
<1>3. RemoveAt(s, i) = front \o back
  BY DEF RemoveAt
<1> HIDE DEF front, back
<1>4. /\ front \o back \in Seq(S)
      /\ Len(front \o back) = Len(front) + Len(back)
      /\ \A j \in 1..(Len(front) + Len(back)) : (front \o back)[j] =
            IF j <= Len(front) THEN front[j] ELSE back[j - Len(front)]
  BY <1>1, <1>2, ConcatProperties
<1>5. Len(s) \in Nat
  OBVIOUS
<1>6. ASSUME NEW j \in 1..(Len(s) - 1)
      PROVE  (front \o back)[j] = IF j < i THEN s[j] ELSE s[j + 1]
  BY <1>1, <1>2, <1>4, <1>5
<1>7. QED
  BY <1>1, <1>2, <1>3, <1>4, <1>5, <1>6

---------------------------------------------------------------------------
\* The counters themselves stay under the ceilings.
CountersWithin ==
    /\ inFlight <= MaxConcurrent
    /\ \A a \in Accounts : perAccount[a] <= MaxConcurrentPerAccount

\* The inductive invariant.
GateInv ==
    /\ TypeOK
    /\ QueueIsWaiters
    /\ SlotAccounting
    /\ CountersWithin
    /\ NoIdleSlot

\* The sets that SlotAccounting measures are finite.
LEMMA HoldersFinite ==
    ASSUME TypeOK
    PROVE  /\ IsFiniteSet(Holders)
           /\ \A a \in Accounts : IsFiniteSet(HoldersOf(a))
<1>1. Holders \in SUBSET Calls /\ \A a \in Accounts : HoldersOf(a) \in SUBSET Calls
  BY DEF Holders, HoldersOf
<1>2. QED
  BY <1>1, GateAssumption, FS_Subset

\* Admitting a call that holds no slot keeps the counters equal to the number
\* of holders.
LEMMA AdmitKeepsAccounting ==
    ASSUME TypeOK, SlotAccounting,
           NEW c \in Calls, phase[c] # "holding", Admit(c)
    PROVE  SlotAccounting'
<1>1. Holders' = Holders \cup {c} /\ c \notin Holders
  BY DEF TypeOK, Admit, Holders
<1>2. inFlight' = Cardinality(Holders')
  BY <1>1, HoldersFinite, FS_AddElement DEF SlotAccounting, Admit
<1>3. ASSUME NEW a \in Accounts
      PROVE  perAccount'[a] = Cardinality(HoldersOf(a)')
  <2>1. CASE a = AccountOf[c]
    <3>1. HoldersOf(a)' = HoldersOf(a) \cup {c} /\ c \notin HoldersOf(a)
      BY <2>1, <1>1 DEF HoldersOf
    <3>2. perAccount'[a] = perAccount[a] + 1
      BY <2>1 DEF TypeOK, Admit
    <3>3. QED
      BY <3>1, <3>2, HoldersFinite, FS_AddElement DEF SlotAccounting
  <2>2. CASE a # AccountOf[c]
    <3>1. HoldersOf(a)' = HoldersOf(a)
      BY <2>2, <1>1 DEF HoldersOf
    <3>2. perAccount'[a] = perAccount[a]
      BY <2>2 DEF TypeOK, Admit
    <3>3. QED
      BY <3>1, <3>2 DEF SlotAccounting
  <2>3. QED
    BY <2>1, <2>2
<1>4. QED
  BY <1>2, <1>3 DEF SlotAccounting

\* A call that neither holds nor gets a slot leaves the accounting alone.
LEMMA SettleKeepsAccounting ==
    ASSUME TypeOK, SlotAccounting,
           NEW c \in Calls, NEW outcome \in Phases \ {"holding"},
           phase[c] # "holding", Settle(c, outcome)
    PROVE  SlotAccounting'
<1>1. Holders' = Holders
  BY DEF TypeOK, Settle, Holders
<1>2. \A a \in Accounts : HoldersOf(a)' = HoldersOf(a)
  BY <1>1 DEF HoldersOf
<1>3. QED
  BY <1>1, <1>2 DEF SlotAccounting, Settle

\* The first release of a held slot takes exactly that slot off the counters.
LEMMA FreeKeepsAccounting ==
    ASSUME TypeOK, SlotAccounting,
           NEW c \in Calls, phase[c] = "holding", FreeSlot(c)
    PROVE  SlotAccounting'
<1>1. Holders' = Holders \ {c} /\ c \in Holders
  BY DEF TypeOK, FreeSlot, Holders
<1>2. inFlight' = Cardinality(Holders')
  <2>1. Cardinality(Holders \ {c}) = Cardinality(Holders) - 1
    BY <1>1, HoldersFinite, FS_RemoveElement
  <2>2. Cardinality(Holders \ {c}) \in Nat
    BY HoldersFinite, FS_RemoveElement, FS_CardinalityType
  <2>3. QED
    BY <1>1, <2>1, <2>2 DEF TypeOK, SlotAccounting, FreeSlot, Less
<1>3. ASSUME NEW a \in Accounts
      PROVE  perAccount'[a] = Cardinality(HoldersOf(a)')
  <2>1. CASE a = AccountOf[c]
    <3>1. HoldersOf(a)' = HoldersOf(a) \ {c} /\ c \in HoldersOf(a)
      BY <2>1, <1>1 DEF HoldersOf
    <3>2. perAccount'[a] = Less(perAccount[a])
      BY <2>1 DEF TypeOK, FreeSlot
    <3>3. Cardinality(HoldersOf(a) \ {c}) = Cardinality(HoldersOf(a)) - 1
      BY <3>1, HoldersFinite, FS_RemoveElement
    <3>4. Cardinality(HoldersOf(a) \ {c}) \in Nat
      BY HoldersFinite, FS_RemoveElement, FS_CardinalityType
    <3>5. QED
      BY <3>1, <3>2, <3>3, <3>4 DEF TypeOK, SlotAccounting, Less
  <2>2. CASE a # AccountOf[c]
    <3>1. HoldersOf(a)' = HoldersOf(a)
      BY <2>2, <1>1 DEF HoldersOf
    <3>2. perAccount'[a] = perAccount[a]
      BY <2>2 DEF TypeOK, FreeSlot
    <3>3. QED
      BY <3>1, <3>2 DEF SlotAccounting
  <2>3. QED
    BY <2>1, <2>2
<1>4. QED
  BY <1>2, <1>3 DEF SlotAccounting

\* Taking a waiter out of the queue and settling it, by whatever outcome but
\* "queued", keeps the queue equal to the waiting calls.
LEMMA RemovedWaiter ==
    ASSUME phase \in [Calls -> Phases], queue \in Seq(Calls), QueueIsWaiters,
           NEW k \in 1..Len(queue), NEW c \in Calls, queue[k] = c,
           NEW outcome, outcome # "queued",
           phase' = [phase EXCEPT ![c] = outcome],
           queue' = RemoveAt(queue, k)
    PROVE  QueueIsWaiters'
<1>1. /\ Len(queue) \in Nat
      /\ Len(queue') = Len(queue) - 1
      /\ \A j \in 1..(Len(queue) - 1) :
            queue'[j] = IF j < k THEN queue[j] ELSE queue[j + 1]
  <2>1. /\ Len(RemoveAt(queue, k)) = Len(queue) - 1
        /\ \A j \in 1..(Len(queue) - 1) : RemoveAt(queue, k)[j] =
              IF j < k THEN queue[j] ELSE queue[j + 1]
    BY RemoveAtElements
  <2>2. Len(queue) \in Nat
    OBVIOUS
  <2>3. QED
    BY <2>1, <2>2
<1>2. ASSUME NEW i \in 1..Len(queue'), NEW j \in 1..Len(queue'), queue'[i] = queue'[j]
      PROVE  i = j
  <2> DEFINE old(n) == IF n < k THEN n ELSE n + 1
  <2>1. \A n \in 1..Len(queue') : old(n) \in 1..Len(queue) /\ queue'[n] = queue[old(n)]
    BY <1>1
  <2>2. /\ old(i) \in 1..Len(queue) /\ queue'[i] = queue[old(i)]
        /\ old(j) \in 1..Len(queue) /\ queue'[j] = queue[old(j)]
    BY <2>1
  <2>3. old(i) = old(j)
    <3> HIDE DEF old
    <3>1. \A m, n \in 1..Len(queue) : queue[m] = queue[n] => m = n
      BY DEF QueueIsWaiters
    <3> QED
      BY <1>2, <2>2, <3>1
  <2>4. QED
    BY <1>1, <2>3
<1>3. ASSUME NEW x \in Calls
      PROVE  phase'[x] = "queued" <=> \E i \in 1..Len(queue') : queue'[i] = x
  <2>1. CASE x = c
    BY <2>1, <1>1 DEF QueueIsWaiters
  <2>2. CASE x # c
    <3>1. phase'[x] = phase[x]
      BY <2>2
    <3>2. ASSUME NEW i \in 1..Len(queue), queue[i] = x
          PROVE  \E j \in 1..Len(queue') : queue'[j] = x
      <4>1. CASE i < k
        BY <4>1, <3>2, <1>1
      <4>2. CASE i > k
        <5>1. i - 1 \in 1..Len(queue') /\ queue'[i - 1] = x
          BY <4>2, <3>2, <1>1
        <5>2. QED
          BY <5>1
      <4>3. QED
        BY <4>1, <4>2, <3>2, <2>2
    <3>3. ASSUME NEW j \in 1..Len(queue'), queue'[j] = x
          PROVE  \E i \in 1..Len(queue) : queue[i] = x
      BY <3>3, <1>1
    <3>4. QED
      BY <3>1, <3>2, <3>3 DEF QueueIsWaiters
  <2>3. QED
    BY <2>1, <2>2
<1>4. QED
  BY <1>2, <1>3 DEF QueueIsWaiters

---------------------------------------------------------------------------
LEMMA InitInv == Init => GateInv
<1> SUFFICES ASSUME Init PROVE GateInv
  OBVIOUS
<1>1. TypeOK
  <2>1. queue \in Seq(Calls)
    BY DEF Init
  <2>2. perAccount \in [Accounts -> Nat] /\ admitBy \in [Calls -> Int]
    BY DEF Init
  <2>3. phase \in [Calls -> Phases]
    BY DEF Init, Phases
  <2>4. QED
    BY <2>1, <2>2, <2>3 DEF Init, TypeOK
<1>2. QueueIsWaiters
  <2>1. queue = <<>> /\ Len(queue) = 0 /\ \A c \in Calls : phase[c] = "new"
    BY DEF Init
  <2>2. QED
    BY <2>1 DEF QueueIsWaiters
<1>3. SlotAccounting
  <2>1. Holders = {} /\ \A a \in Accounts : HoldersOf(a) = {}
    BY DEF Init, Holders, HoldersOf
  <2>2. QED
    BY <2>1, FS_EmptySet DEF Init, SlotAccounting
<1>4. CountersWithin
  BY GateAssumption DEF Init, CountersWithin
<1>5. NoIdleSlot
  BY DEF Init, NoIdleSlot
<1>6. QED
  BY <1>1, <1>2, <1>3, <1>4, <1>5 DEF GateInv

\* acquire() preserves the invariant, whichever way it answers.
LEMMA AcquireInv ==
    ASSUME GateInv, NEW c \in Calls, Acquire(c)
    PROVE  GateInv'
<1> USE DEF GateInv
<1>0. /\ ~draining /\ phase[c] = "new" /\ UNCHANGED <<now, draining>>
      /\ AccountOf[c] \in Accounts
  BY GateAssumption DEF Acquire
<1>1. CASE RejectAccountBusy(c) \/ RejectTooLate(c)
  <2>1. /\ \E o \in {"busy", "timedOut"} : phase' = [phase EXCEPT ![c] = o]
        /\ UNCHANGED <<inFlight, perAccount, admitBy, queue>>
    BY <1>1 DEF RejectAccountBusy, RejectTooLate, Settle
  <2>2. SlotAccounting'
    BY <1>0, <1>1, SettleKeepsAccounting DEF RejectAccountBusy, RejectTooLate, Phases
  <2>3. TypeOK'
    BY <1>0, <2>1 DEF TypeOK, Phases
  <2>4. QueueIsWaiters'
    BY <1>0, <2>1 DEF TypeOK, QueueIsWaiters
  <2>5. NoIdleSlot' /\ CountersWithin'
    BY <1>0, <2>1 DEF TypeOK, NoIdleSlot, CountersWithin, SlotFree, Eligible
  <2>6. QED
    BY <2>2, <2>3, <2>4, <2>5
<1>2. CASE AdmitAtOnce(c)
  <2>1. Admit(c) /\ UNCHANGED <<admitBy, queue>> /\ Eligible(c) /\ SlotFree
    BY <1>2 DEF AdmitAtOnce
  <2>2. SlotAccounting'
    BY <1>0, <2>1, AdmitKeepsAccounting
  <2>3. TypeOK'
    BY <1>0, <2>1 DEF TypeOK, Admit, Phases
  <2>4. QueueIsWaiters'
    BY <1>0, <2>1 DEF TypeOK, Admit, QueueIsWaiters
  <2>5. CountersWithin'
    BY <1>0, <2>1, GateAssumption DEF TypeOK, Admit, CountersWithin, SlotFree, Eligible
  <2>6. NoIdleSlot'
    <3>1. \A x \in Calls : phase'[x] = "queued" => phase[x] = "queued" /\ ~Eligible(x)
      BY <1>0, <2>1 DEF TypeOK, Admit, NoIdleSlot
    <3>2. \A x \in Calls : ~Eligible(x) => ~Eligible(x)'
      BY <1>0, <2>1, GateAssumption DEF TypeOK, Admit, Eligible
    <3>3. QED
      BY <3>1, <3>2 DEF NoIdleSlot
  <2>7. QED
    BY <2>2, <2>3, <2>4, <2>5, <2>6
<1>3. CASE Enqueue(c)
  <2>1. /\ ~SlotFree
        /\ phase' = [phase EXCEPT ![c] = "queued"]
        /\ queue' = Append(queue, c)
        /\ admitBy' = [admitBy EXCEPT ![c] = AdmitBy(c)]
        /\ UNCHANGED <<inFlight, perAccount>>
    BY <1>3 DEF Enqueue, Settle
  <2>2. SlotAccounting'
    BY <1>0, <1>3, SettleKeepsAccounting DEF Enqueue, Phases
  <2>3. AdmitBy(c) \in Int
    BY GateAssumption DEF TypeOK, AdmitBy, Smaller
  <2>4. TypeOK'
    BY <1>0, <2>1, <2>3 DEF TypeOK, Phases
  <2>5. QueueIsWaiters'
    <3>1. \A i \in 1..Len(queue) : queue[i] # c
      BY <1>0 DEF QueueIsWaiters
    <3>2. /\ Len(queue') = Len(queue) + 1
          /\ \A i \in 1..Len(queue) : queue'[i] = queue[i]
          /\ queue'[Len(queue) + 1] = c
          /\ Len(queue) \in Nat
      BY <2>1, AppendProperties DEF TypeOK
    <3>3. ASSUME NEW x \in Calls
          PROVE  phase'[x] = "queued" <=> \E i \in 1..Len(queue') : queue'[i] = x
      <4>1. CASE x = c
        BY <4>1, <2>1, <3>2 DEF TypeOK
      <4>2. CASE x # c
        <5>1. phase'[x] = phase[x]
          BY <4>2, <2>1 DEF TypeOK
        <5>2. (\E i \in 1..Len(queue') : queue'[i] = x)
                  <=> \E i \in 1..Len(queue) : queue[i] = x
          BY <4>2, <3>2
        <5>3. QED
          BY <5>1, <5>2 DEF QueueIsWaiters
      <4>3. QED
        BY <4>1, <4>2
    <3>4. \A i, j \in 1..Len(queue') : queue'[i] = queue'[j] => i = j
      BY <3>1, <3>2 DEF QueueIsWaiters
    <3>5. QED
      BY <3>3, <3>4 DEF QueueIsWaiters
  <2>6. NoIdleSlot' /\ CountersWithin'
    BY <1>0, <2>1 DEF TypeOK, NoIdleSlot, CountersWithin, SlotFree
  <2>7. QED
    BY <2>2, <2>4, <2>5, <2>6
<1>4. QED
  BY <1>1, <1>2, <1>3 DEF Acquire

\* A waiter's timer preserves the invariant.
LEMMA TimerInv ==
    ASSUME GateInv, NEW c \in Calls, TimerFires(c)
    PROVE  GateInv'
<1> USE DEF GateInv
<1>0. PICK k \in 1..Len(queue) : queue[k] = c /\ queue' = RemoveAt(queue, k)
  BY DEF TimerFires
<1>1. /\ ~draining /\ phase[c] = "queued"
      /\ phase' = [phase EXCEPT ![c] = "timedOut"]
      /\ UNCHANGED <<now, admitBy, draining, inFlight, perAccount>>
  BY DEF TimerFires, Settle
<1>2. TypeOK'
  BY <1>0, <1>1, RemoveAtElements DEF TypeOK, Phases
<1>3. QueueIsWaiters'
  BY <1>0, <1>1, RemovedWaiter, Zenon DEF TypeOK
<1>4. SlotAccounting'
  BY <1>1, SettleKeepsAccounting DEF TimerFires, Phases
<1>5. NoIdleSlot' /\ CountersWithin'
  BY <1>1 DEF TypeOK, NoIdleSlot, CountersWithin, SlotFree, Eligible
<1>6. QED
  BY <1>2, <1>3, <1>4, <1>5

\* A call of release() preserves the invariant: the first frees its slot and
\* starts draining, every later one changes nothing.
LEMMA ReleaseInv ==
    ASSUME GateInv, NEW c \in Calls, Release(c)
    PROVE  GateInv'
<1> USE DEF GateInv
<1>1. CASE phase[c] = "released"
  BY <1>1 DEF Release, vars, TypeOK, QueueIsWaiters, SlotAccounting, Holders,
              HoldersOf, CountersWithin, NoIdleSlot, SlotFree, Eligible
<1>2. CASE phase[c] = "holding"
  <2>1. FreeSlot(c) /\ AccountOf[c] \in Accounts
    BY <1>2, GateAssumption DEF Release
  <2>2. SlotAccounting'
    BY <1>2, <2>1, FreeKeepsAccounting
  <2>3. TypeOK'
    BY <2>1 DEF TypeOK, FreeSlot, Less, Phases
  <2>4. QueueIsWaiters'
    BY <1>2, <2>1 DEF TypeOK, FreeSlot, QueueIsWaiters
  <2>5. CountersWithin'
    BY <2>1, GateAssumption DEF TypeOK, FreeSlot, Less, CountersWithin
  <2>6. NoIdleSlot'
    BY <2>1 DEF FreeSlot, NoIdleSlot
  <2>7. QED
    BY <2>2, <2>3, <2>4, <2>5, <2>6
<1>3. QED
  BY <1>1, <1>2 DEF Release

\* One turn of drain()'s loop preserves the invariant.
LEMMA DrainAdmitInv ==
    ASSUME GateInv, DrainAdmit
    PROVE  GateInv'
<1> USE DEF GateInv
<1>0. PICK k \in 1..Len(queue) :
         /\ FirstEligible(k)
         /\ queue' = RemoveAt(queue, k)
         /\ Admit(queue[k])
  BY DEF DrainAdmit
<1> DEFINE c == queue[k]
<1>1. /\ c \in Calls /\ AccountOf[c] \in Accounts
      /\ phase[c] = "queued" /\ Admit(c) /\ Eligible(c) /\ SlotFree
      /\ draining /\ UNCHANGED <<now, admitBy, draining>>
  BY <1>0, GateAssumption DEF TypeOK, QueueIsWaiters, FirstEligible, DrainAdmit
<1> HIDE DEF c
<1>2. SlotAccounting'
  BY <1>1, AdmitKeepsAccounting
<1>3. TypeOK'
  <2>1. queue' \in Seq(Calls)
    BY <1>0, RemoveAtElements DEF TypeOK
  <2>2. /\ phase' \in [Calls -> Phases]
        /\ perAccount' \in [Accounts -> Nat]
        /\ inFlight' \in Nat
    BY <1>1 DEF TypeOK, Admit, Phases
  <2>3. QED
    BY <1>1, <2>1, <2>2 DEF TypeOK
<1>4. QueueIsWaiters'
  <2>1. queue[k] = c /\ phase' = [phase EXCEPT ![c] = "holding"]
    BY <1>1 DEF Admit, c
  <2>2. QED
    BY <1>0, <1>1, <2>1, RemovedWaiter, Zenon DEF TypeOK
<1>5. CountersWithin'
  BY <1>1, GateAssumption DEF TypeOK, Admit, CountersWithin, SlotFree, Eligible
<1>6. NoIdleSlot'
  BY <1>1 DEF NoIdleSlot
<1>7. QED
  BY <1>2, <1>3, <1>4, <1>5, <1>6

\* drain() ends only when no slot or no eligible waiter is left.
LEMMA DrainReturnInv ==
    ASSUME GateInv, DrainReturn
    PROVE  GateInv'
<1> USE DEF GateInv
<1>1. UNCHANGED <<now, phase, admitBy, queue, inFlight, perAccount>>
  BY DEF DrainReturn
<1>2. TypeOK' /\ QueueIsWaiters' /\ SlotAccounting' /\ CountersWithin'
  <2>1. TypeOK'
    BY <1>1 DEF DrainReturn, TypeOK
  <2>2. QueueIsWaiters' /\ CountersWithin'
    BY <1>1 DEF QueueIsWaiters, CountersWithin
  <2>3. Holders' = Holders /\ \A a : HoldersOf(a)' = HoldersOf(a)
    BY <1>1 DEF Holders, HoldersOf
  <2>4. SlotAccounting'
    BY <1>1, <2>3 DEF SlotAccounting
  <2>5. QED
    BY <2>1, <2>2, <2>4
<1>3. NoIdleSlot'
  <2>1. SlotFree => \A c \in Calls : phase[c] = "queued" => ~Eligible(c)
    BY DEF DrainReturn, QueueIsWaiters
  <2>2. QED
    BY <1>1, <2>1 DEF NoIdleSlot, SlotFree, Eligible
<1>4. QED
  BY <1>2, <1>3

LEMMA TickInv ==
    ASSUME GateInv, Tick \/ UNCHANGED vars
    PROVE  GateInv'
<1> USE DEF GateInv
<1>1. UNCHANGED <<phase, admitBy, queue, inFlight, perAccount, draining>>
  BY DEF Tick, vars
<1>2. now' \in Nat
  BY DEF Tick, vars, TypeOK
<1>3. TypeOK'
  BY <1>1, <1>2 DEF TypeOK
<1>4. QueueIsWaiters' /\ CountersWithin'
  BY <1>1 DEF QueueIsWaiters, CountersWithin
<1>5. Holders' = Holders /\ \A a : HoldersOf(a)' = HoldersOf(a)
  BY <1>1 DEF Holders, HoldersOf
<1>6. SlotAccounting'
  BY <1>1, <1>5 DEF SlotAccounting
<1>7. NoIdleSlot'
  BY <1>1 DEF NoIdleSlot, SlotFree, Eligible
<1>8. QED
  BY <1>3, <1>4, <1>6, <1>7

LEMMA NextInv == GateInv /\ [Next]_vars => GateInv'
  BY AcquireInv, TimerInv, ReleaseInv, DrainAdmitInv, DrainReturnInv, TickInv
  DEF Next

---------------------------------------------------------------------------
\* The invariant holds in every reachable state of the gate.
THEOREM GateInvariant == Spec => []GateInv
  BY InitInv, NextInv, PTL DEF Spec

\* The gate's fields keep their types: no counter ever goes below zero.
THEOREM TypeCorrect == Spec => []TypeOK
<1>1. GateInv => TypeOK
  BY DEF GateInv
<1>2. QED
  BY <1>1, GateInvariant, PTL

\* The queue never holds a settled call and never loses a waiting one.
THEOREM QueueCorrect == Spec => []QueueIsWaiters
<1>1. GateInv => QueueIsWaiters
  BY DEF GateInv
<1>2. QED
  BY <1>1, GateInvariant, PTL

\* No slot is leaked and none is freed twice.
THEOREM AccountingCorrect == Spec => []SlotAccounting
<1>1. GateInv => SlotAccounting
  BY DEF GateInv
<1>2. QED
  BY <1>1, GateInvariant, PTL

\* The provider never sees more than the global ceiling of concurrent calls,
\* nor more than the per-account ceiling from one account.
THEOREM CeilingsHold == Spec => []WithinCeilings
<1>1. GateInv => WithinCeilings
  BY DEF GateInv, SlotAccounting, CountersWithin, WithinCeilings
<1>2. QED
  BY <1>1, GateInvariant, PTL

\* No wake-up is lost: a slot is idle only when no waiter could use it.
THEOREM WorkConserving == Spec => []NoIdleSlot
<1>1. GateInv => NoIdleSlot
  BY DEF GateInv
<1>2. QED
  BY <1>1, GateInvariant, PTL

\* Queue, counters, ceilings and hand-overs agree for ever, for any number of
\* calls, accounts and slots.
THEOREM SlotsStayKept == Spec => []SlotsKept
<1>1. QueueIsWaiters /\ SlotAccounting /\ WithinCeilings /\ NoIdleSlot => SlotsKept
  BY DEF SlotsKept
<1>2. QED
  BY <1>1, QueueCorrect, AccountingCorrect, CeilingsHold, WorkConserving, PTL

\* Slots are handed over in queue order among the calls that may run, and a
\* fresh call never barges in.
THEOREM HandOverOrder == Spec => NoOvertaking
<1> DEFINE Fair ==
      \A c \in Calls : phase[c] # "holding" /\ phase'[c] = "holding" =>
          \A i \in 1..Len(queue) :
             (\A j \in 1..Len(queue) : queue[j] = c => i < j) => ~Eligible(queue[i])
<1>1. GateInv /\ [Next]_vars => [Fair]_vars
  <2> SUFFICES ASSUME GateInv, Next,
                      NEW c \in Calls, phase[c] # "holding", phase'[c] = "holding",
                      NEW i \in 1..Len(queue),
                      \A j \in 1..Len(queue) : queue[j] = c => i < j
               PROVE  ~Eligible(queue[i])
    OBVIOUS
  <2> USE DEF GateInv
  <2>1. ASSUME NEW x \in Calls, Acquire(x) PROVE ~Eligible(queue[i])
    <3>1. SlotFree /\ ~draining
      BY <2>1 DEF TypeOK, Acquire, RejectAccountBusy, RejectTooLate, Enqueue,
                  Settle, AdmitAtOnce
    <3>2. QED
      BY <3>1 DEF TypeOK, NoIdleSlot, QueueIsWaiters
  <2>2. CASE DrainAdmit
    <3>1. PICK k \in 1..Len(queue) : FirstEligible(k) /\ Admit(queue[k])
      BY <2>2 DEF DrainAdmit
    <3>2. queue[k] = c
      BY <3>1 DEF TypeOK, Admit
    <3>3. i < k
      BY <3>2
    <3>4. QED
      BY <3>1, <3>3 DEF FirstEligible
  <2>3. ASSUME NEW x \in Calls, TimerFires(x) PROVE FALSE
    BY <2>3 DEF TypeOK, TimerFires, Settle
  <2>4. ASSUME NEW x \in Calls, Release(x) PROVE FALSE
    BY <2>4 DEF TypeOK, Release, FreeSlot, vars
  <2>5. CASE DrainReturn \/ Tick
    BY <2>5 DEF DrainReturn, Tick
  <2>6. QED
    BY <2>1, <2>2, <2>3, <2>4, <2>5 DEF Next
<1>2. QED
  BY <1>1, GateInvariant, PTL DEF Spec, NoOvertaking
===========================================================================
