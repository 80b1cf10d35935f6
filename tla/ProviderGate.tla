--------------------------- MODULE ProviderGate ---------------------------
(***************************************************************************)
(* The admission gate in front of the upstream model provider              *)
(* (src/provider-gate.ts): a counting semaphore with a global ceiling, a    *)
(* ceiling per account, a FIFO queue that skips waiters whose account is    *)
(* full, and a queue timer per waiter.                                      *)
(*                                                                         *)
(* The gate lives in one Node process, so every method runs to completion. *)
(* release() frees a slot and then loops in drain(); the loop is unrolled   *)
(* here: while `draining` holds no other action is enabled, which keeps     *)
(* release() and its trailing drain() one uninterrupted piece of work.      *)
(*                                                                         *)
(* An operator named X_Y is X with a deliberate fault: it is never part of  *)
(* the specification, and only shows that a property can fail.              *)
(***************************************************************************)
EXTENDS Integers, FiniteSets, SequencesExt

CONSTANTS
    Calls,           \* the calls of acquire(), each made at most once
    Accounts,
    AccountOf,       \* the account each call is made for
    DeadlineOf,      \* the deadlineAt each call passes
    MaxConcurrent,
    MaxConcurrentPerAccount,
    MaxQueueWait,    \* options.maxQueueWaitMs
    WorkBudget,      \* the minimumWorkBudgetMs every caller passes
    NoDeadline,      \* deadlineAt === null
    Horizon          \* bound: the model's clock stops here

ASSUME GateAssumption ==
    /\ IsFiniteSet(Calls)
    /\ AccountOf \in [Calls -> Accounts]
    /\ MaxConcurrent \in Nat \ {0}
    /\ MaxConcurrentPerAccount \in Nat \ {0}
    /\ MaxQueueWait \in Nat
    /\ WorkBudget \in Nat
    /\ Horizon \in Nat
    /\ NoDeadline \notin Int
    /\ DeadlineOf \in [Calls -> Int \cup {NoDeadline}]

VARIABLES
    now,          \* Date.now()
    phase,        \* what has become of each call
    admitBy,      \* waiter.admitByAt
    queue,        \* the queued calls, oldest first
    inFlight,     \* slots handed out and not yet released
    perAccount,   \* the perAccount map; a missing key counts 0
    draining      \* release() has freed its slot and is inside drain()

vars == <<now, phase, admitBy, queue, inFlight, perAccount, draining>>

Phases == {"new", "queued", "holding", "released", "busy", "timedOut"}

Init ==
    /\ now = 0
    /\ phase = [c \in Calls |-> "new"]
    /\ admitBy = [c \in Calls |-> 0]
    /\ queue = <<>>
    /\ inFlight = 0
    /\ perAccount = [a \in Accounts |-> 0]
    /\ draining = FALSE

---------------------------------------------------------------------------
\* The account of c is below its own ceiling: acquire()'s first test and the
\* predicate drain() searches the queue with.
Eligible(c) == perAccount[AccountOf[c]] < MaxConcurrentPerAccount

SlotFree_OffByOne == inFlight <= MaxConcurrent

SlotFree == inFlight < MaxConcurrent

Smaller(a, b) == IF a <= b THEN a ELSE b

\* The instant after which a queued call is of no use to its caller.
AdmitBy(c) ==
    IF DeadlineOf[c] = NoDeadline
    THEN now + MaxQueueWait
    ELSE Smaller(now + MaxQueueWait, DeadlineOf[c] - WorkBudget)

\* admit(): count the slot for the service and for the account.
Admit(c) ==
    /\ inFlight' = inFlight + 1
    /\ perAccount' = [perAccount EXCEPT ![AccountOf[c]] = @ + 1]
    /\ phase' = [phase EXCEPT ![c] = "holding"]

Settle(c, outcome) ==
    /\ phase' = [phase EXCEPT ![c] = outcome]
    /\ UNCHANGED <<inFlight, perAccount>>

RejectAccountBusy(c) ==
    /\ ~Eligible(c)
    /\ Settle(c, "busy")
    /\ UNCHANGED <<admitBy, queue>>

AdmitAtOnce(c) ==
    /\ Eligible(c)
    /\ SlotFree
    /\ Admit(c)
    /\ UNCHANGED <<admitBy, queue>>

RejectTooLate(c) ==
    /\ Eligible(c)
    /\ ~SlotFree
    /\ AdmitBy(c) <= now
    /\ Settle(c, "timedOut")
    /\ UNCHANGED <<admitBy, queue>>

Enqueue(c) ==
    /\ Eligible(c)
    /\ ~SlotFree
    /\ AdmitBy(c) > now
    /\ Settle(c, "queued")
    /\ admitBy' = [admitBy EXCEPT ![c] = AdmitBy(c)]
    /\ queue' = Append(queue, c)

\* acquire(accountId, deadlineAt, minimumWorkBudgetMs). The first conjunct
\* bounds the model: calls arrive while a full queue wait fits the horizon.
Acquire(c) ==
    /\ now + MaxQueueWait <= Horizon
    /\ ~draining
    /\ phase[c] = "new"
    /\ \/ RejectAccountBusy(c)
       \/ AdmitAtOnce(c)
       \/ RejectTooLate(c)
       \/ Enqueue(c)
    /\ UNCHANGED <<now, draining>>

---------------------------------------------------------------------------
TimerFires_Disarmed(c) == FALSE /\ UNCHANGED vars

TimerFires_LeavesWaiter(c) ==
    /\ ~draining /\ phase[c] = "queued" /\ now >= admitBy[c]
    /\ Settle(c, "timedOut")
    /\ UNCHANGED <<now, admitBy, queue, draining>>

\* The setTimeout callback of a waiter: never early, possibly late. A settled
\* waiter's callback returns at once, so only a queued call's has an effect.
TimerFires(c) ==
    /\ ~draining
    /\ phase[c] = "queued"
    /\ now >= admitBy[c]
    /\ Settle(c, "timedOut")
    /\ \E i \in 1..Len(queue) : queue[i] = c /\ queue' = RemoveAt(queue, i)
    /\ UNCHANGED <<now, admitBy, draining>>

Less(n) == IF n > 0 THEN n - 1 ELSE 0

FreeSlot(c) ==
    /\ inFlight' = Less(inFlight)
    /\ perAccount' = [perAccount EXCEPT ![AccountOf[c]] = Less(@)]
    /\ phase' = [phase EXCEPT ![c] = "released"]
    /\ draining' = TRUE
    /\ UNCHANGED <<now, admitBy, queue>>

Release_EveryTime(c) ==
    /\ ~draining
    /\ phase[c] \in {"holding", "released"}
    /\ FreeSlot(c)

Release_BareDecrement(c) ==
    /\ ~draining /\ phase[c] \in {"holding", "released"}
    /\ inFlight' = inFlight - 1
    /\ perAccount' = [perAccount EXCEPT ![AccountOf[c]] = @ - 1]
    /\ phase' = [phase EXCEPT ![c] = "released"]
    /\ draining' = TRUE
    /\ UNCHANGED <<now, admitBy, queue>>

\* The release closure of an acquisition, which may be called again: the
\* `released` flag makes every later call return at once.
Release(c) ==
    /\ ~draining
    /\ phase[c] \in {"holding", "released"}
    /\ IF phase[c] = "released" THEN UNCHANGED vars ELSE FreeSlot(c)

FirstEligible_Last(i) ==
    /\ i \in 1..Len(queue)
    /\ Eligible(queue[i])
    /\ \A j \in (i + 1)..Len(queue) : ~Eligible(queue[j])

\* findIndex over the queue: the oldest waiter whose account has room.
FirstEligible(i) ==
    /\ i \in 1..Len(queue)
    /\ Eligible(queue[i])
    /\ \A j \in 1..(i - 1) : ~Eligible(queue[j])

\* One turn of drain()'s loop.
DrainAdmit ==
    /\ draining
    /\ SlotFree
    /\ \E i \in 1..Len(queue) :
          /\ FirstEligible(i)
          /\ queue' = RemoveAt(queue, i)
          /\ Admit(queue[i])
    /\ UNCHANGED <<now, admitBy, draining>>

DrainReturn_AtOnce ==
    /\ draining /\ draining' = FALSE
    /\ UNCHANGED <<now, phase, admitBy, queue, inFlight, perAccount>>

\* The loop ends: no slot is left, or no waiter is eligible.
DrainReturn ==
    /\ draining
    /\ SlotFree => \A i \in 1..Len(queue) : ~Eligible(queue[i])
    /\ draining' = FALSE
    /\ UNCHANGED <<now, phase, admitBy, queue, inFlight, perAccount>>

Tick ==
    /\ ~draining
    /\ now < Horizon
    /\ now' = now + 1
    /\ UNCHANGED <<phase, admitBy, queue, inFlight, perAccount, draining>>

Next ==
    \/ \E c \in Calls : Acquire(c)
    \/ \E c \in Calls : TimerFires(c)
    \/ \E c \in Calls : Release(c)
    \/ DrainAdmit
    \/ DrainReturn
    \/ Tick

\* Node runs a synchronous loop to its end, fires every armed timer, and time
\* passes. Nothing is assumed of the callers: a slot may be held for ever.
Fairness ==
    /\ WF_vars(DrainAdmit) /\ WF_vars(DrainReturn) /\ WF_vars(Tick)
    /\ \A c \in Calls : WF_vars(TimerFires(c))

Spec == Init /\ [][Next]_vars

LiveSpec == Spec /\ Fairness

---------------------------------------------------------------------------
Holders == {c \in Calls : phase[c] = "holding"}

HoldersOf(a) == {c \in Holders : AccountOf[c] = a}

TypeOK ==
    /\ now \in Nat
    /\ phase \in [Calls -> Phases]
    /\ admitBy \in [Calls -> Int]
    /\ queue \in Seq(Calls)
    /\ inFlight \in Nat
    /\ perAccount \in [Accounts -> Nat]
    /\ draining \in BOOLEAN

\* The queue holds exactly the calls that are still waiting, each once: a
\* timed-out or admitted waiter never lingers in it.
QueueIsWaiters ==
    /\ \A c \in Calls : phase[c] = "queued" <=> \E i \in 1..Len(queue) : queue[i] = c
    /\ \A i, j \in 1..Len(queue) : queue[i] = queue[j] => i = j

\* The two counters count the acquisitions really outstanding, whatever the
\* mix of double releases, timeouts and hand-overs: no slot leaks and none is
\* freed twice.
SlotAccounting ==
    /\ inFlight = Cardinality(Holders)
    /\ \A a \in Accounts : perAccount[a] = Cardinality(HoldersOf(a))

\* Provider fan-out stays under the ceiling for the service and for each
\* account, counted over the calls that hold a slot.
WithinCeilings ==
    /\ Cardinality(Holders) <= MaxConcurrent
    /\ \A a \in Accounts : Cardinality(HoldersOf(a)) <= MaxConcurrentPerAccount

\* Work conservation: outside drain(), a slot stays free only while every
\* waiter's own account is full. A lost wake-up would violate it.
NoIdleSlot ==
    ~draining /\ SlotFree => \A c \in Calls : phase[c] = "queued" => ~Eligible(c)

\* The slots are kept: queue, counters, ceilings and hand-overs agree in every
\* order of acquires, timeouts, releases and double releases.
SlotsKept == QueueIsWaiters /\ SlotAccounting /\ WithinCeilings /\ NoIdleSlot

\* Hand-over order: a call gets a slot only when every call that was already
\* queued, and queued before it, has its account at the ceiling. A fresh call
\* never barges past a waiter that could have run.
NoOvertaking ==
    [][\A c \in Calls : phase[c] # "holding" /\ phase'[c] = "holding" =>
          \A i \in 1..Len(queue) :
             (\A j \in 1..Len(queue) : queue[j] = c => i < j) => ~Eligible(queue[i])]_vars

\* Every queued call is settled, even if no slot holder ever releases: the
\* timer bounds the wait.
EveryWaiterSettles ==
    \A c \in Calls : phase[c] = "queued" ~> phase[c] # "queued"

---------------------------------------------------------------------------
(* The instance that TLC checks: account A makes two calls without a       *)
(* deadline, C two more under a short one, D one under a deadline already  *)
(* too close when the clock starts.                                        *)

ThreeAccounts == [c \in Calls |-> IF c \in {"x", "y"} THEN "A" ELSE IF c \in {"c1", "c2"} THEN "C" ELSE "D"]

ThreeDeadlines == [c \in Calls |-> IF c \in {"x", "y"} THEN NoDeadline ELSE IF c \in {"c1", "c2"} THEN 2 ELSE 0]
=============================================================================
