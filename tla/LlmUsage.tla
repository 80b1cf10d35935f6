------------------------------ MODULE LlmUsage ------------------------------
(***************************************************************************)
(* The usage ledger of the web host (src/llm-usage.ts) with the turns that  *)
(* charge it: resolveTurn(), chatCompletion(), callRemoteTool() and         *)
(* sceneChoices() (src/reference-engine-dm.ts). A turn asks for admission   *)
(* once, before it touches the game; the admission holds a fixed cost, and  *)
(* every provider call of the turn reserves its estimate without a test and *)
(* settles the cost the provider reports.                                   *)
(*                                                                         *)
(* Every method of the ledger is one transaction. A turn has at most one    *)
(* provider call open, and its current reservation is all the model keeps   *)
(* of its calls: rows that are no longer reserved are never read again.     *)
(* Time is counted in whole steps of the clock, days and months in DayLength*)
(* and MonthLength of them; costs in a coarse unit.                         *)
(*                                                                         *)
(* An operator named X_Y is X with a deliberate fault: it is never part of  *)
(* the specification, and only shows that a property can fail.              *)
(***************************************************************************)
EXTENDS Naturals, FiniteSets, FiniteSetsExt

CONSTANTS
    Accounts,
    Turns,          \* player commands, each sent once
    Owner,          \* the account of each turn
    Pass,           \* the accounts with a live Player Pass
    FreeDaily,      \* freeDailyCostMicros; 0 is no daily limit
    FreeMonthly,    \* freeMonthlyCostMicros
    PassMonthly,    \* playerMonthlyCostMicros
    GlobalDaily,    \* globalDailyCostMicros
    GlobalMonthly,  \* globalMonthlyCostMicros
    Hold,           \* turnAdmissionReserveCostMicros
    Estimate,       \* the estimated cost of a provider call
    Costs,          \* the costs the provider may report
    Ttl,            \* reservationTtlMs
    DayLength, MonthLength,
    MaxTime,        \* bound: the last instant
    MaxCalls        \* bound: provider calls of all turns together

ASSUME UsageAssumption ==
    /\ IsFiniteSet(Accounts) /\ IsFiniteSet(Turns)
    /\ Owner \in [Turns -> Accounts]
    /\ Pass \subseteq Accounts
    /\ {FreeDaily, FreeMonthly, PassMonthly, GlobalDaily, GlobalMonthly, Hold, Estimate, Ttl, MaxTime, MaxCalls}
         \subseteq Nat
    /\ Costs \subseteq Nat
    /\ DayLength \in Nat \ {0} /\ MonthLength \in Nat \ {0}

VARIABLES
    now,      \* the clock
    booked,   \* llm_usage: the settled cost of each account and day
    hold,     \* the admission reservation of each turn
    call,     \* the reservation of the provider call each turn has open
    work,     \* what each turn waits for
    paid      \* ghost: the reported cost of every completion that arrived

vars == <<now, booked, hold, call, work, paid>>

Days == 0..(MaxTime \div DayLength)
Today == now \div DayLength
ThisMonth == {d \in Days : d <= Today /\ (d * DayLength) \div MonthLength = now \div MonthLength}

Statuses == {"none", "reserved", "settled", "released", "expired"}
NoRow == [status |-> "none", cost |-> 0, expires |-> 0]
Row(cost) == [status |-> "reserved", cost |-> cost, expires |-> now + Ttl]

\* Where a turn stands: "round" is before a completion of the DM or between
\* two tool calls, "retry" the back-off of chatCompletion(), "drafted" with
\* the narration written and "narrated" after the scene choices.
Calling == {"dm", "dm_again", "npc", "choices"}
Running == {"round", "retry", "drafted", "narrated"} \cup Calling
Ended == {"refused", "done", "failed", "crashed"}
Phases == {"new"} \cup Running \cup Ended

Waiting(phase, calls) == [phase |-> phase, calls |-> calls]

Init ==
    /\ now = 0
    /\ booked = [a \in Accounts |-> [d \in Days |-> 0]]
    /\ hold = [t \in Turns |-> NoRow]
    /\ call = [t \in Turns |-> NoRow]
    /\ work = [t \in Turns |-> Waiting("new", 0)]
    /\ paid = [a \in Accounts |-> 0]

-----------------------------------------------------------------------------
(* The ledger                                                               *)

\* A row lapses one step early.
Due_Early(r) == r.status = "reserved" /\ r.expires <= now + 1

Due(r) == r.status = "reserved" /\ r.expires <= now

\* admitTurn() reads the rows it has not swept.
Swept_NotYet(rows) == rows

\* expireReservations(): every due row of every account.
Swept(rows) == [t \in Turns |-> IF Due(rows[t]) THEN [rows[t] EXCEPT !.status = "expired"] ELSE rows[t]]

\* aggregateUser() and aggregateAll(): what was booked on the given days.
Spent(accounts, days) == MapThenSumSet(LAMBDA p : booked[p[1]][p[2]], accounts \X days)

Counted(r) == IF r.status = "reserved" THEN r.cost ELSE 0

\* aggregateReservations() only sees the open calls, not the admissions.
Reserved_CallsOnly(turns, holds, calls) == MapThenSumSet(LAMBDA t : Counted(calls[t]), turns)

\* aggregateReservations() and aggregateAllReservations(): the estimates of
\* every reserved row, whatever day it is from.
Reserved(turns, holds, calls) == MapThenSumSet(LAMBDA t : Counted(holds[t]) + Counted(calls[t]), turns)

\* assertWithin(): one more admission stays within the limit.
Within(used, limit) == used + Hold <= limit

TurnsOf(a) == {t \in Turns : Owner[t] = a}

\* The four tests of admitTurn(), on the rows that are left after the sweep.
Admissible(t, holds, calls) ==
    LET a == Owner[t]
        mine == Reserved(TurnsOf(a), holds, calls)
        all == Reserved(Turns, holds, calls)
    IN  /\ a \notin Pass /\ FreeDaily > 0 => Within(Spent({a}, {Today}) + mine, FreeDaily)
        /\ Within(Spent({a}, ThisMonth) + mine, IF a \in Pass THEN PassMonthly ELSE FreeMonthly)
        /\ Within(Spent(Accounts, {Today}) + all, GlobalDaily)
        /\ Within(Spent(Accounts, ThisMonth) + all, GlobalMonthly)

\* A row that is settled or released keeps no time in the model: nothing
\* reads it any more.
Closed(r, status) == [r EXCEPT !.status = status, !.expires = 0]

\* release() updates the row only while it is reserved.
Released(r) == IF r.status = "reserved" THEN Closed(r, "released") ELSE r

Move(t, phase) == work' = [work EXCEPT ![t].phase = phase]

\* The finally block is missing: only a turn that resolves gives its hold back.
End_KeepsHold(t, phase) ==
    /\ hold' = [hold EXCEPT ![t] = IF phase = "done" THEN Released(@) ELSE @]
    /\ Move(t, phase)

\* The way out of resolveTurn(): its finally block releases the hold.
End(t, phase) ==
    /\ hold' = [hold EXCEPT ![t] = Released(@)]
    /\ Move(t, phase)

-----------------------------------------------------------------------------
(* A turn                                                                   *)

\* admitTurn(): the sweep and the tests are one transaction with the insert.
Admit(t) ==
    /\ work[t].phase = "new"
    /\ Admissible(t, Swept(hold), Swept(call))
    /\ hold' = [Swept(hold) EXCEPT ![t] = Row(Hold)]
    /\ call' = Swept(call)
    /\ Move(t, "round")
    /\ UNCHANGED <<now, booked, paid>>

\* A refusal throws, which also rolls the sweep back; the turn fails.
Refuse(t) ==
    /\ work[t].phase = "new"
    /\ ~Admissible(t, Swept(hold), Swept(call))
    /\ Move(t, "refused")
    /\ UNCHANGED <<now, booked, hold, call, paid>>

CallsMade == MapThenSumSet(LAMBDA t : work[t].calls, Turns)

\* A provider call reserves the admission cost once more.
Reserve_AsTurn(t, phase) ==
    /\ CallsMade < MaxCalls
    /\ hold' = Swept(hold)
    /\ call' = [Swept(call) EXCEPT ![t] = Row(Hold)]
    /\ work' = [work EXCEPT ![t] = Waiting(phase, @.calls + 1)]
    /\ UNCHANGED <<now, booked, paid>>

\* reserve() for a call of an admitted turn: no test, and the sweep.
Reserve(t, phase) ==
    /\ CallsMade < MaxCalls
    /\ hold' = Swept(hold)
    /\ call' = [Swept(call) EXCEPT ![t] = Row(Estimate)]
    /\ work' = [work EXCEPT ![t] = Waiting(phase, @.calls + 1)]
    /\ UNCHANGED <<now, booked, paid>>

\* chatCompletionOnce(), callRemoteTool() of an agent, and sceneChoices() once
\* the narration is written; the provider slot is already held.
Reserves(t) ==
    \/ work[t].phase = "round" /\ Reserve(t, "dm")
    \/ work[t].phase = "round" /\ work[t].calls > 0 /\ Reserve(t, "npc")
    \/ work[t].phase = "retry" /\ Reserve(t, "dm_again")
    \/ work[t].phase = "drafted" /\ Reserve(t, "choices")

\* Where an answer that was recorded leads: an empty completion is retried
\* once and fails the turn the second time.
AfterAnswer(phase) ==
    CASE phase = "dm" -> {"round", "drafted", "retry"}
      [] phase = "dm_again" -> {"round", "drafted", "failed"}
      [] phase = "npc" -> {"round"}
      [] phase = "choices" -> {"narrated"}

\* Where a call without a recorded answer leads: a 429 or 5xx is retried once,
\* an agent may answer without usage, scene choices are best effort.
AfterError(phase) ==
    CASE phase = "dm" -> {"retry", "failed"}
      [] phase = "dm_again" -> {"failed"}
      [] phase = "npc" -> {"round", "failed"}
      [] phase = "choices" -> {"narrated"}

Leads(t, phase) == IF phase = "failed" THEN End(t, phase) ELSE Move(t, phase) /\ UNCHANGED hold

\* settle() of a reserved row, due or not, books the reported cost today.
Answer(t, cost) ==
    /\ work[t].phase \in Calling
    /\ call[t].status = "reserved"
    /\ paid' = [paid EXCEPT ![Owner[t]] = @ + cost]
    /\ booked' = [booked EXCEPT ![Owner[t]][Today] = @ + cost]
    /\ call' = [call EXCEPT ![t] = Closed(@, "settled")]
    /\ \E phase \in AfterAnswer(work[t].phase) : Leads(t, phase)
    /\ UNCHANGED now

\* settle() of a row that was swept in the meantime throws, and the error is
\* not one that chatCompletion() retries.
AnswerTooLate(t, cost) ==
    /\ work[t].phase \in Calling
    /\ call[t].status # "reserved"
    /\ paid' = [paid EXCEPT ![Owner[t]] = @ + cost]
    /\ Leads(t, IF work[t].phase = "choices" THEN "narrated" ELSE "failed")
    /\ UNCHANGED <<now, booked, call>>

\* The call brings no answer with a usage: its catch or else branch releases.
NoAnswer(t) ==
    /\ work[t].phase \in Calling
    /\ call' = [call EXCEPT ![t] = Released(@)]
    /\ \E phase \in AfterError(work[t].phase) : Leads(t, phase)
    /\ UNCHANGED <<now, booked, paid>>

\* The turn resolves, or an engine call, the gate or the commit fails.
Finish(t) ==
    /\ work[t].phase \in Running \ Calling
    /\ \/ End(t, "failed")
       \/ work[t].phase \in {"drafted", "narrated"} /\ End(t, "done")
    /\ UNCHANGED <<now, booked, call, paid>>

\* The web process stops: no finally block runs.
Crash ==
    /\ \E t \in Turns : work[t].phase \in Running
    /\ work' = [t \in Turns |-> IF work[t].phase \in Running THEN [work[t] EXCEPT !.phase = "crashed"] ELSE work[t]]
    /\ UNCHANGED <<now, booked, hold, call, paid>>

Tick ==
    /\ now < MaxTime
    /\ now' = now + 1
    /\ UNCHANGED <<booked, hold, call, work, paid>>

Next ==
    \/ \E t \in Turns : Admit(t) \/ Refuse(t) \/ Reserves(t) \/ NoAnswer(t) \/ Finish(t)
    \/ \E t \in Turns, c \in Costs : Answer(t, c) \/ AnswerTooLate(t, c)
    \/ Crash
    \/ Tick

Spec == Init /\ [][Next]_vars

-----------------------------------------------------------------------------
(* Properties                                                               *)

\* Every row is an admission or a call with the cost its kind reserves, an
\* admission is never settled, and a turn has a hold exactly once admitted.
TypeOK ==
    /\ now \in 0..MaxTime
    /\ booked \in [Accounts -> [Days -> Nat]]
    /\ paid \in [Accounts -> Nat]
    /\ \A t \in Turns :
          /\ work[t] \in [phase : Phases, calls : 0..MaxCalls]
          /\ hold[t].status \in Statuses \ {"settled"} /\ call[t].status \in Statuses
          /\ hold[t].expires <= now + Ttl /\ call[t].expires <= now + Ttl
          /\ hold[t].cost = (IF work[t].phase \in {"new", "refused"} THEN 0 ELSE Hold)
          /\ call[t].cost = (IF work[t].calls = 0 THEN 0 ELSE Estimate)

\* A reservation counts until its time is up, swept or not.
Live(r) == r.status = "reserved" /\ now < r.expires
LiveCost(turns) ==
    MapThenSumSet(LAMBDA t : (IF Live(hold[t]) THEN hold[t].cost ELSE 0)
                                + (IF Live(call[t]) THEN call[t].cost ELSE 0), turns)

MonthlyLimit(a) == IF a \in Pass THEN PassMonthly ELSE FreeMonthly

\* The budget has room for one more turn of a: settled cost, live reservations
\* and one more hold stay within each of the limits that apply to it.
Affordable(a) ==
    /\ a \notin Pass /\ FreeDaily > 0 => Spent({a}, {Today}) + LiveCost(TurnsOf(a)) + Hold <= FreeDaily
    /\ Spent({a}, ThisMonth) + LiveCost(TurnsOf(a)) + Hold <= MonthlyLimit(a)
    /\ Spent(Accounts, {Today}) + LiveCost(Turns) + Hold <= GlobalDaily
    /\ Spent(Accounts, ThisMonth) + LiveCost(Turns) + Hold <= GlobalMonthly

\* A turn is refused only when the budget has no room for it, and admitted
\* only when it has: rows of turns that crashed or ran too long block nobody
\* once their time is up, although only a later transaction marks them.
AdmissionExact ==
    [][\A t \in Turns : work[t].phase = "new" /\ work'[t].phase # "new" =>
          (work'[t].phase = "refused" <=> ~Affordable(Owner[t]))]_vars

\* Turns that are admitted at the same time never hold more than a limit
\* together: the admission reservation counts concurrent commands against the
\* account and the deployment at once (admitTurn()).
LiveHolds(turns) == Hold * Cardinality({t \in turns : Live(hold[t])})

HoldsWithinBudget ==
    /\ LiveHolds(Turns) <= GlobalDaily /\ LiveHolds(Turns) <= GlobalMonthly
    /\ \A a \in Accounts :
          /\ LiveHolds(TurnsOf(a)) <= MonthlyLimit(a)
          /\ a \notin Pass /\ FreeDaily > 0 => LiveHolds(TurnsOf(a)) <= FreeDaily

\* However a turn ends, short of a crash, it leaves no reserved row behind
\* that would eat the player's budget until its time is up (the catch and
\* finally blocks of the callers).
NothingStranded ==
    \A t \in Turns : work[t].phase \in {"refused", "done", "failed"} =>
        hold[t].status # "reserved" /\ call[t].status # "reserved"

\* A completion that arrives within the time of its reservation is booked
\* with its cost, whatever other turns swept in between (settle()).
TimelyAnswersBooked ==
    [][\A t \in Turns : paid' # paid /\ work'[t] # work[t] /\ now < call[t].expires =>
          Spent({Owner[t]}, Days)' - Spent({Owner[t]}, Days) = paid'[Owner[t]] - paid[Owner[t]]]_vars

\* Metering neither loses nor leaks: concurrent admissions fit every limit of the
\* budget, and a turn that ends leaves nothing reserved.
HoldsKept == HoldsWithinBudget /\ NothingStranded

\* A turn is refused exactly when the budget has no room for it, and a
\* completion that arrives in time is booked at its cost, whatever other turns
\* swept in between (admitTurn(), settle()).
BookedExactly == AdmissionExact /\ TimelyAnswersBooked

\* docs/DEPLOYMENT.md:154-155: "The web host records every OpenRouter DM
\* completion and nested NPC-agent completion in its account-bound SQLite
\* ledger." The code does not: a completion that streams past the time of its
\* reservation is refused by settle() once another turn has swept the row.
EveryCompletionBooked == \A a \in Accounts : Spent({a}, Days) = paid[a]

=============================================================================
