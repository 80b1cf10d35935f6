------------------------------ MODULE NpcAgency ------------------------------
(***************************************************************************)
(* The off-screen life of one NPC: its ticks (prepareNpcAgencyChoice() and   *)
(* resolveNpcTick() of src/engine-domain.ts), what establishes, patches and  *)
(* removes it, and the time that runs a tick of its own.                     *)
(*                                                                         *)
(* How a tick asks the provider, and asks it once, is module EngineCommands; *)
(* here the answer is one of the finite offers, or a failure. A day has two   *)
(* halves and the schedule a place for each. The window of 100 triggers and   *)
(* of 100 reported crimes is Kept.                                           *)
(*                                                                         *)
(* An operator named X_Y is X with a deliberate fault: it is never part of   *)
(* the specification, and only shows that a property can fail.               *)
(***************************************************************************)
EXTENDS Naturals, Sequences, SequencesExt

CONSTANTS
    Triggers,        \* the trigger ids a client may name
    Kept,            \* how many triggers and reported crimes an agency keeps
    MaxFailures,     \* NPC_AGENCY_CONFIG.maxConsecutiveFailures
    MaxInvocations,  \* NPC_AGENCY_CONFIG.maxInvocationsPerDay
    MaxTime,         \* bound: half days
    MaxCrimes        \* bound: crimes the NPC witnesses

VARIABLES
    now,       \* time.gameTime, in half days
    npc,       \* the NPC's agency, or None when it is not in the world
    custody,   \* npc.custody
    crimes,    \* how many proven crimes it has witnessed
    ticks,     \* ghost: what its ticks did since it was established, oldest first
    removals   \* ghost: it has been removed once

vars == <<now, npc, custody, crimes, ticks, removals>>

None == [in |-> FALSE]
Offers == {"move", "report", "rest", "trade", "no_op"}
Time == "time"
Failure == "failure"
Nothing == 0

Day(t) == t \div 2
Post(half) == IF half = 0 THEN "market" ELSE "home"

\* normalizeNpcAgency() of a first patch
Established(hp, points) ==
    [in |-> TRUE, place |-> "home", hp |-> hp, points |-> points, goods |-> 1, triggers |-> <<>>,
     reported |-> <<>>, failures |-> 0, open |-> FALSE, day |-> 1, today |-> 0]

Init ==
    /\ now = 0
    /\ npc \in {Established(hp, points) : hp \in 0..1, points \in 0..2}
    /\ custody = FALSE /\ crimes = 0
    /\ ticks = <<>> /\ removals = FALSE

-----------------------------------------------------------------------------
(* npcLegalOffers()                                                         *)

\* Every crime witnessed may be reported, again and again.
Unreported_All == 1..crimes

Unreported == {c \in 1..crimes : ~Contains(npc.reported, c)}

HeldGoods == npc.goods > 0

\* Moving and reporting cost an action point, and are offered without one.
Legal(t) ==
    {"no_op"} \cup {o \in {"move"} : npc.place # Post(t % 2)}
              \cup {o \in {"report"} : Unreported # {}}
              \cup {o \in {"rest"} : npc.hp < 2 /\ npc.points > 0}
              \cup {o \in {"trade"} : HeldGoods /\ npc.points > 0}

Order == <<"move", "report", "rest", "trade", "no_op">>
First(t) == SelectSeq(Order, LAMBDA o : o \in Legal(t))[1]

-----------------------------------------------------------------------------
(* resolveNpcTick()                                                         *)

InvocationsToday(t) == IF npc.day = Day(t) THEN npc.today ELSE 0

\* One tick over the budget is let through.
Affordable_OneMore(t) == InvocationsToday(t) <= MaxInvocations

Affordable(t) == InvocationsToday(t) < MaxInvocations

\* An open circuit stops only the provider.
Closed_ForTime(trigger) == ~npc.open \/ trigger = Time

Closed(trigger) == ~npc.open

\* A trigger is refused only directly after itself.
New_NotLast(trigger) ==
    IF trigger = Time \/ npc.triggers = <<>> THEN TRUE
    ELSE npc.triggers[Len(npc.triggers)] # trigger

\* The trigger of a time boundary is named after its command, so it is new.
New(trigger) == trigger = Time \/ ~Contains(npc.triggers, trigger)

Ready(trigger, t) ==
    /\ npc.in /\ ~custody
    /\ New(trigger) /\ Closed(trigger) /\ Affordable(t)
    /\ npc.hp > 0

Window(seq) == IF Len(seq) > Kept THEN Tail(seq) ELSE seq

Spent == IF npc.points = 0 THEN 0 ELSE npc.points - 1

Did(offer, crime, t) ==
    CASE offer = "move" -> [npc EXCEPT !.place = Post(t % 2), !.points = Spent]
      [] offer = "report" -> [npc EXCEPT !.reported = Window(Append(@, crime)), !.points = Spent]
      [] offer = "rest" -> [npc EXCEPT !.hp = @ + 1, !.points = Spent]
      [] offer = "trade" -> [npc EXCEPT !.goods = @ - 1, !.points = Spent]
      [] OTHER -> npc

Failures(failed) == IF failed THEN npc.failures + 1 ELSE 0

Invoked(agency, trigger, failed, t) ==
    [agency EXCEPT !.triggers = Window(Append(@, trigger)), !.failures = Failures(failed),
                   !.open = Failures(failed) >= MaxFailures, !.day = Day(t), !.today = InvocationsToday(t) + 1]

\* The least crime not reported is the first the search finds.
Reportable(offer) ==
    IF offer = "report" THEN CHOOSE c \in Unreported : \A d \in Unreported : c <= d ELSE Nothing

Act(trigger, offer, failed, t) ==
    /\ npc' = Invoked(Did(offer, Reportable(offer), t), trigger, failed, t)
    /\ ticks' = Append(ticks, [trigger |-> trigger, crime |-> Reportable(offer), failed |-> failed, day |-> Day(t)])

\* The client's tick without a provider names an offer, or takes the first.
DeterministicTick(trigger) ==
    /\ Ready(trigger, now)
    /\ \E offer \in Legal(now) : Act(trigger, offer, FALSE, now)
    /\ UNCHANGED <<now, custody, crimes, removals>>

\* The provider's choice, revalidated, or the first offer when it fails.
ProviderTick(trigger) ==
    /\ Ready(trigger, now)
    /\ \/ \E offer \in Legal(now) : Act(trigger, offer, FALSE, now)
       \/ Act(trigger, First(now), TRUE, now)
    /\ UNCHANGED <<now, custody, crimes, removals>>

-----------------------------------------------------------------------------
(* What else happens to the NPC                                             *)

\* advanceGameTime() in the commands that run no tick.
PassTime ==
    /\ now < MaxTime
    /\ now' = now + 1
    /\ UNCHANGED <<npc, custody, crimes, ticks, removals>>

\* Travel and rests: advanceGameTime(), then applyNpcTimeBoundary() at the new
\* time. A tick that is refused is left out, and the command goes on.
RestOrTravel ==
    /\ now < MaxTime
    /\ now' = now + 1
    /\ IF Ready(Time, now + 1) THEN Act(Time, First(now + 1), FALSE, now + 1) ELSE UNCHANGED <<npc, ticks>>
    /\ UNCHANGED <<custody, crimes, removals>>

\* A theft or a breach that the hero commits before its eyes (module Market).
Witness ==
    /\ npc.in /\ crimes < MaxCrimes
    /\ crimes' = crimes + 1
    /\ UNCHANGED <<now, npc, custody, ticks, removals>>

Detain ==
    /\ npc.in /\ custody' = ~custody
    /\ UNCHANGED <<now, npc, crimes, ticks, removals>>

Merged(place) == [npc EXCEPT !.place = place]

Patch(place) ==
    /\ npc.in /\ npc' = Merged(place)
    /\ UNCHANGED <<now, custody, crimes, ticks, removals>>

\* applyNpcPatch() with "remove", and an upsert of the same id later.
Vanish ==
    /\ npc.in /\ ~removals
    /\ npc' = None /\ custody' = FALSE /\ ticks' = <<>> /\ removals' = TRUE
    /\ UNCHANGED <<now, crimes>>

Establish ==
    /\ ~npc.in
    /\ npc' = Established(1, 1)
    /\ UNCHANGED <<now, custody, crimes, ticks, removals>>

Next ==
    \/ \E t \in Triggers : DeterministicTick(t) \/ ProviderTick(t)
    \/ PassTime \/ RestOrTravel
    \/ Witness \/ Detain
    \/ \E place \in {"market", "home", "abroad"} : Patch(place)
    \/ Vanish \/ Establish

Spec == Init /\ [][Next]_vars

-----------------------------------------------------------------------------
(* Properties                                                               *)

Agencies ==
    [in : {TRUE}, place : {"market", "home", "abroad"}, hp : 0..2, points : 0..2, goods : 0..1,
     triggers : Seq(Triggers \cup {Time}), reported : Seq(1..MaxCrimes),
     failures : 0..MaxFailures, open : BOOLEAN, day : Nat, today : 0..MaxInvocations]

TypeOK ==
    /\ npc \in Agencies \cup {None}
    /\ now \in 0..MaxTime /\ crimes \in 0..MaxCrimes
    /\ custody \in BOOLEAN /\ removals \in BOOLEAN

\* No trigger acts twice on an NPC, short of Kept other ticks in between
\* (npc_trigger_replayed).
ActsOnce ==
    \A i, j \in DOMAIN ticks :
        i < j /\ j - i <= Kept /\ ticks[i].trigger # Time => ticks[i].trigger # ticks[j].trigger

\* An NPC never takes more ticks on one day than its budget, whoever asks for
\* them and whatever patches it in between (npc_invocation_budget_exhausted).
WithinBudget ==
    \A i \in DOMAIN ticks : Len(SelectSeq(ticks, LAMBDA t : t.day = ticks[i].day)) <= MaxInvocations

\* A crime is reported once by each witness, unless Kept others came between.
ReportedOnce ==
    \A i, j \in DOMAIN ticks : i < j /\ ticks[i].crime # Nothing => ticks[i].crime # ticks[j].crime

\* After MaxFailures failures of the provider in a row nothing more is done, for
\* good, and nothing is refused for fewer (npc_circuit_open).
CircuitJustified ==
    npc.in => (npc.open <=> \E i \in 0..(Len(ticks) - MaxFailures) :
                              \A j \in (i + 1)..(i + MaxFailures) : ticks[j].failed)
=============================================================================
