------------------------------ MODULE Chronicle -------------------------------
(***************************************************************************)
(* Game time and what hangs on it (src/engine-domain.ts): journeys, the     *)
(* project and rests advance the clock; the clock ends effects and summons, *)
(* spreads rumours and decides quests whose deadline has passed; quests pay *)
(* their rewards and open the one level-up. A command runs alone.           *)
(*                                                                         *)
(* There is one effect, one rumour, one summoned actor, one project, a set  *)
(* of flat quests ("errands") and one quest with a typed graph, the relic,  *)
(* whose branches give experience and an item. Weather, exhaustion, dice    *)
(* and the off-screen turns of the other characters are left out.           *)
(*                                                                         *)
(* An operator named X_Y is X with a deliberate fault: it is never part of  *)
(* the specification, and only shows that a property can fail.              *)
(***************************************************************************)
EXTENDS Naturals, FiniteSets

CONSTANTS
    Errands,
    Deadlines,                       \* bound: when a quest or an interruption falls due
    ShortRest, LongRest, Day,        \* SHORT_REST_MINUTES, LONG_REST_MINUTES, ONE_DAY_MINUTES
    Journey, FastJourney, Project,   \* reviewedTravelProfile(), resolveProject()
    RumorDelay, EffectTime,
    MaxHp, HitDice, Supplies,
    MaxTime, MaxStarts               \* bounds: the last tick, and what is set going

VARIABLES
    now,        \* time.gameTime.totalMinutes
    restType,   \* time.rest.restType
    lastRest,   \* time.rest.lastCompletedAtMinutes, or Never
    hp, dice, level,
    supplies,   \* rations and water, in journeys
    project,    \* time.projects
    tutorial,   \* tutorialStep; 2 once the campaign is a sandbox
    events,     \* time.scheduledEvents: kind, when due, and whether processed
    effect,     \* an effect of fixed duration: its status and its end
    rumor, summon,
    errands,    \* quests without a graph: status, deadline, rewardClaimed
    relic,      \* the graph quest: status and deadline
    item,       \* the relic's item is in the inventory
    burdened,   \* no further item fits
    claimed,    \* claimedRewards
    pending,    \* pendingAdvancement: its status, source and preview
    paid,       \* ghost: how often each reward was paid
    excused     \* ghost: quests made or reopened late, or refused by the relic's branch

vars == <<now, restType, lastRest, hp, dice, level, supplies, project, tutorial, events, effect, rumor,
          summon, errands, relic, item, burdened, claimed, pending, paid, excused>>

Never == MaxTime + 1
Branches == {"success", "expiration"}
Rewards == {<<e, "reward">> : e \in Errands} \cup {<<b, r>> : b \in Branches, r \in {"xp", "item"}}
Ends(status) == [status |-> status, until |-> 0]
FirstLight == "first-light"          \* the quest a campaign is made with
Quest == [status |-> "none", deadline |-> Never]

Init ==
    /\ now = 0 /\ restType = "none" /\ lastRest = Never
    /\ hp = MaxHp /\ dice = HitDice /\ level = 1
    /\ supplies = Supplies /\ project = "none" /\ tutorial = 0
    /\ events = {}
    /\ effect = Ends("none") /\ rumor = Ends("none") /\ summon = Ends("none")
    /\ errands = [e \in Errands |->
           [status |-> IF e = FirstLight THEN "active" ELSE "none", deadline |-> Never, claimed |-> FALSE]]
    /\ relic = Quest
    /\ item = FALSE /\ burdened = FALSE
    /\ claimed = {}
    /\ pending = [status |-> "none", source |-> "none", hp |-> 0, dice |-> 0]
    /\ paid = [r \in Rewards |-> 0]
    /\ excused = {}

-----------------------------------------------------------------------------
(* advanceGameTime()                                                        *)

Due(to) == {e \in events : ~e.done /\ e.at > now /\ e.at <= to}

Processed(to) == {IF e \in Due(to) THEN [e EXCEPT !.done = TRUE] ELSE e : e \in events}

\* An effect started when time passes keeps a full term.
Expired_Late(x, to) == IF x.status = "active" /\ x.until > now /\ x.until < to THEN [x EXCEPT !.status = "expired"] ELSE x

\* An effect ends when its term lies in the time that passes.
Expired(x, to) == IF x.status = "active" /\ x.until > now /\ x.until <= to THEN [x EXCEPT !.status = "expired"] ELSE x

Propagated(to) ==
    IF \E e \in Due(to) : e.kind = "rumor"
    THEN [rumor EXCEPT !.status = IF @ = "pending" THEN "propagated" ELSE @] ELSE rumor

\* A deadline reached exactly is missed.
Overdue_Strict(q, to) == q.status = "active" /\ q.deadline < to

Overdue(q, to) == q.status = "active" /\ q.deadline <= to

\* A claimed reward is paid again.
Unclaimed_All(rewards) == rewards

\* claim(): the rewards of a branch that were not claimed yet.
Unclaimed(rewards) == rewards \ claimed

RewardsOf(b) == {<<b, "xp">>, <<b, "item">>}
Pay(rewards) ==
    /\ claimed' = claimed \cup rewards
    /\ paid' = [r \in Rewards |-> IF r \in rewards THEN paid[r] + 1 ELSE paid[r]]

\* applyQuestTransitionState(): what the branch gives is put into the state
\* before the capacity check refuses it.
Given(b) == Unclaimed(RewardsOf(b))
Refused(b) == item \/ (burdened /\ <<b, "item">> \in Given(b))

\* The relic's deadline: its expiration branch, whose refusal is dropped with
\* the rewards already in the state.
RelicDeadline(to) ==
    IF ~Overdue(relic, to) THEN UNCHANGED <<relic, item, claimed, paid>>
    ELSE IF item THEN UNCHANGED <<relic, item, claimed, paid>>
    ELSE /\ Pay(Given("expiration"))
         /\ item' = (<<"expiration", "item">> \in Given("expiration"))
         /\ relic' = IF Refused("expiration") THEN relic ELSE [relic EXCEPT !.status = "expired"]

\* Time passes for everything but what a rest restores.
Pass(minutes) ==
    LET to == now + minutes
    IN  /\ to <= MaxTime
        /\ now' = to
        /\ events' = Processed(to)
        /\ rumor' = Propagated(to)
        /\ summon' = IF summon.status = "active" /\ summon.until <= to THEN [summon EXCEPT !.status = "expired"] ELSE summon
        /\ errands' = [e \in Errands |->
               IF Overdue(errands[e], to) THEN [errands[e] EXCEPT !.status = "failed"] ELSE errands[e]]
        /\ RelicDeadline(to)
        /\ excused' = excused \cup (IF Overdue(relic, to) /\ Refused("expiration") THEN {"relic"} ELSE {})

-----------------------------------------------------------------------------
(* Commands that take time                                                  *)

\* resolveTravel(): a journey consumes one ration and one water.
Travel ==
    /\ supplies > 0
    /\ supplies' = supplies - 1
    /\ \E minutes \in {Journey, FastJourney} :
        /\ Pass(minutes)
        /\ effect' = Expired(effect, now + minutes)
    /\ UNCHANGED <<tutorial, restType, lastRest, hp, dice, level, project, burdened, pending>>

\* resolveProject()
StartProject ==
    /\ project = "none"
    /\ project' = "active"
    /\ UNCHANGED <<tutorial, now, restType, lastRest, hp, dice, level, supplies, events, effect, rumor,
                   summon, errands, relic, item, burdened, claimed, pending, paid, excused>>

WorkOnProject ==
    /\ project = "active"
    /\ project' = "completed"
    /\ Pass(Project)
    /\ effect' = Expired(effect, now + Project)
    /\ UNCHANGED <<tutorial, restType, lastRest, hp, dice, level, supplies, burdened, pending>>

\* The guards of resolveRest(): a long rest looks at the type of the last rest.
RestAllowed(type) ==
    /\ lastRest # Never /\ type = "long" /\ restType = "long" => now - lastRest >= Day
    /\ lastRest # Never /\ type = "short" => now - lastRest >= ShortRest

Interrupted(to) == \E e \in Due(to) : e.kind = "interruption"

\* resolveRest() that an interruption ends: time has passed, nothing recovers.
InterruptedRest(type, minutes) ==
    /\ RestAllowed(type)
    /\ Interrupted(now + minutes)
    /\ Pass(minutes)
    /\ effect' = Expired(effect, now + minutes)
    /\ restType' = type
    /\ UNCHANGED <<tutorial, lastRest, hp, dice, level, supplies, project, burdened, pending>>

\* resolveRest(): a hit die, or everything.
ShortRests ==
    /\ RestAllowed("short")
    /\ ~Interrupted(now + ShortRest)
    /\ dice > 0
    /\ Pass(ShortRest)
    /\ effect' = Expired(effect, now + ShortRest)
    /\ hp' \in hp..MaxHp + level - 1
    /\ dice' = dice - 1
    /\ restType' = "short"
    /\ lastRest' = now'
    /\ UNCHANGED <<tutorial, level, supplies, project, burdened, pending>>

\* Hit dice come back without end.
Recovered_Unbounded == dice + 1

Recovered == IF dice < level THEN dice + 1 ELSE level

LongRests ==
    /\ RestAllowed("long")
    /\ ~Interrupted(now + LongRest)
    /\ Pass(LongRest)
    /\ effect' = LET x == Expired(effect, now + LongRest)
                 IN  IF x.status = "active" THEN [x EXCEPT !.status = "removed"] ELSE x
    /\ hp' = MaxHp + level - 1
    /\ dice' = Recovered
    /\ restType' = "long"
    /\ lastRest' = now'
    /\ UNCHANGED <<tutorial, level, supplies, project, burdened, pending>>

-----------------------------------------------------------------------------
(* What is set going                                                        *)

\* Bound: so many things are set going in all.
Started ==
    Cardinality({e \in Errands \ {FirstLight} : errands[e].status # "none"})
    + (IF relic.status = "none" THEN 0 ELSE 1) + (IF rumor.status = "none" THEN 0 ELSE 1)
    + (IF project = "none" THEN 0 ELSE 1) + (IF summon.status = "none" THEN 0 ELSE 1) + (IF effect.status = "none" THEN 0 ELSE 1)
    + Cardinality({e \in events : e.kind = "interruption"})

Schedule(kind, at) == events' = events \cup {[kind |-> kind, at |-> at, done |-> FALSE]}

\* scheduleSocialRumor()
StartRumor ==
    /\ rumor.status = "none"
    /\ now + RumorDelay <= MaxTime
    /\ rumor' = [status |-> "pending", until |-> now + RumorDelay]
    /\ Schedule("rumor", now + RumorDelay)
    /\ UNCHANGED <<tutorial, now, restType, lastRest, hp, dice, level, supplies, project, effect, summon,
                   errands, relic, item, burdened, claimed, pending, paid, excused>>

\* withGameTimeStart(): an effect of fixed duration, of a spell.
StartEffect ==
    /\ effect.status # "active"
    /\ now + EffectTime <= MaxTime
    /\ effect' = [status |-> "active", until |-> now + EffectTime]
    /\ UNCHANGED <<tutorial, now, restType, lastRest, hp, dice, level, supplies, project, events, rumor, summon,
                   errands, relic, item, burdened, claimed, pending, paid, excused>>

\* resolveControlledActorCreate(): a summoned actor with a term.
Summon ==
    /\ summon.status = "none"
    /\ now + EffectTime <= MaxTime
    /\ summon' = [status |-> "active", until |-> now + EffectTime]
    /\ Schedule("summon", now + EffectTime)
    /\ UNCHANGED <<tutorial, now, restType, lastRest, hp, dice, level, supplies, project, effect, rumor,
                   errands, relic, item, burdened, claimed, pending, paid, excused>>

\* A stored campaign may hold an interruption; no command schedules one.
LoadInterruption(at) ==
    /\ now = 0 /\ events = {}
    /\ at > 0
    /\ Schedule("interruption", at)
    /\ UNCHANGED <<tutorial, now, restType, lastRest, hp, dice, level, supplies, project, effect, rumor, summon,
                   errands, relic, item, burdened, claimed, pending, paid, excused>>

\* Fights and falls, and what the hero picks up or lays down.
Wound ==
    /\ hp > 1
    /\ hp' = hp - 1
    /\ UNCHANGED <<tutorial, now, restType, lastRest, dice, level, supplies, project, events, effect, rumor, summon,
                   errands, relic, item, burdened, claimed, pending, paid, excused>>

Carry ==
    /\ \/ burdened' = ~burdened /\ item' = item
       \/ item /\ item' = FALSE /\ burdened' = burdened
    /\ UNCHANGED <<tutorial, now, restType, lastRest, hp, dice, level, supplies, project, events, effect, rumor, summon,
                   errands, relic, claimed, pending, paid, excused>>

-----------------------------------------------------------------------------
(* Quests                                                                   *)

\* resolveQuestCreate(): a deadline may be any time, a past one, too.
QuestCreate(q, deadline) ==
    /\ IF q = "relic" THEN relic.status = "none" ELSE errands[q].status = "none"
    /\ relic' = IF q = "relic" THEN [status |-> "active", deadline |-> deadline] ELSE relic
    /\ errands' = [e \in Errands |->
           IF e = q THEN [status |-> "active", deadline |-> deadline, claimed |-> FALSE] ELSE errands[e]]
    /\ IF deadline = Never THEN UNCHANGED events ELSE Schedule(q, deadline)
    /\ excused' = IF deadline <= now THEN excused \cup {q} ELSE excused
    /\ UNCHANGED <<tutorial, now, restType, lastRest, hp, dice, level, supplies, project, effect, rumor, summon,
                   item, burdened, claimed, pending, paid>>

\* resolveQuestTransition(): the branch's predicates, then its rewards, or a
\* rejection that changes nothing.
QuestTransition(b) ==
    /\ relic.status = "active"
    /\ b = "success" => now <= relic.deadline
    /\ b = "expiration" => now >= relic.deadline \/ relic.deadline = Never
    /\ ~Refused(b)
    /\ Pay(Given(b))
    /\ item' = (item \/ <<b, "item">> \in Given(b))
    /\ relic' = [relic EXCEPT !.status = IF b = "success" THEN "completed" ELSE "expired"]
    /\ UNCHANGED <<tutorial, now, restType, lastRest, hp, dice, level, supplies, project, events, effect, rumor, summon,
                   errands, burdened, pending, excused>>

\* The second resolveTutorialAdvance() opens the sandbox and writes the first
\* quest anew, whatever had become of it.
TutorialAdvance ==
    /\ tutorial < 2
    /\ tutorial' = tutorial + 1
    /\ errands' = IF tutorial = 0 THEN errands
                  ELSE [errands EXCEPT ![FirstLight].status = "active", ![FirstLight].claimed = FALSE]
    /\ excused' = IF tutorial = 1 /\ errands[FirstLight].claimed THEN excused \cup {FirstLight} ELSE excused
    /\ UNCHANGED <<now, restType, lastRest, hp, dice, level, supplies, project, events, effect, rumor, summon,
                   relic, item, burdened, claimed, pending, paid>>

\* buildAdvancementPreview() and openPendingAdvancement()
Opened(source) ==
    IF level = 1 /\ pending.status # "pending" /\ pending.source # source
    THEN [status |-> "pending", source |-> source, hp |-> hp, dice |-> dice] ELSE pending

RewardDue(e, status) == status = "completed" /\ ~errands[e].claimed

\* resolveQuestUpdate(): a flat quest takes any status, again and again.
QuestUpdate(e, status) ==
    /\ errands[e].status # "none"
    /\ errands' = [errands EXCEPT ![e].status = status, ![e].claimed = @ \/ status = "completed"]
    /\ IF RewardDue(e, status)
       THEN Pay({<<e, "reward">>}) /\ pending' = Opened(e)
       ELSE UNCHANGED <<claimed, paid, pending>>
    /\ excused' = IF status = "active" /\ errands[e].deadline <= now THEN excused \cup {e} ELSE excused
    /\ UNCHANGED <<tutorial, now, restType, lastRest, hp, dice, level, supplies, project, events, effect, rumor, summon,
                   relic, item, burdened>>

\* resolveLoot() that names a quest.
LootForQuest(e) ==
    /\ errands[e].status # "none"
    /\ ~burdened
    /\ errands' = [errands EXCEPT ![e].status = "completed", ![e].claimed = TRUE]
    /\ IF ~errands[e].claimed /\ <<e, "reward">> \notin claimed
       THEN Pay({<<e, "reward">>}) /\ pending' = Opened(e)
       ELSE UNCHANGED <<claimed, paid, pending>>
    /\ UNCHANGED <<tutorial, now, restType, lastRest, hp, dice, level, supplies, project, events, effect, rumor, summon,
                   relic, item, burdened, excused>>

\* The preview is not compared with the character again.
Fresh_Unchecked == TRUE

\* The character is the one the preview was made of.
Fresh == pending.hp = hp /\ pending.dice = dice

\* resolveAdvancementConfirm()
AdvancementConfirm ==
    /\ pending.status = "pending"
    /\ level = 1
    /\ Fresh
    /\ pending' = [pending EXCEPT !.status = "consumed"]
    /\ level' = 2
    /\ hp' = hp + 1
    /\ dice' = IF dice < 2 THEN dice + 1 ELSE 2
    /\ UNCHANGED <<tutorial, now, restType, lastRest, supplies, project, events, effect, rumor, summon,
                   errands, relic, item, burdened, claimed, paid, excused>>

SetGoing ==
    /\ Started < MaxStarts
    /\ \/ StartRumor \/ StartEffect \/ Summon \/ StartProject
       \/ \E at \in Deadlines : LoadInterruption(at)
       \/ \E q \in Errands \cup {"relic"}, d \in Deadlines \cup {Never} : QuestCreate(q, d)

TimePasses ==
    \/ Travel \/ WorkOnProject \/ ShortRests \/ LongRests
    \/ InterruptedRest("short", ShortRest) \/ InterruptedRest("long", LongRest)

Quests ==
    \/ \E b \in Branches : QuestTransition(b)
    \/ \E e \in Errands : LootForQuest(e) \/ \E s \in {"active", "completed", "failed"} : QuestUpdate(e, s)
    \/ TutorialAdvance \/ AdvancementConfirm

Next ==
    \/ TimePasses \/ Quests \/ SetGoing
    \/ Wound \/ Carry

Spec == Init /\ [][Next]_vars

-----------------------------------------------------------------------------
TypeOK ==
    /\ now \in 0..MaxTime
    /\ hp \in 1..MaxHp + level - 1 /\ level \in 1..2 /\ dice \in 0..2
    /\ lastRest \in 0..now \cup {Never}
    /\ claimed \subseteq Rewards
    /\ \A e \in Errands : errands[e].status \in {"none", "active", "completed", "failed"}
    /\ relic.status \in {"none", "active", "completed", "expired"}

\* Nothing outlives its term: whatever command let the time pass, an effect,
\* a summoned actor and a rumour due by now have ended or spread.
NothingOverdue ==
    /\ effect.status = "active" => effect.until > now
    /\ summon.status = "active" => summon.until > now
    /\ rumor.status = "pending" => rumor.until > now

\* No reward is paid twice: not for a quest completed again, by loot after an
\* update, nor when a deadline repeats a branch that was refused.
\* A first quest completed during the tutorial is the exception.
PaidOnce == \A r \in Rewards : paid[r] <= IF r = <<FirstLight, "reward">> /\ FirstLight \in excused THEN 2 ELSE 1

\* Every reward is paid exactly once.
RewardsExactlyOnce == \A r \in Rewards : paid[r] <= 1

\* A quest is decided when its deadline passes, unless it was made or reopened
\* after its deadline or the inventory refused the relic's branch.
DeadlineDecides ==
    /\ relic.status = "active" /\ relic.deadline <= now => "relic" \in excused
    /\ \A e \in Errands : errands[e].status = "active" /\ errands[e].deadline <= now => e \in excused

\* The level-up that is confirmed is the one the player was shown: nothing
\* that happened since the preview slips into it.
LeveledAsShown ==
    level' # level => hp' = pending.hp + 1 /\ dice' = IF pending.dice < 2 THEN pending.dice + 1 ELSE 2

=============================================================================
