---------------------------- MODULE BossEncounter ----------------------------
(***************************************************************************)
(* A fight of the player character against the reviewed boss, lifecycle     *)
(* profile adult-black-dragon-boss-v1 (src/engine-domain.ts): initiative of *)
(* two, the hero's action economy, the boss's turns, its legendary and lair *)
(* action windows, the reaction offered to a hit, death saves and surrender;*)
(* and what hit points, damage, healing and death saves do to the life of   *)
(* the hero.                                                               *)
(* An action is one command of the engine, handler and commit.              *)
(*                                                                         *)
(* Every request loads the campaign from its row, and the load checks the   *)
(* fight (normalizeCombat()). A fight that fails the check is quarantined:  *)
(* ended, without lifecycle or loot. A command therefore only meets a fight *)
(* that is Restorable.                                                      *)
(*                                                                         *)
(* Dice are choices; hit points are small numbers. Positions, companions,   *)
(* items and every condition but those of the hero's life are left out, and *)
(* with them a turn skipped by a condition. A window's UUID is only ever    *)
(* compared with itself: lastConsumedWindowId names the window exactly when *)
(* its legendary part was used.                                             *)
(*                                                                         *)
(* An operator named X_Y is X with a deliberate fault: it is never part of  *)
(* the specification, and only shows that a property can fail.              *)
(***************************************************************************)
EXTENDS Naturals, SequencesExt

CONSTANTS
    MaxHp,     \* character.maxHp
    BossHp,    \* hit points of the boss
    Slots,     \* spell slots of the hero
    MaxRound   \* bound: the last round

ASSUME LifeAssumption == MaxHp \in Nat \ {0}

ASSUME EncounterAssumption == {BossHp, MaxRound} \subseteq Nat \ {0} /\ Slots \in Nat

-----------------------------------------------------------------------------
(* The life of the character: one record. Each operator gives the record    *)
(* after a primitive of the engine, or the set of records its dice may lead *)
(* to. The runtime conditions unconscious, stable and dead follow           *)
(* lifecycleState and are not kept apart from it.                           *)

LifeStates == {"conscious", "dying", "stable", "dead"}

\* hp, lifecycleState, deathSaveSuccesses, deathSaveFailures, and whether the
\* character concentrates on a spell.
Lives == [hp : 0..MaxHp, life : LifeStates, saves : 0..3, failures : 0..3, concentrates : BOOLEAN]

Fresh(hp) == [hp |-> hp, life |-> "conscious", saves |-> 0, failures |-> 0, concentrates |-> FALSE]

Capped(n, limit) == IF n > limit THEN limit ELSE n

\* transitionActorToDead(): the body goes, the counters stay.
Dead(h) == [h EXCEPT !.hp = 0, !.life = "dead"]

\* Damage of n that leaves hit points: a concentration save.
Wounded(h, n) ==
    {[h EXCEPT !.hp = @ - n, !.concentrates = kept] : kept \in IF n = 0 THEN {h.concentrates} ELSE {h.concentrates, FALSE}}

\* Damage that takes the last hit point ends concentration, too.
Downed(h) == [h EXCEPT !.hp = 0, !.life = "dying", !.concentrates = FALSE]

\* A hit at 0 hit points does not touch a stable character's successes.
Struck_KeepsSaves(h, critical) ==
    LET hit == [h EXCEPT !.life = "dying", !.failures = Capped(@ + (IF critical THEN 2 ELSE 1), 3)]
    IN  IF hit.failures = 3 THEN Dead(hit) ELSE hit

\* Damage at 0 hit points: one failed save, two of a critical hit, and a
\* stable character is dying again.
Struck(h, critical) ==
    LET hit == [h EXCEPT !.life = "dying", !.saves = 0, !.failures = Capped(@ + (IF critical THEN 2 ELSE 1), 3)]
    IN  IF hit.failures = 3 THEN Dead(hit) ELSE hit

\* applyCharacterDamage() with applyConcentrationAndDownedState().
Damaged(h, n, critical) ==
    IF h.life = "dead" THEN {h}
    ELSE IF h.hp > n THEN Wounded(h, n)
    ELSE IF h.hp > 0 THEN {Downed(h)}
    ELSE {IF n = 0 THEN h ELSE Struck(h, critical)}

\* applyHealing()
Healed(h, n) ==
    IF h.life = "dead" \/ n = 0 \/ h.hp = MaxHp THEN h
    ELSE [h EXCEPT !.hp = Capped(@ + n, MaxHp), !.life = "conscious", !.saves = 0, !.failures = 0]

\* resolveDeathSave() without its effect on the fight: a natural 20, a natural
\* 1, a success and a failure, and what three of a kind lead to.
Concluded(h) ==
    IF h.life = "conscious" THEN h
    ELSE IF h.saves >= 3 THEN [h EXCEPT !.life = "stable"]
    ELSE IF h.failures >= 3 THEN Dead(h)
    ELSE h

DeathSaves(h) ==
    {Concluded(r) : r \in {Healed(h, 1),
                           [h EXCEPT !.failures = Capped(@ + 2, 3)],
                           [h EXCEPT !.saves = @ + 1],
                           [h EXCEPT !.failures = @ + 1]}}

\* What every reader of the record relies on, the load check
\* (normalizeLifecycleConsistency()) first: hit points, state and counters
\* agree, nobody dies or stabilizes by a counter that the next save would
\* skip, and nobody at 0 hit points concentrates.
LifeOK(h) ==
    /\ h \in Lives
    /\ h.life = "conscious" <=> h.hp > 0
    /\ h.life = "conscious" => h.saves = 0 /\ h.failures = 0
    /\ h.life = "dying" => h.saves < 3 /\ h.failures < 3
    /\ h.life = "stable" => h.saves = 3 /\ h.failures < 3
    /\ h.life = "dead" => h.failures = 3
    /\ h.hp = 0 => ~h.concentrates

-----------------------------------------------------------------------------
(* The fight.                                                               *)

Points == 3    \* legendary.maximum
None == "none"

VARIABLES
    initiative,  \* who goes first, and lair.initiative.orderIndex
    turn,        \* status, activeActorId, round, outcome, and what lastAction is
    timing,      \* the boss timing: points, cycle, lair, windows
    reaction,    \* the resumeMode of pendingReaction
    hero,        \* the life of the character
    kit,         \* slots, Second Wind, and what this turn has spent
    bossHp

vars == <<initiative, turn, timing, reaction, hero, kit, bossHp>>

NoWindow == [trigger |-> None, resume |-> None, queue |-> <<>>, tail |-> None]
Window(trigger, resume, queue, tail) == [trigger |-> trigger, resume |-> resume, queue |-> queue, tail |-> tail]

FreshBudget == [action |-> FALSE, bonus |-> FALSE, reaction |-> FALSE]

\* resolveCombatStart() with compileReviewedBossTiming(): a lair window opens
\* before the first turn when nobody beat an initiative of 20.
Init ==
    /\ initiative \in [first : {"hero", "boss"}, boundary : 0..2]
    /\ turn = [status |-> "active", active |-> initiative.first, round |-> 1, outcome |-> None, last |-> None]
    /\ timing = [points |-> Points, cycle |-> 1, lair |-> TRUE, lairUsed |-> 0, completed |-> NoWindow,
                 window |-> IF initiative.boundary = 0
                            THEN Window(None, initiative.first, <<"lair">>, "not-offered")
                            ELSE NoWindow]
    /\ reaction = None
    /\ \E hp \in 1..MaxHp : hero = Fresh(hp)
    /\ kit = [slots |-> Slots, wind |-> TRUE, spent |-> FreshBudget, bossReacted |-> FALSE]
    /\ bossHp = BossHp

-----------------------------------------------------------------------------
(* Initiative and windows                                                   *)

Index(actor) == IF actor = initiative.first THEN 0 ELSE 1
Other(actor) == IF actor = "hero" THEN "boss" ELSE "hero"

Wraps(trigger, resume) == Index(resume) <= Index(trigger)

\* Does initiative count 20 lie between the two?
Crosses(trigger, resume) == initiative.boundary \in (IF Wraps(trigger, resume) THEN {0, 2} ELSE {1})

\* The tail is offered after the boss's own turn, too.
TailOffered_OwnTurn(t, trigger) == t.points >= 1

TailOffered(t, trigger) == trigger # "boss" /\ t.points >= 1

\* The points of the last round are added to the new ones.
Refreshed_Adds(t, resume) == IF resume = "boss" THEN [t EXCEPT !.points = @ + Points] ELSE t

\* The legendary points come back when the boss's turn begins.
Refreshed(t, resume) == IF resume = "boss" THEN [t EXCEPT !.points = Points] ELSE t

\* prepareReviewedBossTransition() of a boss with hp hit points.
Transition(t, trigger, resume, hp) ==
    LET wraps == Wraps(trigger, resume)
        started == [t EXCEPT !.completed = NoWindow, !.window = NoWindow, !.lair = @ \/ wraps,
                             !.cycle = IF wraps THEN @ + 1 ELSE @]
        tail == TailOffered(t, trigger)
        queue == (IF tail THEN <<"legendary">> ELSE <<>>)
                   \o (IF Crosses(trigger, resume) /\ started.lair THEN <<"lair">> ELSE <<>>)
    IN  IF hp = 0 \/ queue = <<>> THEN Refreshed(started, resume)
        ELSE [started EXCEPT !.window = Window(trigger, resume, queue, IF tail THEN "pending" ELSE "not-offered")]

\* A window that closes forgets to give the points back.
Completed_NoRefresh(t) ==
    LET kind == Head(t.window.queue)
        rest == Tail(t.window.queue)
        spent == IF kind = "lair" THEN [t EXCEPT !.lair = FALSE, !.lairUsed = t.cycle] ELSE t
    IN  IF rest # <<>> \/ t.window.tail = "pending" THEN [spent EXCEPT !.window.queue = rest]
        ELSE [spent EXCEPT !.completed = t.window, !.window = NoWindow]

\* completeReviewedBossWindow(): the head of the queue is done, and with the
\* last one the window is.
Completed(t) ==
    LET kind == Head(t.window.queue)
        rest == Tail(t.window.queue)
        spent == IF kind = "lair" THEN [t EXCEPT !.lair = FALSE, !.lairUsed = t.cycle] ELSE t
    IN  IF rest # <<>> \/ t.window.tail = "pending" THEN [spent EXCEPT !.window.queue = rest]
        ELSE Refreshed([spent EXCEPT !.completed = [t.window EXCEPT !.queue = <<>>], !.window = NoWindow], t.window.resume)

\* The fight ends under an open window.
Closed_KeepsWindow(t) == [t EXCEPT !.completed = NoWindow]

\* Every end of the fight closes both windows.
Closed(t) == [t EXCEPT !.window = NoWindow, !.completed = NoWindow]

\* The end of the fight by a handler; last is what it leaves in lastAction.
Over(t, outcome, last) ==
    /\ turn' = [turn EXCEPT !.status = "ended", !.active = None, !.outcome = outcome, !.last = last]
    /\ timing' = Closed(t)

\* The next live combatant of the order after the hero, who is never left out.
NextAfterHero(hp) == IF hp > 0 THEN "boss" ELSE "hero"

\* The hero's turn passes without opening the boss's window.
HandOff_NoWindow(hp, last) ==
    /\ turn' = [turn EXCEPT !.active = NextAfterHero(hp), !.last = last]
    /\ UNCHANGED timing

\* handoffPlayerInitiative()
HandOff(hp, last) ==
    /\ turn' = [turn EXCEPT !.active = NextAfterHero(hp), !.last = last]
    /\ timing' = Transition(timing, "hero", NextAfterHero(hp), hp)

-----------------------------------------------------------------------------
(* The load check                                                           *)

\* The window the fight waits in agrees with initiative, lair and points
\* (normalizeBossTiming()).
WindowFits(w) ==
    LET crosses == Crosses(w.trigger, w.resume) /\ timing.lair
        wraps == Wraps(w.trigger, w.resume)
        tailQueued == Contains(w.queue, "legendary")
    IN  /\ turn.status = "active" /\ turn.outcome = None
        /\ w.resume = turn.active
        /\ w.queue \in {<<"legendary">>, <<"lair">>, <<"legendary", "lair">>}
        /\ \/ /\ w.trigger = None
              /\ w.resume = initiative.first /\ initiative.boundary = 0
              /\ timing.cycle = 1 /\ timing.lairUsed = 0 /\ timing.points = Points
              /\ w.tail = "not-offered" /\ w.queue = <<"lair">>
           \/ /\ w.trigger = Other(w.resume)
              /\ wraps => timing.cycle >= 2 /\ timing.cycle = turn.round
              /\ Contains(w.queue, "lair") <=> crosses
              /\ \/ w.tail = "pending" /\ tailQueued /\ w.trigger # "boss" /\ timing.points >= 1
                 \/ w.tail = "used" /\ w.trigger # "boss" /\ timing.points <= 2
                 \/ w.tail = "passed" /\ ~tailQueued /\ w.trigger # "boss" /\ timing.points >= 1
                 \/ w.tail = "not-offered" /\ ~tailQueued /\ (w.trigger = "boss" \/ timing.points = 0)

\* The window that was completed last leads to the turn that is on.
CompletedFits(w) ==
    /\ turn.status = "active" /\ turn.outcome = None
    /\ w.resume = turn.active
    /\ w.tail \in {"used", "passed", "not-offered"}
    /\ \/ w.trigger = Other(w.resume)
       \/ /\ w.trigger = None
          /\ w.resume = initiative.first /\ initiative.boundary = 0
          /\ timing.cycle = 1 /\ timing.lairUsed = 1 /\ w.tail = "not-offered"

TimingFits ==
    /\ timing.lairUsed <= timing.cycle
    /\ timing.lair <=> timing.lairUsed # timing.cycle
    /\ timing.window # NoWindow => WindowFits(timing.window) /\ timing.completed = NoWindow
    /\ timing.completed # NoWindow => CompletedFits(timing.completed)

\* restoredBossReactionMatchesWindow()
TailPending == timing.window # NoWindow /\ Head(timing.window.queue) = "legendary" /\ timing.window.tail = "used"

\* lastAction names a window action: then a completed window, or one that
\* remembers its tail, must be there.
LastActionFits ==
    turn.outcome = None /\ turn.last = "window" =>
        \/ timing.completed # NoWindow
        \/ timing.window # NoWindow /\ timing.window.tail \in {"used", "passed"}

\* normalizeEncounterLifecycle(): a running fight of two who live, or an end
\* that fits the survivors.
LifecycleFits ==
    LET alive == hero.life # "dead"
    IN  \/ turn.status = "active" /\ turn.active # None /\ turn.outcome = None /\ alive /\ bossHp > 0
        \/ /\ turn.status = "ended" /\ turn.active = None
           /\ \/ turn.outcome \in {"killed", "subdued"} /\ alive /\ bossHp = 0
              \/ turn.outcome = "player_surrendered" /\ alive /\ bossHp > 0
              \/ turn.outcome = "player_defeated" /\ ~alive /\ bossHp > 0

\* normalizeCombat()
Restorable ==
    /\ LifecycleFits
    /\ TimingFits
    /\ LastActionFits
    /\ turn.outcome # None => reaction = None
    /\ reaction = "window" <=> TailPending

-----------------------------------------------------------------------------
(* The hero                                                                 *)

\* A command does not wait for the answer to an offered reaction.
Commandable_IgnoresReaction == Restorable /\ hero.life # "dead" /\ timing.window = NoWindow

\* The guards every command passes (resolveEngineCommandCore()).
Commandable == Restorable /\ hero.life # "dead" /\ reaction = None /\ timing.window = NoWindow

HeroTurn == Commandable /\ turn.status = "active" /\ turn.active = "hero"
HeroActs == HeroTurn /\ hero.life = "conscious"

Goes(last) == turn' = [turn EXCEPT !.last = last]

\* combat_action: an attack that misses or hits for n, or a dodge.
Attack(n, nonlethal) ==
    /\ HeroActs /\ ~kit.spent.action /\ n <= bossHp
    /\ kit' = [kit EXCEPT !.spent.action = TRUE]
    /\ bossHp' = bossHp - n
    /\ \/ n < bossHp /\ Goes("other") /\ UNCHANGED timing
       \/ n = bossHp /\ Over(timing, IF nonlethal THEN "subdued" ELSE "killed", "other")
    /\ UNCHANGED <<initiative, reaction, hero>>

SecondWind(n) ==
    /\ HeroActs /\ ~kit.spent.bonus /\ kit.wind /\ hero.hp < MaxHp
    /\ kit' = [kit EXCEPT !.spent.bonus = TRUE, !.wind = FALSE]
    /\ hero' = Healed(hero, n)
    /\ Goes("other")
    /\ UNCHANGED <<initiative, timing, reaction, bossHp>>

\* A spell cast with the action passes the turn, one with the bonus action
\* does not.
AfterCast(time, hp) ==
    \/ time = "action" /\ HandOff(hp, "other")
    \/ time = "bonus" /\ Goes("other") /\ UNCHANGED timing

\* resolveHealingSpell()
CastHealing(time, n) ==
    /\ HeroActs /\ ~kit.spent[time] /\ kit.slots > 0 /\ hero.hp < MaxHp
    /\ kit' = [kit EXCEPT !.spent[time] = TRUE, !.slots = @ - 1]
    /\ hero' = Healed(hero, n)
    /\ AfterCast(time, bossHp)
    /\ UNCHANGED <<initiative, reaction, bossHp>>

\* The records after one hit of any strength.
Hit(h) == UNION {Damaged(h, n, critical) : n \in 1..MaxHp, critical \in BOOLEAN}

\* resolveCastSpell() of a damage spell or a cantrip: n of damage to the boss;
\* an area may hold the hero, too.
CastDamage(time, n, cost, concentrates, area) ==
    /\ HeroActs /\ ~kit.spent[time] /\ kit.slots >= cost /\ n <= bossHp
    /\ kit' = [kit EXCEPT !.spent[time] = TRUE, !.slots = @ - cost]
    /\ LET h == [hero EXCEPT !.concentrates = @ \/ concentrates]
       IN  hero' \in (IF area THEN Hit(h) ELSE {h})
    /\ bossHp' = bossHp - n
    /\ \/ n = bossHp /\ Over(timing, "killed", "other")
       \/ n < bossHp /\ AfterCast(time, bossHp - n)
    /\ UNCHANGED <<initiative, reaction>>

\* resolvePlayerEndTurn(), also of a hero who lies on the ground.
EndTurn ==
    /\ HeroTurn
    /\ HandOff(bossHp, "other")
    /\ UNCHANGED <<initiative, reaction, hero, kit, bossHp>>

\* resolveDeathSave(): in a fight on the hero's turn, otherwise at any time.
DeathSave ==
    /\ Commandable /\ hero.life = "dying"
    /\ turn.status = "active" => turn.active = "hero"
    /\ hero' \in DeathSaves(hero)
    /\ \/ hero'.life = "dead" /\ Over(timing, "player_defeated", turn.last) /\ UNCHANGED kit
       \/ /\ hero'.life # "dead" /\ HandOff(bossHp, turn.last)
          /\ kit' = [kit EXCEPT !.spent.action = TRUE]
    /\ UNCHANGED <<initiative, reaction, bossHp>>

\* eligibleIncomingHitReactions(): a reaction spell with a slot to cast it.
Eligible == kit.slots > 0 /\ ~kit.spent.reaction

\* A hit that lands now: it is offered to a reaction, or hurts at once.
Offered(mode) ==
    /\ Eligible /\ reaction' = mode
    /\ Goes("other")
    /\ UNCHANGED <<hero, timing>>

\* resolveCombatMove(): leaving the boss's reach costs an opportunity attack.
Move ==
    /\ HeroActs
    /\ \/ Goes("other") /\ UNCHANGED <<hero, timing, reaction, kit>>
       \/ /\ ~kit.bossReacted /\ kit' = [kit EXCEPT !.bossReacted = TRUE]
          /\ \/ Goes("other") /\ UNCHANGED <<hero, timing, reaction>>
             \/ Offered("move")
             \/ ~Eligible /\ hero' \in Hit(hero) /\ Goes("other") /\ UNCHANGED <<timing, reaction>>
    /\ UNCHANGED <<initiative, bossHp>>

\* custody_action surrender, before an established guard.
Surrender ==
    /\ HeroTurn
    /\ Over(timing, "player_surrendered", "other")
    /\ UNCHANGED <<initiative, reaction, hero, kit, bossHp>>

-----------------------------------------------------------------------------
(* The boss                                                                 *)

BossTurn == Commandable /\ turn.status = "active" /\ turn.active = "boss"

\* finishCreatureTurn(), and the end of resolveAdvanceTurn(): the fight ends
\* with the hero's death, or a round ends and the hero's budget is new.
FinishBossTurn(h, k, last) ==
    \/ h.life = "dead" /\ Over(timing, "player_defeated", last) /\ kit' = k
    \/ /\ h.life # "dead" /\ turn.round < MaxRound
       /\ turn' = [turn EXCEPT !.active = "hero", !.round = @ + 1, !.last = last]
       /\ timing' = Transition(timing, "boss", "hero", bossHp)
       /\ kit' = [k EXCEPT !.spent = [FreshBudget EXCEPT !.action = h.hp = 0], !.bossReacted = FALSE]

\* resolveAdvanceTurn() with a plain attack, which leaves lastAction alone
\* unless a reaction is offered.
BossAttack ==
    /\ BossTurn
    /\ \/ FinishBossTurn(hero, kit, turn.last) /\ UNCHANGED <<hero, reaction>>
       \/ Offered("turn") /\ UNCHANGED kit
       \/ ~Eligible /\ hero' \in Hit(hero) /\ FinishBossTurn(hero', kit, turn.last) /\ UNCHANGED reaction
    /\ UNCHANGED <<initiative, bossHp>>

\* resolveCompiledCreatureProgram(): a sequence of attacks, or a save against
\* damage or a condition; no reaction is offered.
BossProgram ==
    /\ BossTurn
    /\ hero' \in {hero} \cup Hit(hero) \cup UNION {Hit(h) : h \in Hit(hero)}
    /\ FinishBossTurn(hero', kit, "other")
    /\ UNCHANGED <<initiative, reaction, bossHp>>

\* A window is open and waits for nobody's reaction.
WindowOpen(kind) ==
    /\ Restorable /\ turn.status = "active" /\ reaction = None
    /\ timing.window # NoWindow /\ Head(timing.window.queue) = kind

\* resolveBossAction() of the pass, which spends the lair's cycle.
BossPass ==
    /\ \/ WindowOpen("lair") /\ timing' = Completed(timing)
       \/ /\ WindowOpen("legendary") /\ timing.window.tail = "pending"
          /\ timing' = Completed([timing EXCEPT !.window.tail = "passed"])
    /\ Goes("window")
    /\ UNCHANGED <<initiative, reaction, hero, kit, bossHp>>

\* What a window action ends with: the hero's death, or the next window.
FinishWindow(h, t) ==
    \/ h.life = "dead" /\ Over(t, "player_defeated", "window")
    \/ h.life # "dead" /\ timing' = Completed(t) /\ Goes("window")

TailUsed(t) == [t EXCEPT !.points = @ - 1, !.window.tail = "used"]

\* resolveBossAction() of the legendary Tail Attack.
BossTail ==
    /\ WindowOpen("legendary") /\ timing.window.tail = "pending" /\ timing.points >= 1
    /\ \/ FinishWindow(hero, TailUsed(timing)) /\ UNCHANGED <<hero, reaction>>
       \/ /\ Eligible /\ reaction' = "window" /\ timing' = TailUsed(timing)
          /\ Goes("other") /\ UNCHANGED hero
       \/ /\ ~Eligible /\ hero' \in Hit(hero)
          /\ FinishWindow(hero', TailUsed(timing)) /\ UNCHANGED reaction
    /\ UNCHANGED <<initiative, kit, bossHp>>

\* resolveBossAction() of the lair's Acid Geyser; half the damage still hurts.
BossLair ==
    /\ WindowOpen("lair") /\ timing.lair /\ timing.lairUsed # timing.cycle
    /\ \E n \in 1..MaxHp : hero' \in Damaged(hero, n, FALSE)
    /\ FinishWindow(hero', timing)
    /\ UNCHANGED <<initiative, reaction, kit, bossHp>>

\* pendingReactionTurnSuffix(): the stored attack is over, go on where it came.
Resume(h, k) ==
    \/ reaction = "turn" /\ FinishBossTurn(h, k, "other")
    \/ reaction = "window" /\ FinishWindow(h, timing) /\ kit' = k
    \/ reaction = "move" /\ Goes("other") /\ kit' = k /\ UNCHANGED timing

\* resolveReactionResponse(): the hit is taken, or the spell is cast and the
\* hit may miss.
Respond ==
    /\ Restorable /\ turn.status = "active" /\ reaction # None
    /\ \/ hero' \in Hit(hero) /\ Resume(hero', kit)
       \/ /\ Eligible
          /\ hero' \in {hero} \cup Hit(hero)
          /\ Resume(hero', [kit EXCEPT !.slots = @ - 1, !.spent.reaction = TRUE])
    /\ reaction' = None
    /\ UNCHANGED <<initiative, bossHp>>

\* quarantineInvalidBossCombat(), on the next load.
Quarantine ==
    /\ ~Restorable /\ turn.status # "quarantined"
    /\ turn' = [turn EXCEPT !.status = "quarantined", !.active = None, !.outcome = None, !.last = "other"]
    /\ reaction' = None
    /\ timing' = Closed(timing)
    /\ UNCHANGED <<initiative, hero, kit, bossHp>>

Next ==
    \/ \E n \in 0..BossHp, nonlethal \in BOOLEAN : Attack(n, nonlethal)
    \/ \E n \in 1..MaxHp : SecondWind(n)
    \/ \E time \in {"action", "bonus"}, n \in 1..MaxHp : CastHealing(time, n)
    \/ \E time \in {"action", "bonus"}, n \in 0..BossHp, cost \in 0..1, concentrates, area \in BOOLEAN :
          CastDamage(time, n, cost, concentrates, area)
    \/ EndTurn \/ DeathSave \/ Move \/ Surrender
    \/ BossAttack \/ BossProgram \/ BossPass \/ BossTail \/ BossLair
    \/ Respond
    \/ Quarantine

Spec == Init /\ [][Next]_vars

-----------------------------------------------------------------------------
(* Properties                                                               *)

WindowType == [trigger : {"hero", "boss", None}, resume : {"hero", "boss", None},
               queue : {<<>>, <<"legendary">>, <<"lair">>, <<"legendary", "lair">>},
               tail : {"pending", "used", "passed", "not-offered", None}]

\* Every part of the fight is of its kind; a fight has an outcome only when ended.
TypeOK ==
    /\ initiative \in [first : {"hero", "boss"}, boundary : 0..2]
    /\ turn \in [status : {"active", "ended", "quarantined"}, active : {"hero", "boss", None}, round : 1..MaxRound,
                 outcome : {None, "killed", "subdued", "player_surrendered", "player_defeated"},
                 last : {None, "window", "other"}]
    /\ timing \in [points : 0..Points, cycle : 1..MaxRound + 1, lair : BOOLEAN, lairUsed : 0..MaxRound + 1,
                   window : WindowType, completed : WindowType]
    /\ reaction \in {None, "turn", "window", "move"}
    /\ hero \in Lives
    /\ kit \in [slots : 0..Slots, wind : BOOLEAN, spent : [action : BOOLEAN, bonus : BOOLEAN, reaction : BOOLEAN],
                bossReacted : BOOLEAN]
    /\ bossHp \in 0..BossHp
    /\ turn.status = "active" => turn.outcome = None

\* Whatever the dice and the order of hits, saves and healing, the character's
\* hit points, state and counters agree (applyCharacterDamage(),
\* applyHealing(), resolveDeathSave()).
LifeConsistent == LifeOK(hero)

\* While a fight runs, its windows, its points, its cycle and its reaction
\* satisfy every relation the load check recomputes from initiative and round
\* (normalizeBossTiming(), restoredBossReactionMatchesWindow()); only the rule
\* on lastAction is not among them.
RunningFightFits ==
    turn.status = "active" => LifecycleFits /\ TimingFits /\ (reaction = "window" <=> TailPending)

\* The rule on lastAction fails, and the next load quarantines the fight, only
\* where a turn has just been handed over and lastAction left as it was: no
\* reaction is pending, and of the hero's turn nothing is spent.
LostAtHandOver ==
    turn.status = "active" /\ ~LastActionFits =>
        /\ reaction = None
        /\ turn.active = "hero" => ~kit.spent.bonus /\ ~kit.spent.reaction /\ ~kit.bossReacted

\* The boss begins its own turn with all its legendary points, whichever
\* window came before it, and two turns of its own are at most one point
\* apart ("refreshed only when its ordinary turn begins").
PointsFullOnBossTurn ==
    /\ turn.status = "active" /\ turn.active = "boss" /\ timing.window = NoWindow => timing.points = Points
    /\ timing.points >= Points - 1

\* A pending reaction belongs to the moment it will resume: the boss's turn, the
\* used tail at the head of its window, or the hero's own move; and it can still
\* be cast when the answer comes.
ReactionFitsTurn ==
    reaction # None =>
        /\ turn.status = "active" /\ Eligible
        /\ reaction = "turn" => turn.active = "boss" /\ timing.window = NoWindow
        /\ reaction = "window" => TailPending
        /\ reaction = "move" => turn.active = "hero" /\ timing.window = NoWindow /\ kit.bossReacted

\* The fight fits together: what is offered, what is spent and what is pending
\* are those of this turn, after any order of windows, reactions and passes.
FightFits == RunningFightFits /\ PointsFullOnBossTurn /\ ReactionFitsTurn /\ LostAtHandOver

\* However the hero dies, in whoever's turn and window, nothing is left that
\* could go on: no turn, no window, no reaction.
DeadMeansOver ==
    hero.life = "dead" =>
        /\ turn.status # "active" /\ turn.active = None
        /\ timing.window = NoWindow /\ timing.completed = NoWindow
        /\ reaction = None

\* Every end of the hero's turn, by whichever command, offers the boss its
\* tail before the boss's own turn (handoffPlayerInitiative()).
TailAtTurnEnd ==
    [][turn.status = "active" /\ turn.active = "hero" /\ turn'.active = "boss" =>
          timing'.window # NoWindow /\ Head(timing'.window.queue) = "legendary"]_vars

\* docs/ADR-H35-reviewed-boss-action-windows.md:33: "Command replay and process
\* restart preserve the exact window, HP result, initiative cycle, and resource
\* evidence." The code does not: a plain attack clears the completed window and
\* leaves lastAction, and the next load quarantines the fight.
RestartPreserves == turn.status # "quarantined"

\* src/engine-domain.ts:11308: "You cannot cast while unconscious." The code
\* does: an incoming hit on a dying character is offered to the reaction spell,
\* and the answer does not ask for its life.
CasterIsConscious == [][kit'.slots < kit.slots => hero.life = "conscious"]_vars

=============================================================================
