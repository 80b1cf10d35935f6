----------------------------- MODULE Conditions -----------------------------
(***************************************************************************)
(* The effects kernel as the hero meets it (engine-effects.ts and the      *)
(* condition paths of engine-domain.ts): conditions put on the hero by the *)
(* saving-throw programs of creatures, by improvisation and by dodging;    *)
(* their end at turn boundaries, by repeat saves, with their source and    *)
(* with the passing of game time; and the three representations that must  *)
(* agree: the canonical effects, the list of conditions a creature applied *)
(* (character.conditionEffects) and the projected names                    *)
(* (character.conditions).  Every command starts by loading the campaign,  *)
(* which turns a projected name without an active effect into a permanent  *)
(* "legacy" effect.                                                        *)
(* Not modelled here: hit points, cover, dice (an outcome is chosen) and   *)
(* the reviewed encounter profiles.                                        *)
(***************************************************************************)
EXTENDS Integers, FiniteSets, FiniteSetsExt, Sequences, Functions

CONSTANTS
    Foes,             \* the creatures that fights may involve (fresh ids)
    Program,          \* [Foes -> the compiled program of each]
    Encounters,       \* the sequences of foes a fight may start with
    Improvised,       \* conditions an improvisation may name
    RoundsPerMinute,  \* ten in the code
    MaxRound,         \* bound: rounds of a fight
    MaxMinutes        \* bound: game time

VARIABLES
    effects,    \* the active effects on the hero
    listed,     \* character.conditionEffects
    shown,      \* character.conditions
    enemies,    \* combat.enemies, in order
    alive,      \* those that live
    active,     \* combat.activeActorId, "none" outside a fight
    round,      \* combat.round
    spent,      \* the spent slots of the hero's turn
    resource,   \* enemy.actionResources
    minutes     \* time.gameTime.totalMinutes

vars == <<effects, listed, shown, enemies, alive, active, round, spent,
          resource, minutes>>

Hero == "hero"
Preventing == {"incapacitated", "paralyzed", "petrified", "stunned"}
Kinds == {"rounds", "minutes", "sourceEnd", "targetStart", "targetEnd",
          "persistent"}
Names == Improvised \cup {Program[f].name : f \in Foes} \cup {"dodging"}

Effects == [name : Names, source : Foes \cup {Hero, "legacy"}, kind : Kinds,
            amount : Nat, round : 0 .. MaxRound, since : 0 .. MaxMinutes,
            repeat : BOOLEAN]

Init ==
    /\ effects = {} /\ listed = {} /\ shown = {}
    /\ enemies = <<>> /\ alive = {} /\ active = "none"
    /\ round = 0 /\ spent = {} /\ minutes = 0
    /\ resource = [f \in Foes |-> "ready"]

Fighting == active # "none"

ShownBy(es) == {e.name : e \in es}

-----------------------------------------------------------------------------
(* Loading, applying, expiring *)

Legacy(n) == [name |-> n, source |-> "legacy", kind |-> "persistent",
              amount |-> 0, round |-> round, since |-> 0, repeat |-> FALSE]

\* normalizeEffects: what a command finds when it has read the campaign.
Loaded == effects \cup {Legacy(n) : n \in shown \ ShownBy(effects)}

\* applyEffect with the rule "ignore": an active effect of the same
\* condition and source stays as it is.
Known(e, es) == \E x \in es : x.name = e.name /\ x.source = e.source

Applied(e, es) == IF Known(e, es) THEN es ELSE es \cup {e}

Lasting(n, source, kind, amount, again) ==
    [name |-> n, source |-> source, kind |-> kind, amount |-> amount,
     round |-> round, since |-> IF kind = "minutes" THEN minutes ELSE 0,
     repeat |-> again]

RoundsOf(e) ==
    CASE e.kind = "rounds"  -> e.amount
      [] e.kind = "minutes" -> e.amount * RoundsPerMinute

\* A fixed duration that has run out in rounds.
FixedOver(e, r) ==
    e.kind \in {"rounds", "minutes"} /\ r >= e.round + RoundsOf(e)

\* expireEffectsAtBoundary: what ends at a boundary of the given subject.
EndsAt(e, kind, r) ==
    (e.kind = kind /\ r >= e.round + 1) \/ FixedOver(e, r)

\* syncConditionProjections keeps of the list what is active.
Current(es, ls) == ls \cap es

Commit(es, ls) ==
    /\ effects' = es
    /\ listed' = Current(es, ls)
    /\ shown' = ShownBy(es)

\* resolveTargetEndConditionEffects: repeat saves and the end of the hero's
\* turn, run after every action he takes.
AfterAction(es, ls) ==
    \E saved \in SUBSET {e \in ls : e.repeat} :
        LET gone == saved \cup {e \in ls : e.kind = "targetEnd"}
            left == es \ gone
        IN  Commit({e \in left : ~EndsAt(e, "targetEnd", round)}, ls)

DeadSources_None == {}

\* The enemies of this fight that no longer live.
DeadSources == Range(enemies) \ alive

\* expireAtCharacterTurnStart.
AtTurnStart(es, ls, r) ==
    {e \in es : /\ e.source \notin DeadSources
                /\ ~(e \in ls /\ e.kind = "targetStart")
                /\ ~EndsAt(e, "targetStart", r)}

-----------------------------------------------------------------------------
(* Fights *)

\* resolveCombatStart: combatants get fresh ids, rounds count from one again.
Start(fs) ==
    /\ ~Fighting
    /\ \A f \in Range(fs) : \A e \in Loaded : e.source # f
    /\ Commit(Loaded, listed)
    /\ enemies' = fs /\ alive' = Range(fs)
    /\ active' = Hero /\ round' = 1 /\ spent' = {}
    /\ resource' = [f \in Foes |-> "ready"]
    /\ UNCHANGED minutes

Prevented == ShownBy(Loaded) \cap Preventing # {}

LiveAfter(i) == {k \in DOMAIN enemies : k > i /\ enemies[k] \in alive}

FirstLive == enemies[Min(LiveAfter(0))]

\* Killing the last foe ends the fight.
Strike(f) ==
    /\ alive' = alive \ {f}
    /\ active' = IF alive = {f} THEN "none" ELSE Hero

\* resolveCombatAction: an attack, which may kill, or a dodge.
Act ==
    /\ active = Hero /\ ~Prevented /\ "action" \notin spent
    /\ spent' = spent \cup {"action"}
    /\ \/ /\ \E f \in alive : Strike(f)
          /\ AfterAction(Loaded, listed)
       \/ /\ UNCHANGED <<alive, active>>
          /\ AfterAction(Loaded, listed)
       \/ /\ UNCHANGED <<alive, active>>
          /\ AfterAction(Applied(Lasting("dodging", Hero, "targetStart", 1,
                                         FALSE), Loaded), listed)
    /\ UNCHANGED <<enemies, round, resource, minutes>>

\* The bonus action (a second wind) runs the same end-of-turn resolution.
ActAgain ==
    /\ active = Hero /\ ~Prevented /\ "bonus" \notin spent
    /\ spent' = spent \cup {"bonus"}
    /\ AfterAction(Loaded, listed)
    /\ UNCHANGED <<enemies, alive, active, round, resource, minutes>>

\* A companion acts on the hero's action, without any of it.
CommandCompanion ==
    /\ active = Hero /\ "action" \notin spent
    /\ spent' = spent \cup {"action"}
    /\ \E f \in alive : Strike(f)
    /\ Commit(Loaded, listed)
    /\ UNCHANGED <<enemies, round, resource, minutes>>

\* resolvePlayerEndTurn: the turn is handed over, no condition is looked at.
EndTurn ==
    /\ active = Hero
    /\ active' = FirstLive
    /\ Commit(Loaded, listed)
    /\ UNCHANGED <<enemies, alive, round, spent, resource, minutes>>

\* resolveSkippedCharacterTurn: advance_turn while a condition prevents him.
Skip ==
    /\ active = Hero /\ Prevented
    /\ AfterAction(Loaded, listed)
    /\ active' = FirstLive
    /\ spent' = spent \cup {"action"}
    /\ UNCHANGED <<enemies, alive, round, resource, minutes>>

\* Whose turn advance_turn resolves: on the hero's own turn it is handed over
\* first and the first live foe acts at once.
Acting == IF active = Hero THEN FirstLive ELSE active

MayAdvance == Fighting /\ ~(active = Hero /\ Prevented)

After(f) ==
    LET i == CHOOSE k \in DOMAIN enemies : enemies[k] = f
    IN  IF LiveAfter(i) = {} THEN Hero ELSE enemies[Min(LiveAfter(i))]

\* The end of a creature's turn: the next foe, or a new round of the hero.
NextTurn(f, es, ls, rs) ==
    /\ active' = After(f)
    /\ IF After(f) = Hero
       THEN /\ round < MaxRound
            /\ round' = round + 1
            /\ spent' = {}
            /\ resource' = [g \in Foes |-> IF rs[g] = "tried" THEN "spent"
                                           ELSE rs[g]]
            /\ Commit(AtTurnStart(es, ls, round + 1), ls)
       ELSE /\ resource' = rs
            /\ UNCHANGED <<round, spent>>
            /\ Commit(es, ls)

\* resolveAdvanceTurn with a basic attack: conditions that end with the turn
\* of their source are not looked at.
Attack ==
    /\ MayAdvance
    /\ NextTurn(Acting, Loaded, listed, resource)
    /\ UNCHANGED <<enemies, alive, minutes>>

Unlisted_AnySource(e, ls) == {x \in ls : x.name # e.name}

\* An applied condition replaces its own earlier entry in the list.
Unlisted(e, ls) == {x \in ls : x.name # e.name \/ x.source # e.source}

\* expireSourceEndConditionEffects.
AtSourceEnd(f, es, ls) ==
    {e \in es : /\ ~(e.source = f /\ EndsAt(e, "sourceEnd", round))
                /\ ~FixedOver(e, round)}

\* finishCreatureTurn after a program.
Finish(f, es, ls, rs) == NextTurn(f, AtSourceEnd(f, es, ls), ls, rs)

Used(f, rs) == IF Program[f].usage = "none" THEN rs
               ELSE [rs EXCEPT ![f] = "spent"]

\* resolveCompiledMultiattack: attacks only.
Multiattack(f, rs) ==
    /\ Program[f].mode = "multiattack"
    /\ Finish(f, Loaded, listed, Used(f, rs))

\* resolveCompiledSaveDamage: the hero saves or not, and is hurt.
SaveDamage(f, rs) ==
    /\ Program[f].mode = "saving-throw-damage"
    /\ Finish(f, Loaded, listed, Used(f, rs))

\* resolveCompiledSaveCondition: the hero saves or takes the condition, which
\* an earlier one of the same source keeps out.
SaveCondition(f, rs) ==
    LET p == Program[f]
        e == Lasting(p.name, f, p.kind, p.amount, p.repeat)
    IN  /\ p.mode = "saving-throw-condition"
        /\ \/ Finish(f, Loaded, listed, Used(f, rs))
           \/ /\ ~Known(e, Loaded)
              /\ Finish(f, Applied(e, Loaded), Unlisted(e, listed) \cup {e},
                        Used(f, rs))

\* resolveCompiledCreatureProgram with its resource ready.
UseProgram(f, rs) ==
    Multiattack(f, rs) \/ SaveDamage(f, rs) \/ SaveCondition(f, rs)

\* prepareCompiledActionResource: once a round the creature may try to
\* recharge; when it fails the turn is still its own.
Perform ==
    /\ MayAdvance
    /\ LET f == Acting
       IN  \/ resource[f] = "ready" /\ UseProgram(f, resource)
           \/ /\ resource[f] = "spent" /\ Program[f].usage = "recharge"
              /\ \/ UseProgram(f, [resource EXCEPT ![f] = "ready"])
                 \/ /\ resource' = [resource EXCEPT ![f] = "tried"]
                    /\ active' = f
                    /\ Commit(Loaded, listed)
                    /\ UNCHANGED <<round, spent>>
    /\ UNCHANGED <<enemies, alive, minutes>>

-----------------------------------------------------------------------------
(* Improvisation, rest and time *)

\* resolveImprovise: a condition for a number of rounds or for good.
Improvise(n, kind) ==
    /\ Commit(Applied(Lasting(n, Hero, kind, 1, FALSE), Loaded), listed)
    /\ UNCHANGED <<enemies, alive, active, round, spent, resource, minutes>>

DueWithin(e, from, to) ==
    /\ e.kind = "minutes" /\ e.source # "legacy"
    /\ LET due == e.since + e.amount IN from < due /\ due <= to

\* advanceGameTime: what a fixed duration in minutes makes due expires.
Pass(n) == {e \in Loaded : ~DueWithin(e, minutes, minutes + n)}

\* Travel and downtime, and ignoring the situation (also in a fight), do not
\* derive the projections again.
PassTime(n) ==
    /\ minutes + n <= MaxMinutes
    /\ minutes' = minutes + n
    /\ effects' = Pass(n)
    /\ listed' = Current(Loaded, listed)
    /\ shown' = ShownBy(Loaded)
    /\ UNCHANGED <<enemies, alive, active, round, spent, resource>>

\* resolveRest does.
Rest(n) ==
    /\ ~Fighting
    /\ minutes + n <= MaxMinutes
    /\ minutes' = minutes + n
    /\ Commit(Pass(n), listed)
    /\ UNCHANGED <<enemies, alive, active, round, spent, resource>>

-----------------------------------------------------------------------------
Next ==
    \/ \E fs \in Encounters : Start(fs)
    \/ Act \/ ActAgain \/ CommandCompanion \/ EndTurn \/ Skip
    \/ Attack \/ Perform
    \/ \E n \in Improvised, k \in {"rounds", "persistent"} : Improvise(n, k)
    \/ PassTime(1)
    \/ Rest(1)

Spec == Init /\ [][Next]_vars

-----------------------------------------------------------------------------
TypeOK ==
    /\ effects \subseteq Effects
    /\ listed \subseteq Effects
    /\ shown \subseteq Names
    /\ enemies \in Seq(Foes) /\ alive \subseteq Range(enemies)
    /\ active \in {Hero, "none"} \cup Foes
    /\ active \in Foes => active \in alive
    /\ (active = "none") = (alive = {})
    /\ round \in 0 .. MaxRound
    /\ spent \subseteq {"action", "bonus"}
    /\ resource \in [Foes -> {"ready", "spent", "tried"}]
    /\ minutes \in 0 .. MaxMinutes

\* A condition a creature put on the hero stays on the list the repeat saves
\* are taken from: none of them becomes one he can no longer save against,
\* however many creatures use the same condition.
SavesStayOpen ==
    \A e \in effects : e.source \in Foes /\ e.repeat => e \in listed

\* When the turn comes back to the hero nothing on him is overdue: no fixed
\* duration that has run out, no guard of his last turn, nothing of a
\* creature that has died in this fight.
TurnsBeginClean ==
    Fighting /\ round' > round =>
      \A e \in effects' :
         /\ ~FixedOver(e, round')
         /\ e.source \notin Range(enemies) \ alive
         /\ e.kind = "targetStart" => e.round = round'

\* Effects are the authority and the names are derived from them: no
\* condition comes back from its name alone (ADR-H26-effects-conditions-kernel).
EffectsAreTheAuthority ==
    \A e \in effects : e.source # "legacy"
=============================================================================
