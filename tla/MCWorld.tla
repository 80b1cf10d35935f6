------------------------------- MODULE MCWorld -------------------------------
(*****************************************************************************)
(* Fights and places: the tactical map, guards and their surrender,         *)
(* conditions, and the places and things a campaign is made of. Each        *)
(* behaviour is of one of these components, chosen by part, while the       *)
(* others are idle: they share no state in the model, and one run explores  *)
(* them all.                                                                *)
(*****************************************************************************)
EXTENDS Integers, Sequences, FiniteSets

CONSTANTS
    Width, Height, Walls, Mud, Foes, FoeAt, FoeSize, Melee, Speed, Radius, Rounds, Aims,
    MaxHp, MaxRound,                                \* of module Tactical
    Watch, Orders, MaxFights, MaxGroups,            \* of module GuardEncounter
    Creatures, Program, Encounters, Improvised, RoundsPerMinute, BoutRounds,
    MaxMinutes,                                     \* of module Conditions
    PlaceKeys, Residents,                           \* of module Locations
    ItemKinds, ItemKeys, Copies,                    \* of module RuntimeItems
    Facts, Objects, Npcs, Boxes, Critical,          \* of module WorldScene
    FactLimit, ObjectLimit, NpcLimit, MaxPlay

\* The instance TLC checks.
\* Tactical: where the foes stand, and how wide they are.
MCWalls == {<<1, 2>>}
MCMud == {<<2, 0>>}
MCAims == {<<1, 0>>}
MCFoeAt == [brute |-> <<2, 1>>, archer |-> <<0, 2>>]
MCFoeSize == [brute |-> 1, archer |-> 1]

\* GuardEncounter: one guard before the hero, one after.
MCOrders == {<<"g2", "hero", "g1">>}

\* Conditions: two creatures that frighten for a minute once a day, one that
\* frightens until the end of its next turn, a breath and a multiattack.
Frighten(kind, again, usage) ==
    [mode |-> "saving-throw-condition", name |-> "frightened", kind |-> kind,
     amount |-> 1, repeat |-> again, usage |-> usage]
MCProgram ==
    [quasit |-> Frighten("minutes", TRUE, "daily"),
     imp    |-> Frighten("minutes", TRUE, "daily"),
     mummy  |-> Frighten("sourceEnd", FALSE, "none"),
     dragon |-> [Frighten("rounds", FALSE, "recharge") EXCEPT !.mode = "saving-throw-damage"],
     knight |-> [Frighten("rounds", FALSE, "none") EXCEPT !.mode = "multiattack"]]
MCEncounters == {<<"quasit", "imp">>, <<"mummy">>, <<"dragon", "knight">>}

VARIABLES
    part,  \* the component this behaviour is of
    at, spent, acted, shield, pending, hp, dead, fighting, mine, round, alive, reacted, ally,
    zones, walked,
    fight, guardHp, captured, wolf, held, source, bounds, fled, strikes,
    effects, listed, shown, enemies, boutAlive, active, boutRound, boutSpent, resource,
    minutes,
    compiled, placed, inside, exits, placeAt, people, left,
    defs, made, status, place, sold, runtimeShown,
    facts, objects, worn, npcs, open

Tactical == INSTANCE Tactical

GuardEncounter == INSTANCE GuardEncounter WITH
    Foes <- Watch, hp <- guardHp

Conditions == INSTANCE Conditions WITH
    Foes <- Creatures, MaxRound <- BoutRounds,
    alive <- boutAlive, round <- boutRound, spent <- boutSpent

Locations == INSTANCE Locations WITH
    Keys <- PlaceKeys, Npcs <- Residents, at <- placeAt

RuntimeItems == INSTANCE RuntimeItems WITH
    Kinds <- ItemKinds, Keys <- ItemKeys, shown <- runtimeShown

WorldScene == INSTANCE WorldScene

Parts == {"Tactical", "GuardEncounter", "Conditions", "Locations", "RuntimeItems",
          "WorldScene"}

-----------------------------------------------------------------------------
(* What is assumed of the constants.                                        *)

\* The foes stand on the map, and so is what zones and areas are aimed at.
ASSUME MapAssumption ==
    /\ {Width, Height, Speed, Rounds, MaxHp, MaxRound} \subseteq Nat
    /\ IsFiniteSet(Foes) /\ {"none", "hero", "ally"} \cap Foes = {}
    /\ Aims \subseteq Tactical!Cells
    /\ \A f \in Foes : Tactical!Footprint(FoeAt[f], FoeSize[f]) \subseteq Tactical!Cells

\* Every guard and the hero have a turn.
ASSUME WatchAssumption ==
    /\ {MaxFights, MaxGroups} \subseteq Nat
    /\ IsFiniteSet(Watch) /\ {"none", "hero", "wolf", "warden"} \cap Watch = {}
    /\ \A order \in Orders : /\ order \in Seq(Watch \cup {"hero"})
                             /\ \A a \in Watch \cup {"hero"} : \E i \in DOMAIN order : order[i] = a

\* A fight has somebody to fight.
ASSUME ProgramAssumption ==
    /\ {RoundsPerMinute, MaxMinutes} \subseteq Nat /\ BoutRounds \in Nat \ {0}
    /\ {"none", "hero", "legacy"} \cap Creatures = {}
    /\ \A f \in Creatures : /\ Program[f].kind \in Conditions!Kinds
                           /\ Program[f].amount \in Nat /\ Program[f].repeat \in BOOLEAN
    /\ Encounters \subseteq Seq(Creatures) \ {<<>>}

\* The words for nothing, and for the open scene, are no things of the world.
ASSUME WorldAssumption ==
    /\ "none" \notin ItemKinds
    /\ {"none", "scene"} \cap Objects = {}
    /\ MaxPlay \in Nat

-----------------------------------------------------------------------------
\* A component that this behaviour is not of.
Idle(v) == v = "idle"

Init ==
    /\ part \in Parts
    /\ IF part = "Tactical" THEN Tactical!Init
       ELSE Idle(at) /\ Idle(spent) /\ Idle(acted) /\ Idle(shield) /\ Idle(pending) /\
            Idle(hp) /\ Idle(dead) /\ Idle(fighting) /\ Idle(mine) /\ Idle(round) /\
            Idle(alive) /\ Idle(reacted) /\ Idle(ally) /\ Idle(zones) /\ Idle(walked)
    /\ IF part = "GuardEncounter" THEN GuardEncounter!Init
       ELSE Idle(fight) /\ Idle(guardHp) /\ Idle(captured) /\ Idle(wolf) /\ Idle(held) /\
            Idle(source) /\ Idle(bounds) /\ Idle(fled) /\ Idle(strikes)
    /\ IF part = "Conditions" THEN Conditions!Init
       ELSE Idle(effects) /\ Idle(listed) /\ Idle(shown) /\ Idle(enemies) /\ Idle(boutAlive) /\
            Idle(active) /\ Idle(boutRound) /\ Idle(boutSpent) /\ Idle(resource) /\
            Idle(minutes)
    /\ IF part = "Locations" THEN Locations!Init
       ELSE Idle(compiled) /\ Idle(placed) /\ Idle(inside) /\ Idle(exits) /\ Idle(placeAt) /\
            Idle(people) /\ Idle(left)
    /\ IF part = "RuntimeItems" THEN RuntimeItems!Init
       ELSE Idle(defs) /\ Idle(made) /\ Idle(status) /\ Idle(place) /\ Idle(sold) /\
            Idle(runtimeShown)
    /\ IF part = "WorldScene" THEN WorldScene!Init
       ELSE Idle(facts) /\ Idle(objects) /\ Idle(worn) /\ Idle(npcs) /\ Idle(open)

Next ==
    /\ UNCHANGED part
    /\ IF part = "Tactical" THEN Tactical!Next
       ELSE UNCHANGED <<at, spent, acted, shield, pending, hp, dead, fighting, mine, round,
                        alive, reacted, ally, zones, walked>>
    /\ IF part = "GuardEncounter" THEN GuardEncounter!Next
       ELSE UNCHANGED <<fight, guardHp, captured, wolf, held, source, bounds, fled, strikes>>
    /\ IF part = "Conditions" THEN Conditions!Next
       ELSE UNCHANGED <<effects, listed, shown, enemies, boutAlive, active, boutRound,
                        boutSpent, resource, minutes>>
    /\ IF part = "Locations" THEN Locations!Next
       ELSE UNCHANGED <<compiled, placed, inside, exits, placeAt, people, left>>
    /\ IF part = "RuntimeItems" THEN RuntimeItems!Next
       ELSE UNCHANGED <<defs, made, status, place, sold, runtimeShown>>
    /\ IF part = "WorldScene" THEN WorldScene!Next
       ELSE UNCHANGED <<facts, objects, worn, npcs, open>>

allVars == <<part, at, spent, acted, shield, pending, hp, dead, fighting, mine, round, alive,
             reacted, ally, zones, walked, fight, guardHp, captured, wolf, held, source,
             bounds, fled, strikes, effects, listed, shown, enemies, boutAlive, active,
             boutRound, boutSpent, resource, minutes, compiled, placed, inside, exits,
             placeAt, people, left, defs, made, status, place, sold, runtimeShown, facts,
             objects, worn, npcs, open>>

Spec == Init /\ [][Next]_allVars

-----------------------------------------------------------------------------
(* What is checked of each component, by theme.                             *)

\* Every component keeps its types.
TypeOK ==
    /\ part = "Tactical" => Tactical!TypeOK
    /\ part = "GuardEncounter" => GuardEncounter!TypeOK
    /\ part = "Conditions" => Conditions!TypeOK
    /\ part = "Locations" => Locations!TypeOK
    /\ part = "RuntimeItems" => RuntimeItems!TypeOK
    /\ part = "WorldScene" => WorldScene!TypeOK

\* What a fight makes holds in long sequences: the map never refuses what it
\* made itself, a foe that interrupts a walk reaches it, a fight offers each
\* surrender once and strikes once a turn, its turn is with somebody who is
\* there, captives are freed together, and a condition can be saved against
\* while it lasts.
FightsHold ==
    /\ part = "Tactical" => Tactical!NeverRefused /\ Tactical!InterruptedInReach
    /\ part = "GuardEncounter" =>
          /\ GuardEncounter!OneOfferEach
          /\ GuardEncounter!OneStrikePerTurn
          /\ GuardEncounter!CustodyOutsideCombat
          /\ GuardEncounter!FreedTogether
          /\ GuardEncounter!TurnRests
    /\ part = "Conditions" => Conditions!SavesStayOpen

\* Places and things have one place: whatever is made, patched, sold or moved,
\* the graph of locations has no cycle, runtime items mirror the inventory, and
\* contents stand in what holds them.
PlacesHold ==
    /\ part = "Locations" =>
          /\ Locations!OnePlaceEach
          /\ Locations!ContainmentEnds
          /\ Locations!NeverBack
    /\ part = "RuntimeItems" => RuntimeItems!MirrorsInventory /\ RuntimeItems!SceneIsTold
    /\ part = "WorldScene" => WorldScene!ContentsHeld

\* What no step may do: walk out of reach for nothing, change the end of a
\* fight, begin a turn under a condition that is over, give an old thing a
\* second meaning, or worsen a standing by an edit.
StepsEarned ==
    [][/\ part = "Tactical" => Tactical!NoEscape
       /\ part = "GuardEncounter" => GuardEncounter!OutcomeStands
       /\ part = "Conditions" => Conditions!TurnsBeginClean
       /\ part = "RuntimeItems" => RuntimeItems!MeansTheSame
       /\ part = "WorldScene" => WorldScene!EditsKeepStanding]_allVars
=============================================================================
