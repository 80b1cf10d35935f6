------------------------------- MODULE MCHero -------------------------------
(*****************************************************************************)
(* What the hero has, is and can do: possessions, magic, creation, and the  *)
(* campaign as it is read back from a save. Each behaviour is of one of     *)
(* these components, chosen by part, while the others are idle: they share  *)
(* no state in the model, and one run explores them all. The constants are  *)
(* the bounds.                                                              *)
(*****************************************************************************)
EXTENDS Naturals, Sequences, FiniteSets

CONSTANTS
    Kits, Ids, Containers, Potions, Amulets, TwoHanded, SlotsOf, SplitOf, Reward, Listed,
    Objects, Portable, Ropes, Arms, Breakable, Flammable, Openable, Levers, CarryLimit,
    BagLimit, MaxUnits,                             \* of module Possessions
    Mode, Cantrips, Wards, Cures, Blasts, Holding, Rank, SlotTable, KnownTable,
    CantripTable, PreparedTable, PactSlots, MaxHp, Scrolls,          \* of module Magic
    Abilities, Scores, Array, Cap, Bonus, Floating, Classes, Backgrounds,
    MaxUpdates,                                     \* of module CharacterCreation
    Companions, MaxMinutes, DecayIn                 \* of module SavedCampaign

\* The instance TLC checks.
\* Possessions: six beginnings, each for another family of commands.
MCIds == {"bag", "pouch", "potion", "half", "pike", "dagger", "ward", "cloak", "gem", "rope", "chest", "lever"}
Start(kit, objs, n, found) ==
    [units |-> [i \in MCIds |-> IF i \in DOMAIN kit THEN kit[i] ELSE 0],
     scene |-> objs, stock |-> n, loot |-> found]
MCKits == {
    Start([bag |-> 1, pouch |-> 1, potion |-> 2], {}, 0, FALSE),
    Start([pike |-> 1, dagger |-> 2], {}, 0, FALSE),
    Start([bag |-> 1], {}, 1, TRUE),
    Start([ward |-> 1, cloak |-> 1], {}, 0, FALSE),
    Start([bag |-> 1], {"rope", "chest"}, 0, FALSE),
    Start([ward |-> 1], {"chest", "lever"}, 0, FALSE)}
MCSlotsOf ==
    [i \in MCIds |->
        IF i = "pike" THEN {"mainhand"}
        ELSE IF i = "dagger" THEN {"mainhand", "offhand"}
        ELSE IF i \in {"ward", "cloak"} THEN {"accessory"} ELSE {}]
MCSplitOf == [potion |-> "half"]

\* Magic: a wizard of two levels.
MCRank == [spark |-> 0, ward |-> 1, cure |-> 1, wall |-> 2]
MCSlotTable == <<[n \in {1, 2} |-> IF n = 1 THEN 2 ELSE 0], [n \in {1, 2} |-> IF n = 1 THEN 2 ELSE 1]>>
MCKnownTable == <<1, 2>>
MCOneEach == <<1, 1>>

\* CharacterCreation: two abilities, a background that grants a class skill.
MCScores == 1..3
MCArray == [str |-> 1, dex |-> 2]
MCBonus == [elf |-> [str |-> 0, dex |-> 1], human |-> [str |-> 0, dex |-> 0]]
MCFloating == [elf |-> 0, human |-> 1]
MCClasses == [fighter |-> [options |-> {"athletics", "insight"}, count |-> 1]]
MCBackgrounds == [acolyte |-> [fixed |-> {"insight"}, options |-> {}, count |-> 0],
                  wanderer |-> [fixed |-> {}, options |-> {"athletics", "stealth"}, count |-> 1]]

\* SavedCampaign: days until remains decay, by weather.
MCDecayIn == [clear |-> 3, rain |-> 2, storm |-> 1]

VARIABLES
    part,  \* the component this behaviour is of
    inv, shared, party, stock, acquired, fence, charge, shining, objects, life, remains,
    looted, spent, tampered,
    level, known, prepared, slots, conc, hp, dice, scrolls, fight, pending, debt,
    phase, pinned, draft, character, updates, rolled,
    hero, savedFight, clock, events, actors, sustained, savedParty, savedRemains, quest,
    advance, loaded

Possessions == INSTANCE Possessions WITH Wards <- Amulets

Magic == INSTANCE Magic

CharacterCreation == INSTANCE CharacterCreation

SavedCampaign == INSTANCE SavedCampaign WITH
    fight <- savedFight, party <- savedParty, remains <- savedRemains

Parts == {"Possessions", "Magic", "CharacterCreation", "SavedCampaign"}

-----------------------------------------------------------------------------
(* What is assumed of the constants.                                        *)

\* Objects of the scene, bags, potions and wards are different things, a part
\* that was split off is not split again, and "loose" is no slot.
ASSUME ItemAssumption ==
    /\ MaxUnits \in Nat \ {0}
    /\ IsFiniteSet(Ids) /\ "none" \notin Ids
    /\ Containers \cup Potions \cup Amulets \cup Listed \cup Objects \cup {Reward} \subseteq Ids
    /\ Potions \cap (Containers \cup Amulets) = {}
    /\ Objects \cap (Containers \cup Potions \cup Amulets \cup Listed \cup {Reward} \cup DOMAIN SplitOf) = {}
    /\ \A i \in Ids : {"none", "loose"} \cap SlotsOf[i] = {}
    /\ DOMAIN SplitOf \subseteq Ids
    /\ \A i \in DOMAIN SplitOf : SplitOf[i] \in Ids \ (Objects \cup DOMAIN SplitOf)
    /\ \A i, j \in DOMAIN SplitOf : SplitOf[i] = SplitOf[j] => i = j

\* Nothing is split at the start, and there are no more than MaxUnits + 1 of an item.
ASSUME KitAssumption ==
    \A kit \in Kits :
        /\ kit.units \in [Ids -> 0..MaxUnits] /\ kit.stock \in 0..MaxUnits /\ kit.loot \in BOOLEAN
        /\ \A i \in DOMAIN SplitOf : kit.units[SplitOf[i]] = 0 /\ SplitOf[i] \notin Listed \cup {Reward}
        /\ \A i \in Ids : kit.units[i] + (IF i \in Listed THEN kit.stock ELSE 0)
                             + (IF i = Reward /\ kit.loot THEN 1 ELSE 0) <= MaxUnits + 1

\* Cantrips need no slot, a slot has a level, and no table falls with the level.
ASSUME SpellAssumption ==
    /\ {MaxHp, Scrolls} \subseteq Nat
    /\ Rank \in [Cantrips \cup Wards \cup Cures \cup Blasts -> Nat]
    /\ \A s \in Cantrips : Rank[s] = 0
    /\ SlotTable # <<>> /\ DOMAIN SlotTable[1] \subseteq 1..9
    /\ SlotTable \in Seq([DOMAIN SlotTable[1] -> Nat])
    /\ \A table \in {KnownTable, CantripTable, PreparedTable} :
          /\ table \in [DOMAIN SlotTable -> Nat]
          /\ \A l \in DOMAIN SlotTable : l + 1 \in DOMAIN SlotTable => table[l] <= table[l + 1]

ASSUME SheetAssumption ==
    /\ IsFiniteSet(Abilities) /\ Scores \subseteq Nat
    /\ Array \in [Abilities -> Scores]
    /\ {Cap, MaxUpdates} \subseteq Nat
    /\ Bonus \in [DOMAIN Bonus -> [Abilities -> Nat]]
    /\ \A c \in DOMAIN Classes : IsFiniteSet(Classes[c].options) /\ Classes[c].count \in Nat
    /\ \A b \in DOMAIN Backgrounds :
          /\ IsFiniteSet(Backgrounds[b].fixed) /\ IsFiniteSet(Backgrounds[b].options)
          /\ Backgrounds[b].count \in Nat

ASSUME SaveAssumption ==
    /\ MaxMinutes \in Nat
    /\ DecayIn \in [{"clear", "rain", "storm"} -> Nat]

-----------------------------------------------------------------------------
\* A component that this behaviour is not of.
Idle(v) == v = "idle"

Init ==
    /\ part \in Parts
    /\ IF part = "Possessions" THEN Possessions!Init
       ELSE Idle(inv) /\ Idle(shared) /\ Idle(party) /\ Idle(stock) /\ Idle(acquired) /\
            Idle(fence) /\ Idle(charge) /\ Idle(shining) /\ Idle(objects) /\ Idle(life) /\
            Idle(remains) /\ Idle(looted) /\ Idle(spent) /\ Idle(tampered)
    /\ IF part = "Magic" THEN Magic!Init
       ELSE Idle(level) /\ Idle(known) /\ Idle(prepared) /\ Idle(slots) /\ Idle(conc) /\
            Idle(hp) /\ Idle(dice) /\ Idle(scrolls) /\ Idle(fight) /\ Idle(pending) /\
            Idle(debt)
    /\ IF part = "CharacterCreation" THEN CharacterCreation!Init
       ELSE Idle(phase) /\ Idle(pinned) /\ Idle(draft) /\ Idle(character) /\ Idle(updates) /\
            Idle(rolled)
    /\ IF part = "SavedCampaign" THEN SavedCampaign!Init
       ELSE Idle(hero) /\ Idle(savedFight) /\ Idle(clock) /\ Idle(events) /\ Idle(actors) /\
            Idle(sustained) /\ Idle(savedParty) /\ Idle(savedRemains) /\ Idle(quest) /\
            Idle(advance) /\ Idle(loaded)

Next ==
    /\ UNCHANGED part
    /\ IF part = "Possessions" THEN Possessions!Next
       ELSE UNCHANGED <<inv, shared, party, stock, acquired, fence, charge, shining, objects,
                        life, remains, looted, spent, tampered>>
    /\ IF part = "Magic" THEN Magic!Next
       ELSE UNCHANGED <<level, known, prepared, slots, conc, hp, dice, scrolls, fight,
                        pending, debt>>
    /\ IF part = "CharacterCreation" THEN CharacterCreation!Next
       ELSE UNCHANGED <<phase, pinned, draft, character, updates, rolled>>
    /\ IF part = "SavedCampaign" THEN SavedCampaign!Next
       ELSE UNCHANGED <<hero, savedFight, clock, events, actors, sustained, savedParty,
                        savedRemains, quest, advance, loaded>>

allVars == <<part, inv, shared, party, stock, acquired, fence, charge, shining, objects, life,
             remains, looted, spent, tampered, level, known, prepared, slots, conc, hp, dice,
             scrolls, fight, pending, debt, phase, pinned, draft, character, updates, rolled,
             hero, savedFight, clock, events, actors, sustained, savedParty, savedRemains,
             quest, advance, loaded>>

Spec == Init /\ [][Next]_allVars

-----------------------------------------------------------------------------
(* What is checked of each component, by theme.                             *)

\* Every component keeps its types.
TypeOK ==
    /\ part = "Possessions" => Possessions!TypeOK
    /\ part = "Magic" => Magic!TypeOK
    /\ part = "CharacterCreation" => CharacterCreation!TypeOK
    /\ part = "SavedCampaign" => SavedCampaign!TypeOK

\* What the party carries stays whole: wards protect while they are worn, a
\* slot holds one item, and bags keep their contents (equipment, containers).
GoodsWhole ==
    /\ part = "Possessions" =>
          /\ Possessions!WardShinesWhileWorn
          /\ Possessions!OneItemPerSlot
          /\ Possessions!BagsWhole

\* The hero adds up: slots and repertoire are those of the level, a reaction
\* that is offered can be taken, sheet and rolls agree, and a save reads back as a hero and party in one piece.
HeroSound ==
    /\ part = "Magic" =>
          /\ Magic!SlotsAddUp
          /\ Magic!AwakeToConcentrate
          /\ Magic!RepertoireFits
          /\ Magic!OffersCastable
    /\ part = "CharacterCreation" =>
          /\ CharacterCreation!RollStands
          /\ CharacterCreation!NoSkillWasted
          /\ CharacterCreation!ScoresAsChosen
    /\ part = "SavedCampaign" => SavedCampaign!EveryoneAccounted /\ SavedCampaign!HeroWhole

\* What no step may do: make or lose units (but those of a doubled entry), or change a campaign by reading it once more, by the weather, or without leaving an issue.
StepsKeep ==
    [][/\ part = "Possessions" => Possessions!UnitsConserved
       /\ part = "SavedCampaign" =>
          /\ SavedCampaign!LoadsOnce
          /\ SavedCampaign!DecayIsSettled
          /\ SavedCampaign!ZonesLeaveAnIssue]_allVars
=============================================================================
