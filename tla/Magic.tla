------------------------------- MODULE Magic --------------------------------
(***************************************************************************)
(* The hero's spells (src/engine-domain.ts): what is learned and prepared, the  *)
(* slots a cast spends, concentration and what breaks it, the reaction offered   *)
(* when an attack would hit, the scroll, and rest and advancement, which give     *)
(* slots back.                                                                   *)
(*                                                                         *)
(* A spell is named for what it does. Aim, range, saves of the targets and the    *)
(* amounts of damage are left out: a damaging area spell may catch the hero. The   *)
(* foe is one, hit points are few, and dying is as far as the hero goes: the life  *)
(* of a dying hero is module BossEncounter's.                                      *)
(*                                                                         *)
(* An operator named X_Y is X with a deliberate fault: it is never part of   *)
(* the specification, and only shows that a property can fail.               *)
(***************************************************************************)
EXTENDS Naturals, FiniteSets, FiniteSetsExt

CONSTANTS
    Mode,        \* "known", "spellbook" or "prepared": the class's selectionMode
    Cantrips, Wards, Cures, Blasts,  \* spells by effect: a ward is the reaction spell
    Holding,     \* the blasts that need concentration
    Rank,        \* spell -> level, 0 for a cantrip
    SlotTable,   \* level of the hero -> slot level -> maximum
    KnownTable, CantripTable, PreparedTable,  \* level of the hero -> limit
    PactSlots,   \* slots return with a short rest
    MaxHp, Scrolls

VARIABLES
    level, known, prepared, slots,
    conc,      \* concentration: a spell or "none"
    hp, dice,  \* hit points and hit dice
    scrolls,
    fight,     \* whose turn, and what the hero has spent: action, reaction
    pending,   \* combat.pendingReaction
    debt       \* ghost: slots spent since they were all there

vars == <<level, known, prepared, slots, conc, hp, dice, scrolls, fight, pending, debt>>

Spells == Cantrips \cup Wards \cup Cures \cup Blasts
Levels == DOMAIN SlotTable
SlotLevels == DOMAIN SlotTable[1]
NoFight == [turn |-> "none", spent |-> {}]

Init ==
    /\ level = 1 /\ known = {} /\ prepared = {}
    /\ slots = SlotTable[1]
    /\ conc = "none" /\ hp = MaxHp /\ dice = 1 /\ scrolls = Scrolls
    /\ fight = NoFight /\ pending = FALSE
    /\ debt = 0

Leveled(S) == {s \in S : Rank[s] > 0}

\* highestAvailableSlotLevel()
Highest == IF \E n \in SlotLevels : SlotTable[level][n] > 0
           THEN Max({n \in SlotLevels : SlotTable[level][n] > 0}) ELSE 0

-----------------------------------------------------------------------------
(* Learning and preparing                                                   *)

\* The limit is the one of the level to come.
Room_Early(s) ==
    IF s \in Cantrips THEN Cardinality(known \cap Cantrips) <= CantripTable[level]
    ELSE Cardinality(Leveled(known)) <= KnownTable[level]

Room(s) ==
    IF s \in Cantrips THEN Cardinality(known \cap Cantrips) < CantripTable[level]
    ELSE Cardinality(Leveled(known)) < KnownTable[level]

\* resolveLearnSpell(): a class that prepares from its list learns cantrips only
Learn(s) ==
    /\ ~pending /\ s \notin known /\ Room(s)
    /\ s \notin Cantrips => Mode # "prepared" /\ Rank[s] <= Highest
    /\ known' = known \cup {s}
    /\ UNCHANGED <<level, prepared, slots, conc, hp, dice, scrolls, fight, pending, debt>>

\* resolvePrepareSpell()
Prepare(s) ==
    /\ ~pending /\ Mode # "known" /\ Rank[s] \in 1..Highest
    /\ Mode = "spellbook" => s \in known
    /\ s \notin prepared /\ Cardinality(prepared) < PreparedTable[level]
    /\ prepared' = prepared \cup {s}
    /\ UNCHANGED <<level, known, slots, conc, hp, dice, scrolls, fight, pending, debt>>

Unprepare(s) ==
    /\ ~pending /\ s \in prepared
    /\ prepared' = prepared \ {s}
    /\ UNCHANGED <<level, known, slots, conc, hp, dice, scrolls, fight, pending, debt>>

\* What can be cast now: cantrips and known spells, or prepared ones.
Available(s) == s \in IF Rank[s] = 0 \/ Mode = "known" THEN known ELSE prepared

-----------------------------------------------------------------------------
(* Slots                                                                    *)

\* selectSpellSlot(): the slot asked for, or the lowest that serves
Payable(s, n) == IF Rank[s] = 0 THEN n = 0 ELSE n \in SlotLevels /\ n >= Rank[s] /\ slots[n] > 0

\* A cast that heals is free.
Paid_NotCures(s, n) == IF n = 0 \/ s \in Cures THEN slots ELSE [slots EXCEPT ![n] = @ - 1]

Paid(s, n) == IF n = 0 THEN slots ELSE [slots EXCEPT ![n] = @ - 1]

Owed(s, n) == IF n = 0 THEN debt ELSE debt + 1

-----------------------------------------------------------------------------
(* Damage and concentration                                                 *)

\* A hero who falls goes on holding the spell.
Kept_Asleep(c, health) == c

\* applyConcentrationAndDownedState(): at zero the spell ends, else a save decides
\* (two saves, for a foe's hit: resolveAdvanceTurn() rolls a second one)
Kept(c, health) == IF health = 0 THEN "none" ELSE c

\* applyCharacterDamage()
Hurt(c, amount, held) ==
    /\ hp' = IF amount >= hp THEN 0 ELSE hp - amount
    /\ conc' = IF held THEN Kept(c, hp') ELSE "none"

-----------------------------------------------------------------------------
(* Casting                                                                  *)

Free(s, part) == fight.turn = "hero" /\ part \notin fight.spent /\ hp > 0 /\ ~pending /\ Available(s)

\* handoffPlayerActionInitiative(), or the end of the fight with the last foe
AfterAction(won) ==
    fight' = IF won THEN [fight EXCEPT !.turn = "none"]
             ELSE [turn |-> "foe", spent |-> fight.spent \cup {"action"}]

\* resolveCastSpell() of a damaging spell: it may take concentration, and its
\* area may hold the hero
CastBlast(s, n, self, held, won) ==
    /\ s \in Blasts \cup Cantrips /\ Free(s, "action") /\ Payable(s, n)
    /\ slots' = Paid(s, n) /\ debt' = Owed(s, n)
    /\ LET c == IF s \in Holding THEN s ELSE conc
       IN IF self THEN Hurt(c, 1, held) ELSE conc' = c /\ hp' = hp
    /\ AfterAction(won)
    /\ UNCHANGED <<level, known, prepared, dice, scrolls, pending>>

\* resolveHealingSpell() and resolveReviewedSpellScroll(): the scroll pays
CastCure(s, n, scroll) ==
    /\ s \in Cures /\ fight.turn = "hero" /\ "action" \notin fight.spent /\ ~pending
    /\ hp \in 1..(MaxHp - 1)
    /\ IF scroll THEN scrolls > 0 /\ n = 0 /\ Rank[s] <= Highest
       ELSE Available(s) /\ Payable(s, n)
    /\ scrolls' = IF scroll THEN scrolls - 1 ELSE scrolls
    /\ slots' = Paid(s, n) /\ debt' = Owed(s, n)
    /\ hp' = hp + 1
    /\ AfterAction(FALSE)
    /\ UNCHANGED <<level, known, prepared, conc, dice, pending>>

\* Nobody looks at the slots.
Offered_Unpaid == {s \in Wards : Available(s)}

\* eligibleIncomingHitReactions()
Offered == {s \in Wards : Available(s) /\ \E n \in SlotLevels : Payable(s, n)}

\* The foe hits: the hero is asked first while a ward can be cast.
\* resolveAdvanceTurn()
Attacked(amount, held) ==
    /\ fight.turn = "foe" /\ ~pending
    /\ IF Offered # {} /\ "reaction" \notin fight.spent /\ hp > 0
       THEN /\ pending' = TRUE
            /\ UNCHANGED <<hp, conc, fight>>
       ELSE /\ pending' = FALSE
            /\ Hurt(conc, amount, held)
            /\ fight' = [turn |-> "hero", spent |-> IF hp' = 0 THEN {"action"} ELSE {}]
    /\ UNCHANGED <<level, known, prepared, slots, dice, scrolls, debt>>

\* resolveReactionResponse(), resolveShieldCast(): the ward is cast or not, and
\* the stored attack is settled; amount is 0 when it misses
Answer(s, n, amount, held) ==
    /\ pending
    /\ s # "decline" => s \in Offered /\ Payable(s, n)
    /\ slots' = IF s = "decline" THEN slots ELSE Paid(s, n)
    /\ debt' = IF s = "decline" THEN debt ELSE Owed(s, n)
    /\ IF amount > 0 THEN Hurt(conc, amount, held) ELSE UNCHANGED <<hp, conc>>
    /\ pending' = FALSE
    /\ fight' = [turn |-> "hero", spent |-> IF hp' = 0 THEN {"action"} ELSE {}]
    /\ UNCHANGED <<level, known, prepared, dice, scrolls>>

-----------------------------------------------------------------------------
(* Fights, rest and advancement                                             *)

StartFight(turn) ==
    /\ fight.turn = "none" /\ hp > 0
    /\ fight' = [turn |-> turn, spent |-> {}]
    /\ UNCHANGED <<level, known, prepared, slots, conc, hp, dice, scrolls, pending, debt>>

\* resolveRest(): a short rest needs a hit die or pact slots to give back
ShortRest(heal) ==
    /\ fight.turn = "none" /\ hp > 0
    /\ dice > 0 \/ (PactSlots /\ slots # SlotTable[level])
    /\ hp' = IF dice > 0 /\ heal THEN Min({MaxHp, hp + 1}) ELSE hp
    /\ dice' = IF dice > 0 THEN dice - 1 ELSE 0
    /\ slots' = IF PactSlots THEN SlotTable[level] ELSE slots
    /\ debt' = IF PactSlots THEN 0 ELSE debt
    /\ UNCHANGED <<level, known, prepared, conc, scrolls, fight, pending>>

LongRest ==
    /\ fight.turn = "none" /\ hp > 0
    /\ hp' = MaxHp /\ dice' = Min({level, dice + 1})
    /\ slots' = SlotTable[level] /\ conc' = "none" /\ debt' = 0
    /\ UNCHANGED <<level, known, prepared, scrolls, fight, pending>>

\* resolveAdvancementApply(): the new level's slots are all there
LevelUp ==
    /\ fight.turn = "none" /\ level + 1 \in Levels
    /\ level' = level + 1 /\ dice' = dice + 1
    /\ hp' = Min({MaxHp, hp + 1})
    /\ slots' = SlotTable[level'] /\ debt' = 0
    /\ UNCHANGED <<known, prepared, conc, scrolls, fight, pending>>

-----------------------------------------------------------------------------

Next ==
    \/ \E s \in Spells : Learn(s) \/ Prepare(s) \/ Unprepare(s)
    \/ \E s \in Spells, n \in SlotLevels \cup {0}, held \in BOOLEAN :
        \/ \E self, won \in BOOLEAN : CastBlast(s, n, self, held, won)
        \/ \E scroll \in BOOLEAN : CastCure(s, n, scroll)
        \/ \E amount \in 0..2 : Answer(s, n, amount, held)
    \/ \E held \in BOOLEAN, amount \in 1..2 : Attacked(amount, held) \/ Answer("decline", 0, amount, held)
    \/ \E turn \in {"hero", "foe"} : StartFight(turn)
    \/ \E heal \in BOOLEAN : ShortRest(heal)
    \/ LongRest \/ LevelUp

Spec == Init /\ [][Next]_vars

-----------------------------------------------------------------------------
(* Properties                                                               *)

TypeOK ==
    /\ level \in Levels /\ known \subseteq Spells /\ prepared \subseteq Leveled(Spells)
    /\ slots \in [SlotLevels -> Nat] /\ conc \in Holding \cup {"none"}
    /\ hp \in 0..MaxHp /\ dice \in 0..level /\ scrolls \in 0..Scrolls

\* Slots and the casts that used them add up to what the level gives, over
\* casting, reactions, scrolls, rests and advancement.
SlotsAddUp ==
    /\ \A n \in SlotLevels : slots[n] <= SlotTable[level][n]
    /\ MapThenSumSet(LAMBDA n : slots[n], SlotLevels) + debt
        = MapThenSumSet(LAMBDA n : SlotTable[level][n], SlotLevels)

\* Nobody holds a spell at zero hit points, whatever brought the hero down: a
\* foe, a reaction that did not help, or the hero's own fire.
AwakeToConcentrate == hp = 0 => conc = "none"

\* The repertoire stays within the table of the level, and a spellbook caster
\* prepares from the book.
RepertoireFits ==
    /\ Cardinality(known \cap Cantrips) <= CantripTable[level]
    /\ Cardinality(Leveled(known)) <= KnownTable[level]
    /\ Cardinality(prepared) <= PreparedTable[level]
    /\ Mode = "spellbook" => prepared \subseteq known

\* The hero is asked about a ward only while one can be cast, so an offered
\* reaction can always be taken.
OffersCastable ==
    pending => /\ hp > 0 /\ "reaction" \notin fight.spent
               /\ \E s \in Wards \cap (known \cup prepared), n \in SlotLevels : n >= Rank[s] /\ slots[n] > 0

=============================================================================
