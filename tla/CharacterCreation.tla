-------------------------- MODULE CharacterCreation --------------------------
(***************************************************************************)
(* How the hero enters play: ability scores rolled once by the engine, the *)
(* character_create command with canonical content options or with the     *)
(* legacy presets, and the edits character_update still allows afterwards. *)
(* A campaign is either pinned to the installed rules pack or to an older  *)
(* one. Names, equipment, features and hit points are left out; a class    *)
(* and a background are the skills they offer.                             *)
(***************************************************************************)
EXTENDS Naturals, FiniteSets, Functions

CONSTANTS Abilities,    \* the ability scores of a sheet
          Scores,       \* the values a score may have here
          Array,        \* the standard array, an assignment to Abilities
          Cap,          \* the maximum of a level-one score
          Bonus,        \* species -> [ability -> fixed bonus]
          Floating,     \* species -> number of floating +1 bonuses
          Classes,      \* class -> [options, count]
          Backgrounds,  \* background -> [fixed, options, count]
          MaxUpdates    \* bound on character_update commands

VARIABLES phase,      \* state.phase
          pinned,     \* state.rulesVersion = OPEN5E_RULES_VERSION
          draft,      \* characterCreation.abilityScoreDraft, or NoDraft
          character,  \* the sheet
          updates,    \* character_update commands so far
          rolled      \* every set of scores the engine ever rolled

vars == <<phase, pinned, draft, character, updates, rolled>>

NoDraft == [id |-> 0]
Sheets == [Abilities -> Scores]
Blank == [created |-> FALSE]

Skills == UNION ({Classes[c].options : c \in DOMAIN Classes}
            \cup {Backgrounds[b].options \cup Backgrounds[b].fixed :
                    b \in DOMAIN Backgrounds})

Init ==
  /\ phase = "character_creation"
  /\ pinned \in BOOLEAN
  /\ draft = NoDraft
  /\ character = Blank
  /\ updates = 0
  /\ rolled = {}

InCreation == phase = "character_creation" /\ ~character.created

-----------------------------------------------------------------------------
(* Rolling: 4d6, the lowest die dropped, one set per campaign.             *)
-----------------------------------------------------------------------------
\* A mutant of MayRoll: a player may roll until the dice please.
MayRoll_Again == InCreation

MayRoll == InCreation /\ draft = NoDraft

RollStats ==
  /\ MayRoll
  /\ \E scores \in Sheets :
       /\ draft' = [id |-> 1, scores |-> scores]
       /\ rolled' = rolled \cup {scores}
  /\ UNCHANGED <<phase, pinned, character, updates>>

-----------------------------------------------------------------------------
(* Choices.                                                                *)
-----------------------------------------------------------------------------

\* sameSortedScores: one assignment is a rearrangement of the other.
SameScores(a, b) ==
  \A s \in Scores : Cardinality({x \in Abilities : a[x] = s})
                      = Cardinality({x \in Abilities : b[x] = s})

\* The base scores a method accepts; class_default accepts any legal ones.
Assignable(method, base, id) ==
  /\ method = "standard_array" => SameScores(base, Array)
  /\ method = "rolled" => /\ draft /= NoDraft
                          /\ draft.id = id
                          /\ SameScores(base, draft.scores)

\* resolveAbilityBonusChoices: distinct abilities without a fixed bonus.
Bonuses(species) ==
  {chosen \in SUBSET {a \in Abilities : Bonus[species][a] = 0} :
     Cardinality(chosen) = Floating[species]}

Raised(base, species, chosen) ==
  [a \in Abilities |-> base[a] + Bonus[species][a] + (IF a \in chosen THEN 1 ELSE 0)]

WithinCap(scores) == \A a \in Abilities : scores[a] <= Cap

\* canPartitionSkillChoices: a backtracking search that gives every chosen
\* skill to the class or to the background; here, the split it looks for.
Splits(chosen, class, background) ==
  \E own \in SUBSET chosen :
    /\ own \subseteq Classes[class].options
    /\ chosen \ own \subseteq Backgrounds[background].options
    /\ Cardinality(own) = Classes[class].count
    /\ Cardinality(chosen \ own) = Backgrounds[background].count

\* A mutant of SkillChoices: a fixed proficiency may be chosen once more.
SkillChoices_Repeated(class, background) ==
  {chosen \in SUBSET Skills :
     /\ Cardinality(chosen) = Classes[class].count + Backgrounds[background].count
     /\ Splits(chosen, class, background)}

SkillChoices(class, background) ==
  {chosen \in SUBSET Skills :
     /\ Cardinality(chosen) = Classes[class].count + Backgrounds[background].count
     /\ chosen \subseteq Classes[class].options \cup Backgrounds[background].options
     /\ chosen \cap Backgrounds[background].fixed = {}
     /\ Splits(chosen, class, background)}

-----------------------------------------------------------------------------
(* character_create.                                                       *)
-----------------------------------------------------------------------------
Enter(sheet) ==
  /\ character' = sheet
  /\ draft' = NoDraft
  /\ phase' = "tutorial"
  /\ UNCHANGED <<pinned, updates, rolled>>

CreateCanonical ==
  /\ InCreation
  /\ pinned
  /\ \E species \in DOMAIN Bonus, class \in DOMAIN Classes,
        background \in DOMAIN Backgrounds, base \in Sheets,
        method \in {"class_default", "standard_array", "rolled"}, id \in 0..1 :
       /\ Assignable(method, base, id)
       /\ \E bonuses \in Bonuses(species), chosen \in SkillChoices(class, background) :
            /\ WithinCap(Raised(base, species, bonuses))
            /\ Enter([created |-> TRUE, source |-> "canonical", method |-> method,
                      base |-> base, abilities |-> Raised(base, species, bonuses),
                      class |-> class, background |-> background, chosen |-> chosen,
                      skills |-> chosen \cup Backgrounds[background].fixed])

\* The legacy presets take the scores as they come, without method or cap.
CreateLegacy ==
  /\ InCreation
  /\ \E species \in DOMAIN Bonus, base \in Sheets :
       Enter([created |-> TRUE, source |-> "legacy", base |-> base,
              abilities |-> Raised(base, species, {})])

-----------------------------------------------------------------------------
(* character_update: what came from a source stays as it was chosen.       *)
-----------------------------------------------------------------------------
\* A mutant of Editable: the lock on source-backed scores is forgotten.
Editable_Always(sheet) == TRUE

Editable(sheet) == sheet.source = "legacy"

UpdateScores ==
  /\ character.created
  /\ updates < MaxUpdates
  /\ Editable(character)
  /\ \E scores \in Sheets : character' = [character EXCEPT !.abilities = scores]
  /\ updates' = updates + 1
  /\ UNCHANGED <<phase, pinned, draft, rolled>>

Next == RollStats \/ CreateCanonical \/ CreateLegacy \/ UpdateScores

Spec == Init /\ [][Next]_vars

-----------------------------------------------------------------------------
TypeOK ==
  /\ phase \in {"character_creation", "tutorial"}
  /\ pinned \in BOOLEAN
  /\ draft = NoDraft \/ draft.scores \in Sheets
  /\ character.created \in BOOLEAN
  /\ updates \in 0..MaxUpdates
  /\ rolled \in SUBSET Sheets

\* A hero made from rolled scores holds a rearrangement of every set the
\* engine rolled for the campaign: nobody rolls until the dice please, and
\* no result is used twice or left out.
RollStands ==
  (/\ character.created
   /\ character.source = "canonical"
   /\ character.method = "rolled") =>
      /\ rolled /= {}
      /\ \A scores \in rolled :
           \E perm \in [Abilities -> Abilities] :
             /\ Range(perm) = Abilities
             /\ character.base = [a \in Abilities |-> scores[perm[a]]]

\* A hero from canonical options has as many different skills as the class
\* and the background grant together: no choice is lost on a skill the
\* background gives anyway.
NoSkillWasted ==
  (character.created /\ character.source = "canonical") =>
    Cardinality(character.skills)
      = Classes[character.class].count + Backgrounds[character.background].count
          + Cardinality(Backgrounds[character.background].fixed)

\* The scores of a hero from canonical options are the chosen base scores,
\* never above the level-one maximum, from creation on and through every
\* later edit of the sheet.
ScoresAsChosen ==
  (character.created /\ character.source = "canonical") =>
    /\ WithinCap(character.abilities)
    /\ \A a \in Abilities : character.abilities[a] \in character.base[a]..Cap
    /\ \E species \in DOMAIN Bonus : \E bonuses \in Bonuses(species) :
         character.abilities = Raised(character.base, species, bonuses)

=============================================================================
