------------------------------- MODULE MCStory -------------------------------
(*****************************************************************************)
(* What happens around the hero in time: rests, journeys and quests, the    *)
(* situation, notices, contests, scenes, trade and crime, people who act by *)
(* themselves, and the party. Each behaviour is of one of these components, *)
(* chosen by part, while the others are idle: they share no state in the    *)
(* model, and one run explores them all. The constants are the bounds.      *)
(*****************************************************************************)
EXTENDS Naturals, Sequences

\* Adjudication: the effects that two clauses of a declaration may have.
ScriptPairs == {{"seize", "barred-door"}, {"pick-lock", "search"}, {"stealth", "stealth-check"}}

VARIABLES
    part,  \* the component this behaviour is of
    now, restType, lastRest, hp, dice, level, supplies, project, tutorial, events, effect,
    rumor, summon, errands, relic, item, burdened, claimed, pending, paid, excused,
    caseNow, sit, found, revealed, role, object, pressure, awake, thing, facts, knowledge,
    justified,
    notices, authorized,
    script, strain, planned, stored, contest, steps, lock, known, fighting, holder, streak,
    won,
    log, omen, room, scene, recap, told, tales, shown,
    stock, acquired, owned, hero, crimes, trust, repute, heat, promise, fenced, checks,
    agencyNow, npc, custody, agencyCrimes, ticks, removals,
    status, until, party, groupStock, world, groupNow, fight, acted

Chronicle == INSTANCE Chronicle WITH
    Errands <- {"first-light", "errand"}, Deadlines <- {0, 2}, ShortRest <- 1, LongRest <- 2,
    Day <- 3, Journey <- 2, FastJourney <- 1, Project <- 2, RumorDelay <- 1, EffectTime <- 2,
    MaxHp <- 1, HitDice <- 1, Supplies <- 1, MaxTime <- 4, MaxStarts <- 1

Situations == INSTANCE Situations WITH
    Clues <- {"hall clue"}, Interval <- 1, MaxPressure <- 2, MaxTime <- 3, MaxRevision <- 2,
    now <- caseNow

Notices == INSTANCE Notices WITH
    Names <- {"n1", "n2", "n3"}, Terms <- {"t1", "t2"}, MaxNotices <- 2

Adjudication == INSTANCE Adjudication WITH
    Places <- {"hall", "yard"}, Approaches <- {"a"}, Held <- {"gem"}, Threshold <- 2,
    Scripts <- ScriptPairs, MaxSteps <- 2

SceneRoom == INSTANCE SceneRoom WITH
    Threshold <- 2, MaxCount <- 3, MaxRefs <- 5, MaxEvents <- 5, MaxTales <- 2, Heard <- {2}

Market == INSTANCE Market WITH
    Merchants <- {"shop", "fence"}, Fences <- {"fence"}, Stock <- 1, MaxCrimes <- 2,
    MaxSales <- 1, MaxChecks <- 1

NpcAgency == INSTANCE NpcAgency WITH
    Triggers <- {"t1", "t2"}, Kept <- 3, MaxFailures <- 2, MaxInvocations <- 3, MaxTime <- 2,
    MaxCrimes <- 2, now <- agencyNow, crimes <- agencyCrimes

Party == INSTANCE Party WITH
    Companions <- {"f1", "s1"}, Summons <- {"s1"}, Scenes <- {"hall"}, Units <- 1,
    MaxTime <- 1, stock <- groupStock, now <- groupNow

Parts == {"Chronicle", "Situations", "Notices", "Adjudication", "SceneRoom", "Market",
          "NpcAgency", "Party"}

\* A component that this behaviour is not of.
Idle(v) == v = "idle"

Init ==
    /\ part \in Parts
    /\ IF part = "Chronicle" THEN Chronicle!Init
       ELSE Idle(now) /\ Idle(restType) /\ Idle(lastRest) /\ Idle(hp) /\ Idle(dice) /\
            Idle(level) /\ Idle(supplies) /\ Idle(project) /\ Idle(tutorial) /\ Idle(events) /\
            Idle(effect) /\ Idle(rumor) /\ Idle(summon) /\ Idle(errands) /\ Idle(relic) /\
            Idle(item) /\ Idle(burdened) /\ Idle(claimed) /\ Idle(pending) /\ Idle(paid) /\
            Idle(excused)
    /\ IF part = "Situations" THEN Situations!Init
       ELSE Idle(caseNow) /\ Idle(sit) /\ Idle(found) /\ Idle(revealed) /\ Idle(role) /\
            Idle(object) /\ Idle(pressure) /\ Idle(awake) /\ Idle(thing) /\ Idle(facts) /\
            Idle(knowledge) /\ Idle(justified)
    /\ IF part = "Notices" THEN Notices!Init
       ELSE Idle(notices) /\ Idle(authorized)
    /\ IF part = "Adjudication" THEN Adjudication!Init
       ELSE Idle(script) /\ Idle(strain) /\ Idle(planned) /\ Idle(stored) /\ Idle(contest) /\
            Idle(steps) /\ Idle(lock) /\ Idle(known) /\ Idle(fighting) /\ Idle(holder) /\
            Idle(streak) /\ Idle(won)
    /\ IF part = "SceneRoom" THEN SceneRoom!Init
       ELSE Idle(log) /\ Idle(omen) /\ Idle(room) /\ Idle(scene) /\ Idle(recap) /\
            Idle(told) /\ Idle(tales) /\ Idle(shown)
    /\ IF part = "Market" THEN Market!Init
       ELSE Idle(stock) /\ Idle(acquired) /\ Idle(owned) /\ Idle(hero) /\ Idle(crimes) /\
            Idle(trust) /\ Idle(repute) /\ Idle(heat) /\ Idle(promise) /\ Idle(fenced) /\
            Idle(checks)
    /\ IF part = "NpcAgency" THEN NpcAgency!Init
       ELSE Idle(agencyNow) /\ Idle(npc) /\ Idle(custody) /\ Idle(agencyCrimes) /\
            Idle(ticks) /\ Idle(removals)
    /\ IF part = "Party" THEN Party!Init
       ELSE Idle(status) /\ Idle(until) /\ Idle(party) /\ Idle(groupStock) /\ Idle(world) /\
            Idle(groupNow) /\ Idle(fight) /\ Idle(acted)

Next ==
    /\ UNCHANGED part
    /\ IF part = "Chronicle" THEN Chronicle!Next
       ELSE UNCHANGED <<now, restType, lastRest, hp, dice, level, supplies, project, tutorial,
                        events, effect, rumor, summon, errands, relic, item, burdened,
                        claimed, pending, paid, excused>>
    /\ IF part = "Situations" THEN Situations!Next
       ELSE UNCHANGED <<caseNow, sit, found, revealed, role, object, pressure, awake, thing,
                        facts, knowledge, justified>>
    /\ IF part = "Notices" THEN Notices!Next ELSE UNCHANGED <<notices, authorized>>
    /\ IF part = "Adjudication" THEN Adjudication!Next
       ELSE UNCHANGED <<script, strain, planned, stored, contest, steps, lock, known,
                        fighting, holder, streak, won>>
    /\ IF part = "SceneRoom" THEN SceneRoom!Next
       ELSE UNCHANGED <<log, omen, room, scene, recap, told, tales, shown>>
    /\ IF part = "Market" THEN Market!Next
       ELSE UNCHANGED <<stock, acquired, owned, hero, crimes, trust, repute, heat, promise,
                        fenced, checks>>
    /\ IF part = "NpcAgency" THEN NpcAgency!Next
       ELSE UNCHANGED <<agencyNow, npc, custody, agencyCrimes, ticks, removals>>
    /\ IF part = "Party" THEN Party!Next
       ELSE UNCHANGED <<status, until, party, groupStock, world, groupNow, fight, acted>>

allVars == <<part, now, restType, lastRest, hp, dice, level, supplies, project, tutorial, events,
             effect, rumor, summon, errands, relic, item, burdened, claimed, pending, paid,
             excused, caseNow, sit, found, revealed, role, object, pressure, awake, thing,
             facts, knowledge, justified, notices, authorized, script, strain, planned,
             stored, contest, steps, lock, known, fighting, holder, streak, won, log, omen,
             room, scene, recap, told, tales, shown, stock, acquired, owned, hero, crimes,
             trust, repute, heat, promise, fenced, checks, agencyNow, npc, custody,
             agencyCrimes, ticks, removals, status, until, party, groupStock, world, groupNow,
             fight, acted>>

Spec == Init /\ [][Next]_allVars

-----------------------------------------------------------------------------
(* What is checked of each component, by theme.                             *)

\* Every component keeps its types.
TypeOK ==
    /\ part = "Chronicle" => Chronicle!TypeOK
    /\ part = "Situations" => Situations!TypeOK
    /\ part = "Notices" => Notices!TypeOK
    /\ part = "Adjudication" => Adjudication!TypeOK
    /\ part = "SceneRoom" => SceneRoom!TypeOK
    /\ part = "Market" => Market!TypeOK
    /\ part = "NpcAgency" => NpcAgency!TypeOK
    /\ part = "Party" => Party!TypeOK

\* The story keeps its books: nothing is overdue, deadlines decide, rewards are
\* paid once, pressure follows the clock, knowledge is of the facts as they are,
\* a compromised approach is over, notices deliver their terms, scenes count,
\* surface and release each thing once, heat and breaches are those that were
\* earned, and nobody acts or reports twice, loses a unit or drops out of the
\* party.
StoryHolds ==
    /\ part = "Chronicle" =>
          /\ Chronicle!NothingOverdue
          /\ Chronicle!PaidOnce
          /\ Chronicle!DeadlineDecides
    /\ part = "Situations" =>
          /\ Situations!KnowledgeCurrent
          /\ Situations!PressureExact
          /\ Situations!OutcomeJustified
    /\ part = "Notices" => Notices!TermsAsAuthorized
    /\ part = "Adjudication" => Adjudication!FailuresEnd
    /\ part = "SceneRoom" =>
          /\ SceneRoom!IdleTurnsCountedOnce
          /\ SceneRoom!SurfacedOnce
          /\ SceneRoom!TalesReleased
          /\ SceneRoom!RecapWhole
    /\ part = "Market" => Market!UnitsKept /\ Market!HeatEarned /\ Market!BreachedOnce
    /\ part = "NpcAgency" =>
          /\ NpcAgency!ActsOnce
          /\ NpcAgency!WithinBudget
          /\ NpcAgency!ReportedOnce
          /\ NpcAgency!CircuitJustified
    /\ part = "Party" => Party!OneActionEach /\ Party!UnitsKept /\ Party!EveryoneCounted

\* What no step of the story may do: level up by more than was shown, seize
\* without the contest, fence known loot in a shop, decide a stalled scene early,
\* or reunite a party in two scenes.
StoryEarned ==
    [][/\ part = "Chronicle" => Chronicle!LeveledAsShown
       /\ part = "Adjudication" => Adjudication!SeizedByContest
       /\ part = "Market" => Market!NoKnownStolenGoods
       /\ part = "SceneRoom" => SceneRoom!DecisionsEarned
       /\ part = "Party" => Party!ReunionsAreWhole]_allVars
=============================================================================
