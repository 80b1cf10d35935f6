--------------------------- MODULE GuardEncounter ---------------------------
(***************************************************************************)
(* An encounter with guards who may surrender ("guards-surrender-v1"), the    *)
(* companion who fights beside the hero, and the custody a surrender of the    *)
(* hero leads to (src/engine-domain.ts). Damage is a number of half strengths: *)
(* a guard has two, and offers to surrender with one left once another fell.    *)
(*                                                                         *)
(* A turn order is rolled by the engine: any permutation. One companion stands *)
(* for the controlled actors, and for the NPCs who share a captivity; one      *)
(* warden for the guards outside the encounter. Positions are module Tactical's *)
(* and hit points of the hero module BossEncounter's: here a plan has left a    *)
(* foe's reach or not, walls stand between the hero and some of the guards, and *)
(* a foe's attack kills or not. Guards have one attack and no other program.    *)
(*                                                                         *)
(* An operator named X_Y is X with a deliberate fault: it is never part of   *)
(* the specification, and only shows that a property can fail.               *)
(***************************************************************************)
EXTENDS Naturals, Sequences, FiniteSets, Functions

CONSTANTS
    Foes,        \* the guards
    Orders,      \* bound: the turn orders the dice may give
    MaxFights,   \* bound: encounters
    MaxGroups    \* bound: custody groups

VARIABLES
    fight,     \* combat: status, lifecycle, turn
    hp,        \* enemies
    captured,  \* guards taken captive: not alive any more
    wolf,      \* the controlled actor
    held,      \* custody: group of the hero and of the companion (0: free)
    source,    \* sourceGuardId of each custody group
    bounds,    \* fights and groups used
    fled,      \* ghost: the groups the hero escaped from
    strikes    \* ghost: attacks the hero's side made with actions since the hero's turn began

vars == <<fight, hp, captured, wolf, held, source, bounds, fled, strikes>>

Hero == "hero"
Wolf == "wolf"
Warden == "warden"
NoOne == "none"
Actors == Foes \cup {Hero}

\* The order of the encounter, and the first of a set of guards in it.
Rank == CHOOSE r \in Injection(Foes, 1..Cardinality(Foes)) : TRUE
First(guards) == CHOOSE g \in guards : \A h \in guards : Rank[g] <= Rank[h]

Alive(h, c) == {g \in Foes : h[g] > 0 /\ g \notin c}
Living == Alive(hp, captured)

NoFight ==
    [status |-> "idle", phase |-> "active", outcome |-> NoOne, order |-> <<>>, active |-> NoOne,
     action |-> FALSE, bonus |-> FALSE, offers |-> <<>>, left |-> FALSE,
     hidden |-> {}]   \* the guards with total cover from the hero, who has it from them

Init ==
    /\ fight = NoFight
    /\ hp = [g \in Foes |-> 0] /\ captured = {}
    /\ wolf = [status |-> "none", action |-> FALSE, bonus |-> FALSE, acted |-> FALSE]
    /\ held = [a \in {Hero, Wolf} |-> 0]
    /\ source = [n \in 1..MaxGroups |-> NoOne]
    /\ bounds = [fights |-> 0, groups |-> 0]
    /\ fled = {} /\ strikes = 0

Going == fight.status = "active"
HeroTurn == Going /\ fight.active = Hero
Free == held[Hero] = 0

-----------------------------------------------------------------------------
(* Initiative                                                               *)

\* The next of the order, dead or alive.
NextActor_Any(f, from, alive) ==
    LET at == CHOOSE i \in 1..Len(f.order) : f.order[i] = from
    IN f.order[(at % Len(f.order)) + 1]

\* lifecycleNextActorId(): the next of the order who is still there
NextActor(f, from, alive) ==
    LET n == Len(f.order)
        at == CHOOSE i \in 1..n : f.order[i] = from
        Live(k) == f.order[((at - 1 + k) % n) + 1] \in alive \cup {Hero}
        first == CHOOSE k \in 1..n : Live(k) /\ \A j \in 1..(k - 1) : ~Live(j)
    IN f.order[((at - 1 + first) % n) + 1]

\* resolveCombatStart() and encounterLifecycleForProfile(): the stealthy hero
\* goes first, a noticed one where the dice put it. What the companion did in
\* the last fight's turn is not forgotten before the next round.
Start(order, hidden) ==
    /\ ~Going /\ Free /\ bounds.fights < MaxFights
    /\ fight' = [NoFight EXCEPT !.status = "active", !.order = order, !.active = order[1],
                                !.hidden = hidden]
    /\ hp' = [g \in Foes |-> 2] /\ captured' = {}
    /\ bounds' = [bounds EXCEPT !.fights = @ + 1]
    /\ strikes' = 0
    /\ UNCHANGED <<wolf, held, source, fled>>

-----------------------------------------------------------------------------
(* Morale                                                                   *)

Offered(f, g) == \E i \in DOMAIN f.offers : f.offers[i].target = g

Open(f, g) == \E i \in DOMAIN f.offers : f.offers[i] = [target |-> g, status |-> "offered"]

\* Every wavering guard, whether it has offered before or not.
Wavering_Again(f, h, c) == {g \in Alive(h, c) : h[g] <= 1}

\* maybeOfferSurrender(): guards at half their strength who never offered
Wavering(f, h, c) == {g \in Alive(h, c) : h[g] <= 1 /\ ~Offered(f, g)}

\* resolveProfileDefeatOutcome(): after an attack of the hero defeats a guard
Defeated(f, h) ==
    IF Alive(h, captured) = {}
    THEN [f EXCEPT !.status = "ended", !.active = NoOne, !.phase = "terminal", !.outcome = "killed"]
    ELSE IF Wavering(f, h, captured) = {} THEN f
    ELSE [f EXCEPT !.phase = "resolving",
                   !.offers = Append(@, [target |-> First(Wavering(f, h, captured)), status |-> "offered"])]

Struck(g, d) == [hp EXCEPT ![g] = IF @ > d THEN @ - d ELSE 0]

MayAttack == HeroTurn /\ Free /\ fight.phase # "resolving" /\ ~fight.action

\* resolveCombatAction(): nobody is struck through a wall
Attack(g, d) ==
    /\ MayAttack /\ g \in Living \ fight.hidden
    /\ hp' = Struck(g, d)
    /\ LET f == [fight EXCEPT !.action = TRUE] IN
        fight' = IF hp'[g] = 0 THEN Defeated(f, hp') ELSE f
    /\ strikes' = strikes + 1
    /\ UNCHANGED <<captured, wolf, held, source, bounds, fled>>

\* A damaging spell (resolveCastSpell()) is not asked about the pending offer,
\* triggers no morale, ends the encounter without an outcome, and passes the
\* turn on by itself.
Cast(g, d) ==
    /\ HeroTurn /\ Free /\ ~fight.action
    /\ g \in Living
    /\ hp' = Struck(g, d)
    /\ LET f == [fight EXCEPT !.action = TRUE] IN
        fight' = IF Alive(hp', captured) = {} THEN [f EXCEPT !.status = "ended", !.active = NoOne]
                 ELSE [f EXCEPT !.active = NextActor(f, Hero, Alive(hp', captured))]
    /\ strikes' = strikes + 1
    /\ UNCHANGED <<captured, wolf, held, source, bounds, fled>>

\* a committed movement plan: whether it leaves a foe's reach, and who is out of
\* sight where it ends
Move(left, hidden) ==
    /\ HeroTurn /\ Free
    /\ fight' = [fight EXCEPT !.left = left, !.hidden = hidden]
    /\ UNCHANGED <<hp, captured, wolf, held, source, bounds, strikes, fled>>

Answered(f, g, status) ==
    [f EXCEPT !.offers = [i \in DOMAIN @ |-> IF @[i].target = g /\ @[i].status = "offered"
                                             THEN [@[i] EXCEPT !.status = status] ELSE @[i]]]

\* The outcome is kept while the fight goes on.
Ended_Open(f, outcome) == [f EXCEPT !.phase = "terminal", !.outcome = outcome]

Ended(f, outcome) ==
    [f EXCEPT !.status = "ended", !.active = NoOne, !.phase = "terminal", !.outcome = outcome]

\* resolveEncounterDecision()
Decidable == HeroTurn /\ Free /\ fight.outcome = NoOne

Retreat ==
    /\ Decidable /\ fight.left
    /\ fight' = Ended(fight, "escaped")
    /\ UNCHANGED <<hp, captured, wolf, held, source, bounds, strikes, fled>>

Accept(g) ==
    /\ Decidable /\ Open(fight, g)
    /\ fight' = Ended(Answered(fight, g, "accepted"), "surrendered")
    /\ UNCHANGED <<hp, captured, wolf, held, source, bounds, strikes, fled>>

Capture(g) ==
    /\ Decidable /\ Open(fight, g)
    /\ fight' = Ended(Answered(fight, g, "captured"), "captured")
    /\ captured' = captured \cup {g}
    /\ UNCHANGED <<hp, wolf, held, source, bounds, strikes, fled>>

Refuse(g, status) ==
    /\ Decidable /\ Open(fight, g)
    /\ fight' = [Answered(fight, g, status) EXCEPT !.phase = "active"]
    /\ UNCHANGED <<hp, captured, wolf, held, source, bounds, strikes, fled>>

-----------------------------------------------------------------------------
(* Turns                                                                    *)

\* applyControlledActorFallback(): an idle companion guards
Guarding(w) ==
    IF w.status = "active" /\ ~w.acted THEN [w EXCEPT !.action = TRUE, !.acted = TRUE] ELSE w

MayEnd == HeroTurn /\ Free /\ fight.phase # "resolving"

\* resolvePlayerEndTurn(), and resolveSkippedCharacterTurn() for the hero who
\* cannot act, whom no pending offer holds up
EndTurn(skipped) ==
    /\ HeroTurn /\ Free
    /\ ~skipped => MayEnd
    /\ wolf' = Guarding(wolf)
    /\ fight' = [fight EXCEPT !.active = NextActor(fight, Hero, Living), !.action = @ \/ skipped]
    /\ UNCHANGED <<hp, captured, held, source, bounds, strikes, fled>>

\* resetControlledActorTurns()
Fresh(w) ==
    IF w.status = "active" THEN [w EXCEPT !.action = FALSE, !.bonus = FALSE, !.acted = FALSE] ELSE w

\* A foe's turn: it may kill the hero, which ends the fight without an outcome.
FoeTurn(f, foe, kills) ==
    LET next == NextActor(f, foe, Living) IN
    IF kills THEN /\ fight' = [f EXCEPT !.status = "ended", !.active = NoOne]
                  /\ UNCHANGED <<wolf, strikes>>
    ELSE IF next # Hero THEN /\ fight' = [f EXCEPT !.active = next]
                             /\ UNCHANGED <<wolf, strikes>>
    ELSE /\ fight' = [f EXCEPT !.active = Hero, !.action = FALSE, !.bonus = FALSE]
         /\ wolf' = Fresh(wolf)
         /\ strikes' = 0

FoesTurn == Going /\ Free /\ fight.active \in Living

\* resolveAdvanceTurn() on a foe's turn, which a foe behind a wall cannot take
FoeActs(kills) ==
    /\ FoesTurn /\ fight.active \notin fight.hidden
    /\ FoeTurn(fight, fight.active, kills)
    /\ UNCHANGED <<hp, captured, held, source, bounds, fled>>

\* resolveAdvanceTurn() on the hero's turn, for callers that use it to hand
\* over: the first living foe acts, whoever is next, whatever is pending
Advance(kills) ==
    /\ HeroTurn /\ Free /\ Living # {} /\ First(Living) \notin fight.hidden
    /\ FoeTurn(fight, First(Living), kills)
    /\ UNCHANGED <<hp, captured, held, source, bounds, fled>>

-----------------------------------------------------------------------------
(* The companion                                                            *)

\* resolveControlledActorCreate()
Join ==
    /\ wolf.status # "active"
    /\ wolf' = [status |-> "active", action |-> FALSE, bonus |-> FALSE, acted |-> FALSE]
    /\ held' = [held EXCEPT ![Wolf] = 0]
    /\ UNCHANGED <<fight, hp, captured, source, bounds, strikes, fled>>

\* The controller's action is left alone.
Spending_Own(f, slot) == f

Spending(f, slot) == IF slot = "action" THEN [f EXCEPT !.action = TRUE] ELSE [f EXCEPT !.bonus = TRUE]

Commandable ==
    /\ HeroTurn /\ Free /\ fight.phase # "resolving"
    /\ wolf.status = "active" /\ held[Wolf] = 0

\* resolveControlledActorCommand(): guard or attack cost the controller's
\* action and its own, following the bonus actions. Its kills trigger no morale
\* and give the encounter no outcome.
CommandAttack(g, d) ==
    /\ Commandable /\ ~fight.action /\ ~wolf.action
    /\ g \in Living
    /\ hp' = Struck(g, d)
    /\ fight' = IF Alive(hp', captured) = {}
                THEN [Spending(fight, "action") EXCEPT !.status = "ended", !.active = NoOne]
                ELSE Spending(fight, "action")
    /\ wolf' = [wolf EXCEPT !.action = TRUE, !.acted = TRUE]
    /\ strikes' = strikes + 1
    /\ UNCHANGED <<captured, held, source, bounds, fled>>

CommandGuard ==
    /\ Commandable /\ ~fight.action /\ ~wolf.action
    /\ fight' = Spending(fight, "action")
    /\ wolf' = [wolf EXCEPT !.action = TRUE, !.acted = TRUE]
    /\ UNCHANGED <<hp, captured, held, source, bounds, strikes, fled>>

CommandFollow ==
    /\ Commandable /\ ~fight.bonus /\ ~wolf.bonus
    /\ fight' = Spending(fight, "bonus")
    /\ wolf' = [wolf EXCEPT !.bonus = TRUE, !.acted = TRUE]
    /\ UNCHANGED <<hp, captured, held, source, bounds, strikes, fled>>

\* resolveControlledActorDismiss(): a captive cannot be dismissed
Dismiss ==
    /\ wolf.status = "active" /\ held[Wolf] = 0
    /\ wolf' = [wolf EXCEPT !.status = "dismissed", !.acted = FALSE]
    /\ UNCHANGED <<fight, hp, captured, held, source, bounds, strikes, fled>>

-----------------------------------------------------------------------------
(* Custody (resolveCustodyAction())                                          *)

\* custodyGuard(): the warden, or a living guard of the last encounter
Guards == {Warden} \cup (IF fight.status = "idle" THEN {} ELSE Living)

\* Surrender leaves the fight going.
Surrendered_Fighting(f) == f

Surrendered(f) == IF f.status = "active" THEN Ended(f, "player_surrendered") ELSE f

Surrender(guard, others) ==
    /\ Free /\ guard \in Guards
    /\ Going => HeroTurn
    /\ bounds.groups < MaxGroups
    /\ Wolf \in others => wolf.status # "none"
    /\ bounds' = [bounds EXCEPT !.groups = @ + 1]
    /\ held' = [a \in {Hero, Wolf} |-> IF a \in others \cup {Hero} THEN bounds.groups + 1 ELSE held[a]]
    /\ source' = [source EXCEPT ![bounds.groups + 1] = guard]
    /\ fight' = Surrendered(fight)
    /\ UNCHANGED <<hp, captured, wolf, strikes, fled>>

\* Only those named go free.
Released_Named(n, targets) == [a \in {Hero, Wolf} |-> IF held[a] = n /\ a \in targets THEN 0 ELSE held[a]]

Released(n, targets) == [a \in {Hero, Wolf} |-> IF held[a] = n THEN 0 ELSE held[a]]

\* a release names its targets, or means the hero's group
Release(guard, targets) ==
    LET groups == {held[a] : a \in targets}
        n == IF targets = {} THEN held[Hero] ELSE held[CHOOSE a \in targets : TRUE]
    IN /\ 0 \notin groups /\ Cardinality(groups) <= 1
       /\ n # 0 /\ (~Free => n = held[Hero])
       /\ guard \in Guards /\ guard = source[n]
       /\ held' = Released(n, targets)
       /\ UNCHANGED <<fight, hp, captured, wolf, source, bounds, strikes, fled>>

\* escape frees the hero alone
Escape ==
    /\ ~Free /\ ~Going
    /\ held' = [held EXCEPT ![Hero] = 0]
    /\ fled' = fled \cup {held[Hero]}
    /\ UNCHANGED <<fight, hp, captured, wolf, source, bounds, strikes>>

-----------------------------------------------------------------------------
(* The menu of actions                                                      *)

\* controlledActorLegalCommands()
Legal(slot) ==
    /\ HeroTurn /\ wolf.status = "active" /\ held[Wolf] = 0
    /\ ~fight[slot] /\ ~wolf[slot]

\* deriveActionOffers(): what the player is told can be done now
Offers ==
    (IF ~Free THEN {"escape"} ELSE {})
    \cup (IF ~Going THEN {}
          ELSE IF HeroTurn /\ fight.phase = "resolving" THEN {"answer", "retreat"}
          ELSE IF ~HeroTurn THEN {"advance_turn"}
          ELSE {"end_turn"}
               \cup (IF ~fight.action /\ Living # {} THEN {"attack"} ELSE {})
               \cup (IF \E slot \in {"action", "bonus"} : Legal(slot) THEN {"command"} ELSE {}))

Takeable(offer) ==
    CASE offer = "escape" -> ~Free /\ ~Going
      [] offer = "answer" -> Decidable /\ \E g \in Foes : Open(fight, g)
      [] offer = "retreat" -> Decidable /\ fight.left
      [] offer = "advance_turn" -> FoesTurn /\ fight.active \notin fight.hidden
      [] offer = "end_turn" -> MayEnd
      [] offer = "attack" -> MayAttack /\ Living \ fight.hidden # {}
      [] offer = "command" -> Commandable /\ \E slot \in {"action", "bonus"} : ~fight[slot] /\ ~wolf[slot]

-----------------------------------------------------------------------------

Next ==
    \/ \E order \in Orders, hidden \in SUBSET Foes : Start(order, hidden)
    \/ \E g \in Foes, d \in 0..2 : Attack(g, d) \/ Cast(g, d) \/ CommandAttack(g, d)
    \/ \E left \in BOOLEAN, hidden \in SUBSET Foes : Move(left, hidden)
    \/ Retreat
    \/ \E g \in Foes : Accept(g) \/ Capture(g) \/ \E status \in {"pursued", "rejected"} : Refuse(g, status)
    \/ \E skipped \in BOOLEAN : EndTurn(skipped)
    \/ \E kills \in BOOLEAN : FoeActs(kills) \/ Advance(kills)
    \/ Join \/ CommandGuard \/ CommandFollow \/ Dismiss
    \/ \E guard \in Foes \cup {Warden}, others \in SUBSET {Hero, Wolf} :
        Surrender(guard, others) \/ Release(guard, others)
    \/ Escape

Spec == Init /\ [][Next]_vars

-----------------------------------------------------------------------------
(* Properties                                                               *)

TypeOK ==
    /\ fight.status \in {"idle", "active", "ended"} /\ fight.active \in Actors \cup {NoOne}
    /\ fight.phase \in {"active", "resolving", "terminal"}
    /\ fight.hidden \subseteq Foes
    /\ hp \in [Foes -> 0..2] /\ captured \subseteq Foes
    /\ wolf.status \in {"none", "active", "dismissed"}
    /\ held \in [{Hero, Wolf} -> 0..MaxGroups]
    /\ Going => fight.active # NoOne

\* A guard offers to surrender at most once in an encounter, so a refusal is
\* final for that guard (maybeOfferSurrender(), alreadyOffered).
OneOfferEach == \A i, j \in DOMAIN fight.offers : fight.offers[i].target = fight.offers[j].target => i = j

\* In one turn of the hero the hero and everyone commanded strike once between
\* them, also when a spell passes the turn on and a hand-over brings it back.
OneStrikePerTurn == strikes <= 1

\* A hero under guard is in no fight, however it was taken and whoever is
\* still about (custody_restricted).
CustodyOutsideCombat == ~Free => ~Going

\* Whoever was taken with the hero goes free with the hero: a companion stays
\* in a group without the hero only when the hero escaped from it.
FreedTogether == held[Wolf] # 0 => held[Hero] = held[Wolf] \/ held[Wolf] \in fled

\* An encounter that has an outcome keeps it, its offers and its dead until the
\* next one starts.
OutcomeStands ==
    fight.outcome # NoOne /\ bounds'.fights = bounds.fights =>
     fight'.outcome = fight.outcome /\ fight'.offers = fight.offers /\ hp' = hp

\* The turn never rests on somebody who is not there to take it, the decision
\* the hero is held up by has an offer to decide on, and a companion who is said
\* to have legal commands can be commanded: it is no captive. And the menu does
\* not run dry: some action it offers is accepted, however the fight came to
\* this turn, unless it is the turn of a foe behind a wall. (That foe's turn is
\* offered and refused, and nothing else is offered: there the fight is stuck.)
TurnRests ==
    /\ Going => fight.active \in Living \cup {Hero}
    /\ HeroTurn /\ fight.phase = "resolving" => Decidable /\ \E g \in Foes : Open(fight, g)
    /\ fight.phase # "resolving" /\ (\E slot \in {"action", "bonus"} : Legal(slot)) => Commandable
    /\ Going => fight.active \in fight.hidden \/ \E offer \in Offers : Takeable(offer)

\* "A server-derived action choice. The caller may select an offer, but never
\* supplies its timing, cost, target set, or legality." (engine-contracts.ts)
\* Whatever the menu offers, some choice of it is accepted now. The code offers
\* a foe's turn, an attack and a retreat without asking what their handlers ask.
OffersTakeable == \A offer \in Offers : Takeable(offer)

\* The guard who waits for an answer to its offer stays alive until it gets one
\* ("Resolve the server-owned surrender offer before taking another combat
\* action").
OfferedGuardLives == \A g \in Foes : Going /\ Open(fight, g) => g \in Living

=============================================================================
