------------------------- MODULE BossEncounterProofs -------------------------
(***************************************************************************)
(* For every number of hit points, slots, points and rounds: the life of the*)
(* character stays consistent in every fight, and its death ends the fight; *)
(* the boss's clock, points, windows and reactions keep their types and all *)
(* the relations that the load check recomputes; and the hero's turn never  *)
(* ends without a window for the boss's tail.                               *)
(***************************************************************************)
EXTENDS BossEncounter, TLAPS

-----------------------------------------------------------------------------
(* The primitives                                                           *)

\* Damage of any strength leads from a consistent life to a consistent life
\* (applyCharacterDamage()).
LEMMA DamagedKeepsLife ==
    ASSUME NEW h, LifeOK(h), NEW n \in Nat, NEW critical \in BOOLEAN, NEW r \in Damaged(h, n, critical)
    PROVE  LifeOK(r)
<1>0. /\ h \in Lives
      /\ h.hp \in 0..MaxHp /\ h.life \in LifeStates /\ h.saves \in 0..3 /\ h.failures \in 0..3 /\ h.concentrates \in BOOLEAN
  BY DEF LifeOK, Lives
<1>1. CASE h.life = "dead"
  <2>1. r = h
    BY <1>1 DEF Damaged
  <2> QED
    BY <2>1
<1>2. CASE h.life # "dead" /\ h.hp > n
  <2>1. r \in Wounded(h, n)
    BY <1>2 DEF Damaged
  <2>2. PICK kept \in {h.concentrates, FALSE} : r = [h EXCEPT !.hp = h.hp - n, !.concentrates = kept]
    BY <2>1 DEF Wounded
  <2>3. h.life = "conscious" /\ h.saves = 0 /\ h.failures = 0
    BY <1>0, <1>2 DEF LifeOK
  <2>4. h.hp - n \in 1..MaxHp
    BY <1>0, <1>2, LifeAssumption
  <2>5. kept \in BOOLEAN
    BY <1>0, <2>2, Zenon
  <2>6. r = [hp |-> h.hp - n, life |-> "conscious", saves |-> 0, failures |-> 0, concentrates |-> kept]
    BY <1>0, <2>2, <2>3 DEF Lives
  <2> QED
    BY <2>4, <2>5, <2>6, LifeAssumption DEF LifeOK, Lives, LifeStates
<1>3. CASE h.life # "dead" /\ ~(h.hp > n) /\ h.hp > 0
  <2>1. r = [h EXCEPT !.hp = 0, !.life = "dying", !.concentrates = FALSE]
    BY <1>3 DEF Damaged, Downed
  <2>2. h.saves = 0 /\ h.failures = 0
    BY <1>3 DEF LifeOK
  <2>3. r = [hp |-> 0, life |-> "dying", saves |-> 0, failures |-> 0, concentrates |-> FALSE]
    BY <1>0, <2>1, <2>2 DEF Lives
  <2> QED
    BY <1>0, <2>3, LifeAssumption DEF LifeOK, Lives, LifeStates
<1>4. CASE h.life # "dead" /\ h.hp = 0
  <2>1. r = h \/ r = Struck(h, critical)
    BY <1>4 DEF Damaged
  <2>2. h.failures \in 0..2 /\ h.concentrates = FALSE
    BY <1>0, <1>4 DEF LifeOK, LifeStates
  <2>3. LifeOK(Struck(h, critical))
    <3> DEFINE fails == Capped(h.failures + (IF critical THEN 2 ELSE 1), 3)
               hit == [h EXCEPT !.life = "dying", !.saves = 0, !.failures = fails]
    <3>1. fails \in 1..3
      BY <2>2 DEF Capped
    <3>2. Struck(h, critical) = IF hit.failures = 3 THEN Dead(hit) ELSE hit
      BY DEF Struck
    <3> HIDE DEF fails
    <3>3. hit = [hp |-> 0, life |-> "dying", saves |-> 0, failures |-> fails, concentrates |-> h.concentrates]
      <4>1. h = [hp |-> h.hp, life |-> h.life, saves |-> h.saves, failures |-> h.failures,
                 concentrates |-> h.concentrates]
        BY <1>0 DEF Lives
      <4>2. ASSUME NEW f \in 1..3, NEW g, g = [h EXCEPT !.life = "dying", !.saves = 0, !.failures = f]
            PROVE  g = [hp |-> h.hp, life |-> "dying", saves |-> 0, failures |-> f, concentrates |-> h.concentrates]
        BY <4>1, <4>2
      <4>3. hit = [hp |-> h.hp, life |-> "dying", saves |-> 0, failures |-> fails, concentrates |-> h.concentrates]
        BY <3>1, <4>2, Zenon
      <4> QED
        BY <1>4, <4>3, Zenon
    <3> HIDE DEF hit
    <3>4. hit = [hp |-> 0, life |-> "dying", saves |-> 0, failures |-> fails, concentrates |-> FALSE]
      BY <2>2, <3>3, Zenon
    <3>5. CASE fails = 3
      <4>1. Struck(h, critical)
              = [hp |-> 0, life |-> "dead", saves |-> 0, failures |-> fails, concentrates |-> FALSE]
        BY <3>2, <3>4, <3>5 DEF Dead
      <4> QED
        BY <3>1, <3>5, <4>1, LifeAssumption DEF LifeOK, Lives, LifeStates
    <3>6. CASE fails # 3
      <4>1. Struck(h, critical) = hit
        BY <3>2, <3>4, <3>6
      <4> QED
        BY <3>1, <3>4, <3>6, <4>1, LifeAssumption DEF LifeOK, Lives, LifeStates
    <3> QED
      BY <3>5, <3>6
  <2> QED
    BY <2>1, <2>3
<1> QED
  BY <1>0, <1>1, <1>2, <1>3, <1>4

\* Healing wakes whoever is not dead and resets the counters (applyHealing()).
LEMMA HealedKeepsLife ==
    ASSUME NEW h, LifeOK(h), NEW n \in Nat
    PROVE  LifeOK(Healed(h, n))
<1>0. h \in Lives /\ h.hp \in 0..MaxHp /\ h.concentrates \in BOOLEAN
  BY DEF LifeOK, Lives
<1>1. CASE h.life = "dead" \/ n = 0 \/ h.hp = MaxHp
  <2>1. Healed(h, n) = h
    BY <1>1 DEF Healed
  <2> QED
    BY <2>1
<1>2. CASE h.life # "dead" /\ n # 0 /\ h.hp # MaxHp
  <2> DEFINE hp == Capped(h.hp + n, MaxHp)
  <2>1. Healed(h, n) = [h EXCEPT !.hp = hp, !.life = "conscious", !.saves = 0, !.failures = 0]
    BY <1>2 DEF Healed
  <2>2. hp \in 1..MaxHp
    BY <1>0, <1>2, LifeAssumption DEF Capped
  <2> HIDE DEF hp
  <2>3. Healed(h, n) = [hp |-> hp, life |-> "conscious", saves |-> 0, failures |-> 0, concentrates |-> h.concentrates]
    BY <1>0, <2>1 DEF Lives
  <2> QED
    BY <1>0, <2>2, <2>3, LifeAssumption DEF LifeOK, Lives, LifeStates
<1> QED
  BY <1>1, <1>2

\* Whatever the die shows, a death save of a dying character leaves it dying,
\* stable, dead or awake, each with the counters of that state.
LEMMA DeathSavesKeepLife ==
    ASSUME NEW h, LifeOK(h), h.life = "dying", NEW r \in DeathSaves(h)
    PROVE  LifeOK(r)
<1>0. /\ h \in Lives /\ h.hp = 0 /\ h.concentrates = FALSE
      /\ h.saves \in 0..2 /\ h.failures \in 0..2
  BY DEF LifeOK, Lives, LifeStates
<1>1. ASSUME NEW saves \in 0..3, NEW failures \in 0..3, saves < 3 \/ failures < 3, NEW g,
             g = [hp |-> 0, life |-> "dying", saves |-> saves, failures |-> failures, concentrates |-> h.concentrates],
             r = Concluded(g)
      PROVE  LifeOK(r)
  <2>1. g = [hp |-> 0, life |-> "dying", saves |-> saves, failures |-> failures, concentrates |-> FALSE]
    BY <1>0, <1>1, Zenon
  <2>2. r = Concluded(g)
    BY <1>1
  <2>3. saves \in 0..3 /\ failures \in 0..3 /\ (saves < 3 \/ failures < 3)
    BY <1>1
  <2>4. g.life = "dying" /\ g.saves = saves /\ g.failures = failures
    BY <2>1
  <2>5. CASE saves = 3
    <3>1. r = [hp |-> 0, life |-> "stable", saves |-> saves, failures |-> failures, concentrates |-> FALSE]
      <4>1. r = [g EXCEPT !.life = "stable"]
        BY <2>3, <2>5, <2>2, <2>4 DEF Concluded
      <4> QED
        BY <2>1, <4>1
    <3> QED
      BY <2>3, <2>5, <3>1, LifeAssumption DEF LifeOK, Lives, LifeStates
  <2>6. CASE saves # 3 /\ failures = 3
    <3>1. r = [hp |-> 0, life |-> "dead", saves |-> saves, failures |-> failures, concentrates |-> FALSE]
      <4>1. r = [g EXCEPT !.hp = 0, !.life = "dead"]
        BY <2>3, <2>6, <2>2, <2>4 DEF Concluded, Dead
      <4> QED
        BY <2>1, <4>1
    <3> QED
      BY <2>3, <2>6, <3>1, LifeAssumption DEF LifeOK, Lives, LifeStates
  <2>7. CASE saves # 3 /\ failures # 3
    <3>1. r = [hp |-> 0, life |-> "dying", saves |-> saves, failures |-> failures, concentrates |-> FALSE]
      BY <2>1, <2>3, <2>7, <2>2 DEF Concluded
    <3> QED
      BY <2>3, <2>7, <3>1, LifeAssumption DEF LifeOK, Lives, LifeStates
  <2> QED
    BY <2>5, <2>6, <2>7
<1>2. CASE r = Concluded(Healed(h, 1))
  <2> DEFINE g == Healed(h, 1)
  <2>1. g.life = "conscious"
    BY <1>0, LifeAssumption DEF Healed, Lives
  <2>2. LifeOK(g)
    BY HealedKeepsLife
  <2> HIDE DEF g
  <2>3. r = g
    BY <1>2, <2>1 DEF Concluded, g
  <2> QED
    BY <2>2, <2>3
<1>3. CASE r = Concluded([h EXCEPT !.failures = Capped(@ + 2, 3)])
  <2> DEFINE failures == Capped(h.failures + 2, 3)
             g == [h EXCEPT !.failures = failures]
  <2>1. failures \in 0..3 /\ h.saves \in 0..3 /\ h.saves < 3
    BY <1>0 DEF Capped
  <2>2. r = Concluded(g)
    BY <1>3
  <2> HIDE DEF failures
  <2>3. g = [hp |-> 0, life |-> "dying", saves |-> h.saves, failures |-> failures, concentrates |-> h.concentrates]
    BY <1>0 DEF Lives
  <2> HIDE DEF g
  <2> QED
    BY <1>1, <2>1, <2>2, <2>3
<1>4. CASE r = Concluded([h EXCEPT !.saves = @ + 1])
  <2> DEFINE g == [h EXCEPT !.saves = @ + 1]
  <2>1. r = Concluded(g)
    BY <1>4
  <2>2. g = [hp |-> 0, life |-> "dying", saves |-> h.saves + 1, failures |-> h.failures, concentrates |-> h.concentrates]
    BY <1>0 DEF Lives
  <2> HIDE DEF g
  <2>3. h.saves + 1 \in 0..3 /\ h.failures \in 0..3 /\ h.failures < 3
    BY <1>0
  <2> QED
    BY <1>1, <2>1, <2>2, <2>3
<1>5. CASE r = Concluded([h EXCEPT !.failures = @ + 1])
  <2> DEFINE g == [h EXCEPT !.failures = @ + 1]
  <2>1. r = Concluded(g)
    BY <1>5
  <2>2. g = [hp |-> 0, life |-> "dying", saves |-> h.saves, failures |-> h.failures + 1, concentrates |-> h.concentrates]
    BY <1>0 DEF Lives
  <2> HIDE DEF g
  <2>3. h.failures + 1 \in 0..3 /\ h.saves \in 0..3 /\ h.saves < 3
    BY <1>0
  <2> QED
    BY <1>1, <2>1, <2>2, <2>3
<1> QED
  BY <1>2, <1>3, <1>4, <1>5 DEF DeathSaves

\* One hit of any strength.
LEMMA HitKeepsLife ==
    ASSUME NEW h, LifeOK(h), NEW r \in Hit(h)
    PROVE  LifeOK(r)
<1>1. PICK n \in 1..MaxHp, critical \in BOOLEAN : r \in Damaged(h, n, critical)
  BY DEF Hit
<1>2. n \in Nat
  BY LifeAssumption
<1> QED
  BY <1>1, <1>2, DamagedKeepsLife

-----------------------------------------------------------------------------
(* The fight                                                                *)

\* The fight begins with a hero on its feet.
LEMMA InitLife == Init => LifeConsistent
  BY LifeAssumption DEF Init, Fresh, LifeConsistent, LifeOK, Lives, LifeStates

\* Every command keeps the life consistent.
LEMMA NextLife ==
    ASSUME LifeConsistent, [Next]_vars
    PROVE  LifeConsistent'
<1>0. LifeOK(hero)
  BY DEF LifeConsistent
<1> SUFFICES LifeOK(hero')
  BY DEF LifeConsistent, LifeOK
<1>1. ASSUME hero' = hero
      PROVE  LifeOK(hero')
  BY <1>0, <1>1
<1>2. ASSUME NEW n \in 0..BossHp, NEW nonlethal \in BOOLEAN, Attack(n, nonlethal)
      PROVE  LifeOK(hero')
  BY <1>1, <1>2 DEF Attack
<1>3. ASSUME NEW n \in 1..MaxHp, SecondWind(n)
      PROVE  LifeOK(hero')
  <2>1. hero' = Healed(hero, n) /\ n \in Nat
    BY <1>3, LifeAssumption DEF SecondWind
  <2> QED
    BY <1>0, <2>1, HealedKeepsLife
<1>4. ASSUME NEW time \in {"action", "bonus"}, NEW n \in 1..MaxHp, CastHealing(time, n)
      PROVE  LifeOK(hero')
  <2>1. hero' = Healed(hero, n) /\ n \in Nat
    BY <1>4, LifeAssumption DEF CastHealing
  <2> QED
    BY <1>0, <2>1, HealedKeepsLife
<1>5. ASSUME NEW time \in {"action", "bonus"}, NEW n \in 0..BossHp, NEW cost \in 0..1,
             NEW concentrates \in BOOLEAN, NEW area \in BOOLEAN,
             CastDamage(time, n, cost, concentrates, area)
      PROVE  LifeOK(hero')
  <2> DEFINE h == [hero EXCEPT !.concentrates = @ \/ concentrates]
  <2>1. hero.life = "conscious"
    BY <1>5 DEF CastDamage, HeroActs
  <2>2. LifeOK(h)
    BY <1>0, <2>1 DEF LifeOK, Lives, LifeStates
  <2>3. hero' = h \/ hero' \in Hit(h)
    BY <1>5 DEF CastDamage
  <2> HIDE DEF h
  <2> QED
    BY <2>2, <2>3, HitKeepsLife
<1>6. ASSUME DeathSave
      PROVE  LifeOK(hero')
  <2>1. hero.life = "dying" /\ hero' \in DeathSaves(hero)
    BY <1>6 DEF DeathSave
  <2> QED
    BY <1>0, <2>1, DeathSavesKeepLife
<1>7. ASSUME BossProgram
      PROVE  LifeOK(hero')
  <2>1. PICK h : (h = hero \/ h \in Hit(hero)) /\ (hero' = h \/ hero' \in Hit(h))
    BY <1>7 DEF BossProgram
  <2>2. LifeOK(h)
    BY <1>0, <2>1, HitKeepsLife
  <2> QED
    BY <2>1, <2>2, HitKeepsLife
<1>8. ASSUME BossLair
      PROVE  LifeOK(hero')
  <2>1. PICK n \in 1..MaxHp : hero' \in Damaged(hero, n, FALSE)
    BY <1>8 DEF BossLair
  <2>2. n \in Nat
    BY LifeAssumption
  <2> QED
    BY <1>0, <2>1, <2>2, DamagedKeepsLife
<1>9. ASSUME Move \/ BossAttack \/ BossTail \/ Respond
      PROVE  LifeOK(hero')
  <2>1. hero' = hero \/ hero' \in Hit(hero)
    BY <1>9 DEF Move, BossAttack, BossTail, Respond, Offered
  <2> QED
    BY <1>0, <2>1, HitKeepsLife
<1>10. ASSUME EndTurn \/ Surrender \/ BossPass \/ Quarantine \/ UNCHANGED vars
       PROVE  LifeOK(hero')
  BY <1>1, <1>10 DEF EndTurn, Surrender, BossPass, Quarantine, vars
<1> QED
  BY <1>2, <1>3, <1>4, <1>5, <1>6, <1>7, <1>8, <1>9, <1>10 DEF Next

\* Hit points, state and counters of the character agree in every reachable
\* state of every fight.
THEOREM LifeStaysConsistent == Spec => []LifeConsistent
<1>1. Init => LifeConsistent
  BY InitLife
<1>2. LifeConsistent /\ [Next]_vars => LifeConsistent'
  BY NextLife
<1> QED
  BY <1>1, <1>2, PTL DEF Spec

-----------------------------------------------------------------------------
(* Death ends the fight                                                     *)

\* The fields that the end of a fight writes are there.
Shaped(t) == {"window", "completed"} \subseteq DOMAIN t
Shape == Shaped(timing) /\ {"status", "active"} \subseteq DOMAIN turn

\* While the hit on the hero's own move waits for its answer, the hero stands.
MoverStands == reaction = "move" => hero.life = "conscious"

\* Who stands is never killed by one hit (applyConcentrationAndDownedState()).
LEMMA ConsciousSurvives ==
    ASSUME NEW h, LifeOK(h), h.life = "conscious", NEW r \in Hit(h)
    PROVE  r.life # "dead"
<1>1. h \in Lives /\ h.hp > 0 /\ h.hp \in Nat
  BY LifeAssumption DEF LifeOK, Lives
<1>2. PICK n \in 1..MaxHp, critical \in BOOLEAN : r \in Damaged(h, n, critical)
  BY DEF Hit
<1>3. CASE h.hp > n
  <2>1. r \in Wounded(h, n)
    BY <1>2, <1>3 DEF Damaged
  <2>2. PICK kept \in {h.concentrates, FALSE} : r = [h EXCEPT !.hp = h.hp - n, !.concentrates = kept]
    BY <2>1 DEF Wounded
  <2> QED
    BY <1>1, <2>2 DEF Lives
<1>4. CASE ~(h.hp > n)
  <2>1. r = Downed(h)
    BY <1>1, <1>2, <1>4 DEF Damaged
  <2> QED
    BY <1>1, <2>1 DEF Downed, Lives
<1> QED
  BY <1>3, <1>4

\* No transition between two turns loses a field (prepareReviewedBossTransition()).
LEMMA TransitionKeepsShape ==
    ASSUME NEW t, Shaped(t), NEW trigger, NEW resume, NEW hp
    PROVE  Shaped(Transition(t, trigger, resume, hp))
  BY DEF Shaped, Transition, Refreshed

\* Neither does the end of a window (completeReviewedBossWindow()).
LEMMA CompletedKeepsShape ==
    ASSUME NEW t, Shaped(t)
    PROVE  Shaped(Completed(t))
  BY DEF Shaped, Completed, Refreshed

\* No turn and no window is left.
Ended ==
    /\ turn.status # "active" /\ turn.active = None
    /\ timing.window = NoWindow /\ timing.completed = NoWindow

\* Every end of a fight leaves no turn and no window.
LEMMA OverEnds ==
    ASSUME Shape, NEW t, Shaped(t), NEW outcome, NEW last, Over(t, outcome, last)
    PROVE  Ended' /\ Shape'
  BY DEF Shape, Shaped, Over, Closed, Ended

\* The hero's turn passes (handoffPlayerInitiative()).
LEMMA HandOffKeepsShape ==
    ASSUME Shape, NEW hp, NEW last, HandOff(hp, last)
    PROVE  Shape'
<1>1. Shaped(timing')
  BY TransitionKeepsShape DEF Shape, HandOff
<1> QED
  BY <1>1 DEF Shape, HandOff

\* The boss's turn ends with a hero in state h, alive or dead
\* (finishCreatureTurn()).
LEMMA FinishBossTurnEnds ==
    ASSUME Shape, NEW h, NEW k, NEW last, FinishBossTurn(h, k, last)
    PROVE  Shape' /\ (h.life = "dead" => Ended')
<1>1. CASE h.life = "dead"
  BY <1>1, OverEnds DEF FinishBossTurn, Shape
<1>2. CASE h.life # "dead"
  <2>1. Shaped(timing')
    BY <1>2, TransitionKeepsShape DEF Shape, FinishBossTurn
  <2>2. {"status", "active"} \subseteq DOMAIN turn'
    BY <1>2 DEF Shape, FinishBossTurn
  <2> QED
    BY <1>2, <2>1, <2>2 DEF Shape
<1> QED
  BY <1>1, <1>2

\* A window action ends with a hero in state h, alive or dead.
LEMMA FinishWindowEnds ==
    ASSUME Shape, NEW h, NEW t, Shaped(t), FinishWindow(h, t)
    PROVE  Shape' /\ (h.life = "dead" => Ended')
<1>1. CASE h.life = "dead"
  BY <1>1, OverEnds DEF FinishWindow
<1>2. CASE h.life # "dead"
  <2>1. Shaped(timing')
    BY <1>2, CompletedKeepsShape DEF FinishWindow
  <2>2. {"status", "active"} \subseteq DOMAIN turn'
    BY <1>2 DEF Shape, FinishWindow, Goes
  <2> QED
    BY <1>2, <2>1, <2>2 DEF Shape
<1> QED
  BY <1>1, <1>2

\* What every command of the fight keeps together.
DeathInv == LifeConsistent /\ Shape /\ MoverStands /\ DeadMeansOver

\* Before the first command nobody is dead.
LEMMA InitDeath == Init => DeathInv
<1> SUFFICES ASSUME Init PROVE DeathInv
  OBVIOUS
<1>1. LifeConsistent
  BY InitLife
<1>2. Shape
  BY DEF Init, Shape, Shaped
<1>3. MoverStands
  BY DEF Init, MoverStands, None
<1>4. hero.life = "conscious"
  BY DEF Init, Fresh
<1> QED
  BY <1>1, <1>2, <1>3, <1>4 DEF DeathInv, DeadMeansOver

\* Every command keeps the invariant.
LEMMA NextDeath ==
    ASSUME DeathInv, [Next]_vars
    PROVE  DeathInv'
<1>0. LifeConsistent /\ LifeOK(hero) /\ Shape /\ Shaped(timing) /\ MoverStands /\ DeadMeansOver
  BY DEF DeathInv, LifeConsistent, Shape
<1>1. LifeConsistent'
  BY NextLife DEF DeathInv
<1> SUFFICES Shape' /\ MoverStands' /\ DeadMeansOver'
  BY <1>1 DEF DeathInv
<1>2. ASSUME Shape', hero'.life # "dead", reaction' = None
      PROVE  Shape' /\ MoverStands' /\ DeadMeansOver'
  BY <1>2 DEF MoverStands, DeadMeansOver, None
<1>3. ASSUME Shape', hero'.life = "dead" => Ended', reaction' = None
      PROVE  Shape' /\ MoverStands' /\ DeadMeansOver'
  BY <1>3 DEF MoverStands, DeadMeansOver, None, Ended
<1>4. ASSUME NEW n \in 0..BossHp, NEW nonlethal \in BOOLEAN, Attack(n, nonlethal)
      PROVE  Shape' /\ MoverStands' /\ DeadMeansOver'
  <2>1. hero' = hero /\ reaction' = None /\ hero.life # "dead"
    BY <1>4 DEF Attack, HeroActs, HeroTurn, Commandable
  <2>2. CASE Goes("other") /\ UNCHANGED timing
    BY <1>0, <1>2, <2>1, <2>2 DEF Shape, Goes
  <2>3. CASE Over(timing, IF nonlethal THEN "subdued" ELSE "killed", "other")
    BY <1>0, <1>2, <2>1, <2>3, OverEnds
  <2> QED
    BY <1>4, <2>2, <2>3 DEF Attack
<1>5. ASSUME NEW n \in 1..MaxHp, SecondWind(n)
      PROVE  Shape' /\ MoverStands' /\ DeadMeansOver'
  <2>1. reaction' = None /\ hero' = Healed(hero, n) /\ hero.life = "conscious" /\ Goes("other") /\ UNCHANGED timing
    BY <1>5 DEF SecondWind, HeroActs, HeroTurn, Commandable
  <2>2. hero'.life # "dead"
    BY <1>0, <2>1 DEF Healed, LifeOK, Lives
  <2> QED
    BY <1>0, <1>2, <2>1, <2>2 DEF Shape, Goes
<1>6. ASSUME NEW time, NEW hp, AfterCast(time, hp)
      PROVE  Shape'
  BY <1>0, <1>6, HandOffKeepsShape DEF AfterCast, Goes, Shape
<1>7. ASSUME NEW time \in {"action", "bonus"}, NEW n \in 1..MaxHp, CastHealing(time, n)
      PROVE  Shape' /\ MoverStands' /\ DeadMeansOver'
  <2>1. reaction' = None /\ hero' = Healed(hero, n) /\ hero.life = "conscious" /\ AfterCast(time, bossHp)
    BY <1>7 DEF CastHealing, HeroActs, HeroTurn, Commandable
  <2>2. hero'.life # "dead"
    BY <1>0, <2>1 DEF Healed, LifeOK, Lives
  <2> QED
    BY <1>2, <1>6, <2>1, <2>2
<1>8. ASSUME NEW time \in {"action", "bonus"}, NEW n \in 0..BossHp, NEW cost \in 0..1,
             NEW concentrates \in BOOLEAN, NEW area \in BOOLEAN,
             CastDamage(time, n, cost, concentrates, area)
      PROVE  Shape' /\ MoverStands' /\ DeadMeansOver'
  <2> DEFINE h == [hero EXCEPT !.concentrates = @ \/ concentrates]
  <2>1. reaction' = None /\ hero.life = "conscious"
    BY <1>8 DEF CastDamage, HeroActs, HeroTurn, Commandable
  <2>2. LifeOK(h) /\ h.life = "conscious"
    BY <1>0, <2>1 DEF LifeOK, Lives, LifeStates
  <2>3. hero' = h \/ hero' \in Hit(h)
    BY <1>8 DEF CastDamage
  <2> HIDE DEF h
  <2>4. hero'.life # "dead"
    BY <2>2, <2>3, ConsciousSurvives
  <2>5. Over(timing, "killed", "other") \/ AfterCast(time, bossHp - n)
    BY <1>8 DEF CastDamage
  <2> QED
    BY <1>0, <1>2, <1>6, <2>1, <2>4, <2>5, OverEnds
<1>9. ASSUME EndTurn \/ Surrender
      PROVE  Shape' /\ MoverStands' /\ DeadMeansOver'
  <2>1. hero' = hero /\ reaction' = None /\ hero.life # "dead"
    BY <1>9 DEF EndTurn, Surrender, HeroTurn, Commandable
  <2>2. HandOff(bossHp, "other") \/ Over(timing, "player_surrendered", "other")
    BY <1>9 DEF EndTurn, Surrender
  <2> QED
    BY <1>0, <1>2, <2>1, <2>2, HandOffKeepsShape, OverEnds
<1>10. ASSUME DeathSave
       PROVE  Shape' /\ MoverStands' /\ DeadMeansOver'
  <2>1. reaction' = None
    BY <1>10 DEF DeathSave, Commandable
  <2>2. CASE hero'.life = "dead" /\ Over(timing, "player_defeated", turn.last)
    BY <1>0, <1>3, <2>1, <2>2, OverEnds
  <2>3. CASE hero'.life # "dead" /\ HandOff(bossHp, turn.last)
    BY <1>0, <1>2, <2>1, <2>3, HandOffKeepsShape
  <2> QED
    BY <1>10, <2>2, <2>3 DEF DeathSave
<1>11. ASSUME NEW mode, Offered(mode), hero.life # "dead", mode = "move" => hero.life = "conscious"
       PROVE  Shape' /\ MoverStands' /\ DeadMeansOver'
  BY <1>0, <1>11 DEF Offered, Goes, Shape, MoverStands, DeadMeansOver
<1>12. ASSUME Move
       PROVE  Shape' /\ MoverStands' /\ DeadMeansOver'
  <2>1. reaction = None /\ hero.life = "conscious"
    BY <1>12 DEF Move, HeroActs, HeroTurn, Commandable
  <2>2. CASE Offered("move")
    BY <1>11, <2>1, <2>2
  <2>3. CASE ~Offered("move")
    <3>1. Goes("other") /\ timing' = timing /\ reaction' = None /\ (hero' = hero \/ hero' \in Hit(hero))
      BY <1>12, <2>1, <2>3 DEF Move
    <3>2. hero'.life # "dead"
      BY <1>0, <2>1, <3>1, ConsciousSurvives
    <3> QED
      BY <1>0, <1>2, <3>1, <3>2 DEF Shape, Goes
  <2> QED
    BY <2>2, <2>3
<1>13. ASSUME BossAttack
       PROVE  Shape' /\ MoverStands' /\ DeadMeansOver'
  <2>1. reaction = None /\ hero.life # "dead"
    BY <1>13 DEF BossAttack, BossTurn, Commandable
  <2>2. CASE Offered("turn")
    BY <1>11, <2>1, <2>2
  <2>3. CASE ~Offered("turn")
    <3>1. FinishBossTurn(hero', kit, turn.last) /\ reaction' = None
      BY <1>13, <2>1, <2>3 DEF BossAttack
    <3> QED
      BY <1>0, <1>3, <3>1, FinishBossTurnEnds
  <2> QED
    BY <2>2, <2>3
<1>14. ASSUME BossProgram
       PROVE  Shape' /\ MoverStands' /\ DeadMeansOver'
  <2>1. reaction' = None /\ FinishBossTurn(hero', kit, "other")
    BY <1>14 DEF BossProgram, BossTurn, Commandable
  <2> QED
    BY <1>0, <1>3, <2>1, FinishBossTurnEnds
<1>15. ASSUME WindowOpen("legendary") \/ WindowOpen("lair")
       PROVE  reaction = None /\ hero.life # "dead"
  BY <1>0, <1>15 DEF WindowOpen, DeadMeansOver
<1>16. ASSUME BossPass
       PROVE  Shape' /\ MoverStands' /\ DeadMeansOver'
  <2>1. hero' = hero /\ reaction' = None /\ hero.life # "dead" /\ Goes("window")
    BY <1>15, <1>16 DEF BossPass
  <2>2. Shaped([timing EXCEPT !.window.tail = "passed"])
    BY <1>0 DEF Shaped
  <2>3. Shaped(timing')
    BY <1>0, <1>16, <2>2, CompletedKeepsShape DEF BossPass
  <2> QED
    BY <1>0, <1>2, <2>1, <2>3 DEF Shape, Goes
<1>17. Shaped(TailUsed(timing))
  BY <1>0 DEF Shaped, TailUsed
<1>18. ASSUME BossTail
       PROVE  Shape' /\ MoverStands' /\ DeadMeansOver'
  <2>1. reaction = None /\ hero.life # "dead"
    BY <1>15, <1>18 DEF BossTail
  <2>2. CASE FinishWindow(hero', TailUsed(timing)) /\ reaction' = reaction
    BY <1>0, <1>3, <1>17, <2>1, <2>2, FinishWindowEnds
  <2>3. CASE reaction' = "window" /\ timing' = TailUsed(timing) /\ Goes("other") /\ UNCHANGED hero
    BY <1>0, <1>17, <2>1, <2>3 DEF Goes, Shape, MoverStands, DeadMeansOver
  <2> QED
    BY <1>18, <2>2, <2>3 DEF BossTail
<1>19. ASSUME BossLair
       PROVE  Shape' /\ MoverStands' /\ DeadMeansOver'
  <2>1. reaction' = None /\ FinishWindow(hero', timing)
    BY <1>15, <1>19 DEF BossLair
  <2> QED
    BY <1>0, <1>3, <2>1, FinishWindowEnds
<1>20. ASSUME Respond
       PROVE  Shape' /\ MoverStands' /\ DeadMeansOver'
  <2>1. reaction' = None /\ (hero' = hero \/ hero' \in Hit(hero)) /\ hero.life # "dead"
    BY <1>0, <1>20 DEF Respond, DeadMeansOver
  <2>2. PICK k : Resume(hero', k)
    BY <1>20 DEF Respond
  <2>3. CASE FinishBossTurn(hero', k, "other")
    BY <1>0, <1>3, <2>1, <2>3, FinishBossTurnEnds
  <2>4. CASE FinishWindow(hero', timing)
    BY <1>0, <1>3, <2>1, <2>4, FinishWindowEnds
  <2>5. CASE reaction = "move" /\ Goes("other") /\ UNCHANGED timing
    <3>1. hero'.life # "dead"
      BY <1>0, <2>1, <2>5, ConsciousSurvives DEF MoverStands
    <3> QED
      BY <1>0, <1>2, <2>1, <2>5, <3>1 DEF Shape, Goes
  <2> QED
    BY <2>2, <2>3, <2>4, <2>5 DEF Resume
<1>21. ASSUME Quarantine
       PROVE  Shape' /\ MoverStands' /\ DeadMeansOver'
  BY <1>0, <1>21 DEF Quarantine, Closed, Shape, Shaped, MoverStands, DeadMeansOver, None
<1>22. ASSUME UNCHANGED vars
       PROVE  Shape' /\ MoverStands' /\ DeadMeansOver'
  BY <1>0, <1>22 DEF vars, Shape, Shaped, MoverStands, DeadMeansOver
<1> QED
  BY <1>4, <1>5, <1>7, <1>8, <1>9, <1>10, <1>12, <1>13, <1>14, <1>16, <1>18, <1>19, <1>20, <1>21, <1>22 DEF Next

\* However the hero dies, in whoever's turn and window, nothing is left that
\* could go on.
THEOREM DeathEndsFight == Spec => []DeadMeansOver
<1>1. Init => DeathInv
  BY InitDeath
<1>2. DeathInv /\ [Next]_vars => DeathInv'
  BY NextDeath
<1>3. DeathInv => DeadMeansOver
  BY DEF DeathInv
<1> QED
  BY <1>1, <1>2, <1>3, PTL DEF Spec

-----------------------------------------------------------------------------
(* The fight fits together: the invariant                                   *)

Turns == [status : {"active", "ended", "quarantined"}, active : {"hero", "boss", None}, round : 1..MaxRound,
          outcome : {None, "killed", "subdued", "player_surrendered", "player_defeated"},
          last : {None, "window", "other"}]
Timings == [points : 0..Points, cycle : Nat \ {0}, lair : BOOLEAN, lairUsed : Nat, window : WindowType, completed : WindowType]
Kits == [slots : 0..Slots, wind : BOOLEAN, spent : [action : BOOLEAN, bonus : BOOLEAN, reaction : BOOLEAN],
         bossReacted : BOOLEAN]

\* TypeOK but for the bound of the cycle, which follows from the round.
Parts ==
    /\ initiative \in [first : {"hero", "boss"}, boundary : 0..2]
    /\ turn \in Turns /\ timing \in Timings
    /\ reaction \in {None, "turn", "window", "move"}
    /\ kit \in Kits
    /\ bossHp \in 0..BossHp

\* The lair acts once in a cycle.
LairFits(t) == t.lairUsed <= t.cycle /\ (t.lair <=> t.lairUsed # t.cycle)

\* What the boss may do between the hero's turn and its own.
LairDue(t) == Crosses("hero", "boss") /\ t.lair
TailQueue(t) == IF LairDue(t) THEN <<"legendary", "lair">> ELSE <<"legendary">>

\* The three windows there are, and the stages of the one after the hero's
\* turn; r is the pending reaction.
Opening(t) ==
    /\ t.window = Window(None, initiative.first, <<"lair">>, "not-offered")
    /\ initiative.boundary = 0 /\ t.cycle = 1 /\ t.lairUsed = 0
AfterBoss(t) == t.window = Window("boss", "hero", <<"lair">>, "not-offered") /\ Crosses("boss", "hero") /\ t.lair
AfterHero(t, r) ==
    \/ t.window = Window("hero", "boss", TailQueue(t), "pending") /\ r # "window"
    \/ t.window = Window("hero", "boss", TailQueue(t), "used") /\ r = "window"
    \/ \E tail \in {"used", "passed"} : t.window = Window("hero", "boss", <<"lair">>, tail) /\ LairDue(t) /\ r # "window"

WindowInv(t, r, active) ==
    \/ t.window = NoWindow /\ r # "window"
    \/ /\ t.window.resume = active /\ t.completed = NoWindow
       /\ \/ (Opening(t) \/ AfterBoss(t)) /\ r # "window"
          \/ AfterHero(t, r)

CompletedInv(t, active) ==
    t.completed # NoWindow =>
        /\ t.completed.resume = active
        /\ t.completed.tail \in {"used", "passed", "not-offered"}
        /\ \/ t.completed.trigger = Other(active)
           \/ /\ t.completed.trigger = None /\ active = initiative.first /\ initiative.boundary = 0
              /\ t.cycle = 1 /\ t.lairUsed = 1 /\ t.completed.tail = "not-offered"

\* The cycle of initiative is the round, or one behind it on the hero's turn
\* when the boss goes first.
Cycle(active, round) == IF initiative.first = "boss" /\ active = "hero" THEN round - 1 ELSE round

\* A point is missing only while the window of the used tail is open.
PointsLeft(t) == IF t.window.tail = "used" THEN Points - 1 ELSE Points

\* A window at the seam of two cycles is never in the first.
AtSeam(t) == t.window.trigger = Other(initiative.first) => t.cycle >= 2

Running(t, r, active, round) ==
    /\ active \in {"hero", "boss"}
    /\ t.cycle = Cycle(active, round) /\ t.cycle >= 1 /\ AtSeam(t)
    /\ t.points = PointsLeft(t)
    /\ WindowInv(t, r, active)
    /\ CompletedInv(t, active)

\* The moment a pending reaction resumes.
Pending(tn, t, r, k) ==
    r # None =>
        /\ tn.status = "active" /\ k.slots > 0 /\ ~k.spent.reaction
        /\ r = "turn" => tn.active = "boss" /\ t.window = NoWindow
        /\ r = "move" => tn.active = "hero" /\ t.window = NoWindow /\ k.bossReacted

\* A death save after the end of the fight may move the cycle once more, and
\* the next load quarantines that fight.
Stopped(tn, t) ==
    /\ t.points >= Points - 1
    /\ t.cycle <= tn.round + 1
    /\ tn.status = "ended" /\ tn.active = None => t.cycle <= tn.round

\* What every command of the fight keeps: FightFits and what it rests on.
FightOf(tn, t, r, k, hp) ==
    /\ LairFits(t)
    /\ tn.status = "active" => hp > 0 /\ tn.outcome = None /\ Running(t, r, tn.active, tn.round)
    /\ tn.status # "active" => Stopped(tn, t)
    /\ Pending(tn, t, r, k)
FightInv == Parts /\ FightOf(turn, timing, reaction, kit, bossHp)

-----------------------------------------------------------------------------
(* The steps between two turns                                              *)

\* Every window of the fight is of the type the load check knows.
LEMMA WindowTypes ==
    ASSUME NEW trigger \in {"hero", "boss", None}, NEW resume \in {"hero", "boss", None},
           NEW queue \in {<<>>, <<"legendary">>, <<"lair">>, <<"legendary", "lair">>},
           NEW tail \in {"pending", "used", "passed", "not-offered", None}
    PROVE  Window(trigger, resume, queue, tail) \in WindowType
  BY DEF Window, WindowType

LEMMA NoWindowType == NoWindow \in WindowType
  BY DEF NoWindow, WindowType

\* What a transition starts from: the last window is forgotten, and a new
\* cycle gives the lair its action back.
Started(t, trigger, resume) ==
    [points |-> t.points, cycle |-> IF Wraps(trigger, resume) THEN t.cycle + 1 ELSE t.cycle,
     lair |-> t.lair \/ Wraps(trigger, resume), lairUsed |-> t.lairUsed, window |-> NoWindow, completed |-> NoWindow]

\* The queue of the window that a transition opens.
Queued(t, trigger, resume) ==
    (IF TailOffered(t, trigger) THEN <<"legendary">> ELSE <<>>)
      \o (IF Crosses(trigger, resume) /\ (t.lair \/ Wraps(trigger, resume)) THEN <<"lair">> ELSE <<>>)

LEMMA StartedFits ==
    ASSUME NEW t \in Timings, LairFits(t), NEW trigger, NEW resume
    PROVE  Started(t, trigger, resume) \in Timings /\ LairFits(Started(t, trigger, resume))
<1> DEFINE wraps == Wraps(trigger, resume)
           cycle == IF wraps THEN t.cycle + 1 ELSE t.cycle
           lair == t.lair \/ wraps
           s == [points |-> t.points, cycle |-> cycle, lair |-> lair, lairUsed |-> t.lairUsed,
                 window |-> NoWindow, completed |-> NoWindow]
<1>1. t.points \in 0..Points /\ t.cycle \in Nat \ {0} /\ t.lair \in BOOLEAN /\ t.lairUsed \in Nat
  BY DEF Timings
<1>2. wraps \in BOOLEAN
  BY DEF Wraps
<1>3. s = Started(t, trigger, resume)
  BY DEF Started
<1>4. cycle \in Nat \ {0} /\ lair \in BOOLEAN /\ t.lairUsed <= cycle /\ (lair <=> t.lairUsed # cycle)
  BY <1>1, <1>2 DEF LairFits
<1> HIDE DEF wraps, cycle, lair
<1>5. s \in Timings
  BY <1>1, <1>4, NoWindowType DEF Timings
<1>6. LairFits(s)
  BY <1>4 DEF LairFits
<1> QED
  BY <1>3, <1>5, <1>6

\* A transition in these terms.
LEMMA TransitionIs ==
    ASSUME NEW t \in Timings, NEW trigger, NEW resume, NEW hp
    PROVE  LET s == Started(t, trigger, resume)
               queue == Queued(t, trigger, resume)
           IN  Transition(t, trigger, resume, hp)
                 = IF hp = 0 \/ queue = <<>> THEN Refreshed(s, resume)
                   ELSE [s EXCEPT !.window = Window(trigger, resume, queue,
                                                    IF TailOffered(t, trigger) THEN "pending" ELSE "not-offered")]
<1> DEFINE wraps == Wraps(trigger, resume)
           started == [t EXCEPT !.completed = NoWindow, !.window = NoWindow, !.lair = @ \/ wraps,
                                !.cycle = IF wraps THEN @ + 1 ELSE @]
<1>1. t = [points |-> t.points, cycle |-> t.cycle, lair |-> t.lair, lairUsed |-> t.lairUsed,
           window |-> t.window, completed |-> t.completed]
  BY DEF Timings
<1>2. started = Started(t, trigger, resume)
  <2>1. ASSUME NEW lair \in BOOLEAN, NEW cycle \in Nat \ {0}, NEW g,
               g = [t EXCEPT !.completed = NoWindow, !.window = NoWindow, !.lair = lair, !.cycle = cycle]
        PROVE  g = [points |-> t.points, cycle |-> cycle, lair |-> lair, lairUsed |-> t.lairUsed,
                    window |-> NoWindow, completed |-> NoWindow]
    BY <2>1 DEF Timings
  <2>2. started = [t EXCEPT !.completed = NoWindow, !.window = NoWindow, !.lair = t.lair \/ wraps,
                            !.cycle = IF wraps THEN t.cycle + 1 ELSE t.cycle]
    OBVIOUS
  <2>3. started = [points |-> t.points, cycle |-> IF wraps THEN t.cycle + 1 ELSE t.cycle, lair |-> (t.lair \/ wraps),
                   lairUsed |-> t.lairUsed, window |-> NoWindow, completed |-> NoWindow]
    <3>1. (t.lair \/ wraps) \in BOOLEAN /\ (IF wraps THEN t.cycle + 1 ELSE t.cycle) \in Nat \ {0}
      BY DEF Timings
    <3> QED
      BY <2>1, <2>2, <3>1, Zenon
  <2> QED
    BY <2>3 DEF Started
<1>3. started.lair = (t.lair \/ wraps)
  BY <1>2 DEF Started
<1> QED
  BY <1>2, <1>3 DEF Transition, Queued

\* The hero's turn passes while the boss lives: its tail is offered, and the
\* lair's action if it is due (prepareReviewedBossTransition()).
LEMMA HeroPasses ==
    ASSUME Parts, NEW t \in Timings, LairFits(t), t.points = Points, NEW hp \in Nat \ {0},
           NEW r, r = Transition(t, "hero", "boss", hp)
    PROVE  /\ r \in Timings /\ LairFits(r)
           /\ r.points = Points /\ r.completed = NoWindow
           /\ r.cycle = IF initiative.first = "boss" THEN t.cycle + 1 ELSE t.cycle
           /\ r.window = Window("hero", "boss", TailQueue(r), "pending")
<1> DEFINE s == Started(t, "hero", "boss")
           queue == Queued(t, "hero", "boss")
<1>1. s \in Timings /\ LairFits(s)
  BY StartedFits
<1>2. TailOffered(t, "hero")
  BY DEF TailOffered, Points
<1>3. queue \in {<<"legendary">>, <<"legendary", "lair">>} /\ queue = TailQueue(s)
  <2>1. s.lair <=> t.lair \/ Wraps("hero", "boss")
    BY DEF Started
  <2>2. CASE LairDue(s)
    <3>1. queue = <<"legendary">> \o <<"lair">>
      BY <1>2, <2>1, <2>2 DEF Queued, LairDue
    <3> QED
      BY <2>2, <3>1 DEF TailQueue
  <2>3. CASE ~LairDue(s)
    <3>1. queue = <<"legendary">> \o <<>>
      BY <1>2, <2>1, <2>3 DEF Queued, LairDue
    <3> QED
      BY <2>3, <3>1 DEF TailQueue
  <2> QED
    BY <2>2, <2>3
<1>4. s.points = Points /\ s.completed = NoWindow /\ s.window = NoWindow
  BY DEF Started
<1>5. s.cycle = IF initiative.first = "boss" THEN t.cycle + 1 ELSE t.cycle
  BY DEF Started, Wraps, Index, Parts
<1> HIDE DEF s, queue
<1>6. queue # <<>>
  BY <1>3
<1> DEFINE w == Window("hero", "boss", queue, "pending")
<1>7. w \in WindowType
  BY <1>3, WindowTypes
<1>8. r = [s EXCEPT !.window = w]
  BY <1>2, <1>6, TransitionIs DEF s, queue
<1> HIDE DEF w
<1>9. /\ r \in Timings /\ r.window = w
      /\ r.points = s.points /\ r.completed = s.completed /\ r.cycle = s.cycle
      /\ r.lair = s.lair /\ r.lairUsed = s.lairUsed
  BY <1>1, <1>7, <1>8 DEF Timings
<1>10. LairFits(r) /\ TailQueue(r) = TailQueue(s)
  BY <1>1, <1>9 DEF LairFits, TailQueue, LairDue
<1> QED
  BY <1>3, <1>4, <1>5, <1>9, <1>10 DEF w

\* The boss's turn passes while it lives: the lair's action, if it is due.
LEMMA BossPasses ==
    ASSUME Parts, NEW t \in Timings, LairFits(t), t.points = Points, NEW hp \in Nat \ {0},
           NEW r, r = Transition(t, "boss", "hero", hp)
    PROVE  /\ r \in Timings /\ LairFits(r)
           /\ r.points = Points /\ r.completed = NoWindow
           /\ r.cycle = IF initiative.first = "hero" THEN t.cycle + 1 ELSE t.cycle
           /\ r.window = NoWindow \/ AfterBoss(r)
<1> DEFINE s == Started(t, "boss", "hero")
           queue == Queued(t, "boss", "hero")
           due == Crosses("boss", "hero") /\ (t.lair \/ Wraps("boss", "hero"))
<1>1. s \in Timings /\ LairFits(s)
  BY StartedFits
<1>2. ~TailOffered(t, "boss")
  BY DEF TailOffered
<1>3. s.points = Points /\ s.completed = NoWindow /\ s.window = NoWindow
  BY DEF Started
<1>4. s.cycle = IF initiative.first = "hero" THEN t.cycle + 1 ELSE t.cycle
  BY DEF Started, Wraps, Index, Parts
<1>5. CASE due
  <2>1. queue = <<>> \o <<"lair">>
    BY <1>2, <1>5 DEF Queued
  <2>2. queue = <<"lair">> /\ queue # <<>>
    BY <2>1
  <2>3. s.lair
    BY <1>5 DEF Started
  <2> DEFINE w == Window("boss", "hero", <<"lair">>, "not-offered")
  <2>4. w \in WindowType
    BY WindowTypes
  <2>5. r = [s EXCEPT !.window = w]
    BY <1>2, <2>2, TransitionIs
  <2> HIDE DEF s, w
  <2>6. /\ r \in Timings /\ r.window = w
        /\ r.points = s.points /\ r.completed = s.completed /\ r.cycle = s.cycle
        /\ r.lair = s.lair /\ r.lairUsed = s.lairUsed
    BY <1>1, <2>4, <2>5 DEF Timings
  <2>7. LairFits(r)
    BY <1>1, <2>6 DEF LairFits
  <2>8. AfterBoss(r)
    BY <1>5, <2>3, <2>6 DEF AfterBoss, w
  <2> QED
    BY <1>3, <1>4, <2>6, <2>7, <2>8
<1>6. CASE ~due
  <2>1. queue = <<>> \o <<>>
    BY <1>2, <1>6 DEF Queued
  <2>2. queue = <<>>
    BY <2>1
  <2>3. r = s
    BY <2>2, TransitionIs DEF Refreshed
  <2> QED
    BY <1>1, <1>3, <1>4, <2>3
<1> QED
  BY <1>5, <1>6

\* The boss has used or passed its tail, and the lair is next.
LEMMA WindowAdvances ==
    ASSUME NEW t \in Timings, NEW tail \in {"used", "passed"},
           t.window = Window("hero", "boss", <<"legendary", "lair">>, tail),
           NEW r, r = Completed(t)
    PROVE  /\ r \in Timings
           /\ r.window = Window("hero", "boss", <<"lair">>, tail)
           /\ r.points = t.points /\ r.cycle = t.cycle /\ r.completed = t.completed
           /\ r.lair = t.lair /\ r.lairUsed = t.lairUsed
<1> DEFINE w == Window("hero", "boss", <<"lair">>, tail)
<1>1. Head(t.window.queue) = "legendary" /\ Tail(t.window.queue) = <<"lair">> /\ Tail(t.window.queue) # <<>>
  BY DEF Window
<1>2. r = [t EXCEPT !.window.queue = <<"lair">>]
  BY <1>1 DEF Completed
<1>3. [t.window EXCEPT !.queue = <<"lair">>] = w
  BY DEF Window
<1>4. r = [t EXCEPT !.window = w]
  BY <1>2, <1>3
<1>5. w \in WindowType
  BY WindowTypes
<1> HIDE DEF w
<1>6. /\ r \in Timings /\ r.window = w
      /\ r.points = t.points /\ r.cycle = t.cycle /\ r.completed = t.completed
      /\ r.lair = t.lair /\ r.lairUsed = t.lairUsed
  BY <1>4, <1>5 DEF Timings
<1> QED
  BY <1>6 DEF w

\* The last action of a window closes it (completeReviewedBossWindow()).
LEMMA WindowCloses ==
    ASSUME NEW t \in Timings, LairFits(t),
           NEW trigger \in {"hero", "boss", None}, NEW resume \in {"hero", "boss"}, NEW kind \in {"legendary", "lair"},
           NEW tail \in {"used", "passed", "not-offered"},
           t.window = Window(trigger, resume, <<kind>>, tail),
           NEW r, r = Completed(t)
    PROVE  /\ r \in Timings /\ LairFits(r)
           /\ r.window = NoWindow
           /\ r.completed = Window(trigger, resume, <<>>, tail)
           /\ r.points = IF resume = "boss" THEN Points ELSE t.points
           /\ r.cycle = t.cycle
           /\ kind = "lair" => r.lairUsed = t.cycle
<1> DEFINE c == Window(trigger, resume, <<>>, tail)
           spent == IF kind = "lair" THEN [t EXCEPT !.lair = FALSE, !.lairUsed = t.cycle] ELSE t
           closed == [spent EXCEPT !.completed = c, !.window = NoWindow]
<1>1. Head(t.window.queue) = kind /\ Tail(t.window.queue) = <<>> /\ t.window.tail # "pending" /\ t.window.resume = resume
  BY DEF Window
<1>2. [t.window EXCEPT !.queue = <<>>] = c
  BY DEF Window
<1>3. r = Refreshed(closed, resume)
  BY <1>1, <1>2 DEF Completed
<1>4. c \in WindowType
  BY WindowTypes
<1>5. /\ spent \in Timings /\ LairFits(spent) /\ spent.points = t.points /\ spent.cycle = t.cycle
      /\ kind = "lair" => spent.lairUsed = t.cycle
  <2>1. CASE kind = "lair"
    <3>1. spent = [t EXCEPT !.lair = FALSE, !.lairUsed = t.cycle]
      BY <2>1
    <3>2. t.cycle \in Nat
      BY DEF Timings
    <3> HIDE DEF spent
    <3>3. /\ spent \in Timings /\ spent.points = t.points /\ spent.cycle = t.cycle
          /\ spent.lairUsed = t.cycle /\ spent.lair = FALSE
      BY <3>1, <3>2 DEF Timings
    <3> QED
      BY <3>2, <3>3 DEF LairFits
  <2>2. CASE kind # "lair"
    <3>1. spent = t
      BY <2>2
    <3> QED
      BY <2>2, <3>1
  <2> QED
    BY <2>1, <2>2
<1> HIDE DEF c, spent
<1>6. /\ closed \in Timings /\ closed.window = NoWindow /\ closed.completed = c
      /\ closed.points = spent.points /\ closed.cycle = spent.cycle
      /\ closed.lair = spent.lair /\ closed.lairUsed = spent.lairUsed
  BY <1>4, <1>5, NoWindowType DEF Timings
<1> HIDE DEF closed
<1>7. /\ r \in Timings /\ r.window = closed.window /\ r.completed = closed.completed /\ r.cycle = closed.cycle
      /\ r.lair = closed.lair /\ r.lairUsed = closed.lairUsed
      /\ r.points = IF resume = "boss" THEN Points ELSE closed.points
  <2>1. CASE resume = "boss"
    <3>1. r = [closed EXCEPT !.points = Points]
      BY <1>3, <2>1 DEF Refreshed
    <3>2. Points \in 0..Points
      BY DEF Points
    <3> QED
      BY <1>6, <2>1, <3>1, <3>2 DEF Timings
  <2>2. CASE resume # "boss"
    <3>1. r = closed
      BY <1>3, <2>2 DEF Refreshed
    <3> QED
      BY <1>6, <2>2, <3>1
  <2> QED
    BY <2>1, <2>2
<1>8. LairFits(r)
  BY <1>5, <1>6, <1>7 DEF LairFits
<1> QED
  BY <1>5, <1>6, <1>7, <1>8 DEF c

\* The window after the hero's turn once the tail is decided.
TailDone(t) ==
    \E tail \in {"used", "passed"} :
        \/ t.window = Window("hero", "boss", TailQueue(t), tail)
        \/ t.window = Window("hero", "boss", <<"lair">>, tail) /\ LairDue(t)

\* An action of a running fight's window leads to the next action or to the
\* turn it was to be followed by, with all the points when that is the boss's.
LEMMA WindowGoesOn ==
    ASSUME Parts, NEW t \in Timings, LairFits(t), t.points = PointsLeft(t), t.completed = NoWindow,
           NEW active \in {"hero", "boss"}, t.window.resume = active,
           AtSeam(t), Opening(t) \/ AfterBoss(t) \/ TailDone(t),
           NEW r, r = Completed(t)
    PROVE  /\ r \in Timings /\ LairFits(r) /\ r.cycle = t.cycle
           /\ r.points = PointsLeft(r) /\ AtSeam(r)
           /\ WindowInv(r, None, active) /\ CompletedInv(r, active)
<1>0. NoWindow.tail = None /\ None # "window" /\ None # "used" /\ None # "boss" /\ None # "hero"
  BY DEF NoWindow, None
<1>1. ASSUME NEW trigger \in {"hero", "boss", None}, NEW kind \in {"legendary", "lair"},
             NEW tail \in {"used", "passed", "not-offered"}, t.window = Window(trigger, active, <<kind>>, tail),
             active = "boss" \/ t.points = Points,
             \/ trigger = Other(active)
             \/ /\ trigger = None /\ active = initiative.first /\ initiative.boundary = 0
                /\ t.cycle = 1 /\ kind = "lair" /\ tail = "not-offered"
      PROVE  /\ r \in Timings /\ LairFits(r) /\ r.cycle = t.cycle
             /\ r.points = PointsLeft(r) /\ AtSeam(r)
             /\ WindowInv(r, None, active) /\ CompletedInv(r, active)
  <2>1. /\ r \in Timings /\ LairFits(r)
        /\ r.window = NoWindow
        /\ r.completed = Window(trigger, active, <<>>, tail)
        /\ r.points = IF active = "boss" THEN Points ELSE t.points
        /\ r.cycle = t.cycle
        /\ kind = "lair" => r.lairUsed = t.cycle
    BY <1>1, WindowCloses
  <2>2. r.points = PointsLeft(r)
    BY <1>0, <1>1, <2>1 DEF PointsLeft
  <2>3. WindowInv(r, None, active)
    BY <1>0, <2>1 DEF WindowInv
  <2>4. r.completed.trigger = trigger /\ r.completed.resume = active /\ r.completed.tail = tail
    BY <2>1 DEF Window
  <2>5. CompletedInv(r, active)
    BY <1>1, <2>1, <2>4 DEF CompletedInv
  <2>6. AtSeam(r)
    BY <2>1 DEF AtSeam, NoWindow, None, Other
  <2> QED
    BY <2>1, <2>2, <2>3, <2>5, <2>6
<1>2. CASE Opening(t)
  <2>1. /\ t.window = Window(None, initiative.first, <<"lair">>, "not-offered")
        /\ initiative.boundary = 0 /\ t.cycle = 1
    BY <1>2 DEF Opening
  <2>2. t.window.tail = "not-offered" /\ t.window.resume = initiative.first
    BY <2>1 DEF Window
  <2>3. t.points = Points /\ active = initiative.first
    BY <2>2 DEF PointsLeft
  <2> QED
    BY <1>1, <2>1, <2>3
<1>3. CASE AfterBoss(t)
  <2>1. t.window = Window("boss", "hero", <<"lair">>, "not-offered")
    BY <1>3 DEF AfterBoss
  <2>2. t.window.tail = "not-offered" /\ t.window.resume = "hero"
    BY <2>1 DEF Window
  <2>3. t.points = Points /\ active = "hero" /\ Other(active) = "boss"
    BY <2>2 DEF PointsLeft, Other
  <2> QED
    BY <1>1, <2>1, <2>3
<1>4. CASE TailDone(t)
  <2>1. PICK tail \in {"used", "passed"} :
            \/ t.window = Window("hero", "boss", TailQueue(t), tail)
            \/ t.window = Window("hero", "boss", <<"lair">>, tail) /\ LairDue(t)
    BY <1>4 DEF TailDone
  <2>2. active = "boss" /\ Other(active) = "hero" /\ t.window.tail = tail
    BY <2>1 DEF Window, Other
  <2>3. CASE t.window = Window("hero", "boss", <<"legendary", "lair">>, tail) /\ LairDue(t)
    <3>1. /\ r \in Timings
          /\ r.window = Window("hero", "boss", <<"lair">>, tail)
          /\ r.points = t.points /\ r.cycle = t.cycle /\ r.completed = t.completed
          /\ r.lair = t.lair /\ r.lairUsed = t.lairUsed
      BY <2>3, WindowAdvances
    <3>2. LairFits(r) /\ LairDue(r)
      BY <2>3, <3>1 DEF LairFits, LairDue
    <3>3. r.window.tail = tail /\ r.window.resume = "boss"
      BY <3>1 DEF Window
    <3>4. r.points = PointsLeft(r)
      BY <2>2, <3>1, <3>3 DEF PointsLeft
    <3>5. AfterHero(r, None)
      BY <1>0, <3>1, <3>2 DEF AfterHero
    <3>6. WindowInv(r, None, active)
      BY <2>2, <3>1, <3>3, <3>5 DEF WindowInv
    <3>7. CompletedInv(r, active)
      BY <3>1 DEF CompletedInv
    <3>8. AtSeam(r)
      BY <2>3, <3>1 DEF AtSeam, Window
    <3> QED
      BY <3>1, <3>2, <3>4, <3>6, <3>7, <3>8
  <2>4. CASE t.window = Window("hero", "boss", <<"legendary">>, tail)
    BY <1>1, <2>2, <2>4
  <2>5. CASE t.window = Window("hero", "boss", <<"lair">>, tail)
    BY <1>1, <2>2, <2>5
  <2> QED
    BY <2>1, <2>3, <2>4, <2>5 DEF TailQueue
<1> QED
  BY <1>2, <1>3, <1>4

-----------------------------------------------------------------------------
(* What a command may do to the fight                                       *)

Outcomes == {"killed", "subdued", "player_surrendered", "player_defeated"}
Lasts == {None, "window", "other"}

\* The initiative never changes.
LEMMA FightCarries ==
    ASSUME FightInv, initiative' = initiative,
           turn' \in Turns, timing' \in Timings, reaction' \in {None, "turn", "window", "move"},
           kit' \in Kits, bossHp' \in 0..BossHp,
           FightOf(turn', timing', reaction', kit', bossHp')
    PROVE  FightInv'
<1>1. Parts'
  BY DEF FightInv, Parts
<1>2. FightOf(turn, timing, reaction, kit, bossHp)'
  BY DEF FightOf, LairFits, Running, AtSeam, Other, Cycle, PointsLeft, WindowInv, CompletedInv, Opening, AfterBoss, AfterHero,
         TailQueue, LairDue, Crosses, Wraps, Index, Stopped, Pending
<1> QED
  BY <1>1, <1>2 DEF FightInv

\* What the invariant says of a running fight whose boss waits for a command.
LEMMA RunningFacts ==
    ASSUME FightInv, turn.status = "active"
    PROVE  /\ timing \in Timings /\ LairFits(timing) /\ turn \in Turns
           /\ bossHp > 0 /\ turn.outcome = None
           /\ Running(timing, reaction, turn.active, turn.round)
           /\ timing.points >= Points - 1 /\ timing.cycle <= turn.round
           /\ timing.window = NoWindow => timing.points = Points
<1>1. /\ timing \in Timings /\ LairFits(timing) /\ turn \in Turns
      /\ bossHp > 0 /\ turn.outcome = None
      /\ Running(timing, reaction, turn.active, turn.round)
  BY DEF FightInv, Parts, FightOf
<1>2. timing.points >= Points - 1
  BY <1>1 DEF Running, PointsLeft, Points
<1>3. timing.cycle <= turn.round
  BY <1>1 DEF Running, Cycle, Turns
<1>4. timing.window = NoWindow => timing.points = Points
  BY <1>1 DEF Running, PointsLeft, NoWindow, None
<1> QED
  BY <1>1, <1>2, <1>3, <1>4

\* A command that leaves turn and window alone.
LEMMA QuietKeepsFight ==
    ASSUME FightInv, initiative' = initiative, turn.status = "active", reaction # "window", reaction' = None,
           UNCHANGED timing, kit' \in Kits, bossHp' \in 0..BossHp, bossHp' > 0, NEW last \in Lasts, Goes(last)
    PROVE  FightInv'
<1>1. turn' \in Turns /\ turn'.status = turn.status /\ turn'.active = turn.active /\ turn'.round = turn.round
      /\ turn'.outcome = turn.outcome
  BY DEF FightInv, Parts, Turns, Goes, Lasts
<1>2. timing' \in Timings
  BY RunningFacts
<1>3. Running(timing, None, turn.active, turn.round)
  <2>1. Running(timing, reaction, turn.active, turn.round) /\ None # "window"
    BY RunningFacts DEF None
  <2> QED
    BY <2>1 DEF Running, WindowInv, AfterHero
<1>4. FightOf(turn', timing', reaction', kit', bossHp')
  BY <1>1, <1>3, RunningFacts DEF FightOf, Pending
<1> QED
  BY <1>1, <1>2, <1>4, FightCarries

\* A command that ends the fight.
LEMMA OverKeepsFight ==
    ASSUME FightInv, initiative' = initiative, reaction' = None, kit' \in Kits, bossHp' \in 0..BossHp,
           NEW t \in Timings, LairFits(t), t.points >= Points - 1, t.cycle <= turn.round,
           NEW outcome \in Outcomes, NEW last \in Lasts, Over(t, outcome, last)
    PROVE  FightInv'
<1>1. turn' \in Turns /\ turn'.status = "ended" /\ turn'.round = turn.round
  BY DEF FightInv, Parts, Turns, Over, Outcomes, Lasts
<1>2. /\ timing' \in Timings
      /\ timing'.points = t.points /\ timing'.cycle = t.cycle /\ timing'.lair = t.lair /\ timing'.lairUsed = t.lairUsed
  BY NoWindowType DEF Over, Closed, Timings
<1>3. LairFits(timing')
  BY <1>2 DEF LairFits
<1>4. Stopped(turn', timing')
  BY <1>1, <1>2 DEF Stopped, Turns, Timings
<1>5. FightOf(turn', timing', reaction', kit', bossHp')
  BY <1>1, <1>3, <1>4 DEF FightOf, Pending
<1> QED
  BY <1>1, <1>2, <1>5, FightCarries

\* The hero's turn passes to the boss.
LEMMA HandOffKeepsFight ==
    ASSUME FightInv, initiative' = initiative, turn.status = "active", turn.active = "hero",
           timing.window = NoWindow, reaction' = None, kit' \in Kits, bossHp' \in 0..BossHp, bossHp' > 0,
           NEW last \in Lasts, HandOff(bossHp', last)
    PROVE  FightInv' /\ turn'.active = "boss" /\ timing'.window = Window("hero", "boss", TailQueue(timing'), "pending")
<1>0. Parts /\ BossHp \in Nat
  BY EncounterAssumption DEF FightInv
<1>1. NextAfterHero(bossHp') = "boss"
  BY DEF NextAfterHero
<1>2. /\ turn' \in Turns /\ turn'.status = turn.status /\ turn'.active = "boss" /\ turn'.round = turn.round
      /\ turn'.outcome = turn.outcome
  BY <1>0, <1>1 DEF Parts, Turns, HandOff, Lasts
<1>3. timing \in Timings /\ LairFits(timing) /\ timing.points = Points
      /\ Running(timing, reaction, "hero", turn.round) /\ turn.outcome = None
  BY RunningFacts
<1>4. /\ timing' \in Timings /\ LairFits(timing')
      /\ timing'.points = Points /\ timing'.completed = NoWindow
      /\ timing'.cycle = IF initiative.first = "boss" THEN timing.cycle + 1 ELSE timing.cycle
      /\ timing'.window = Window("hero", "boss", TailQueue(timing'), "pending")
  <2>1. timing' = Transition(timing, "hero", "boss", bossHp')
    BY <1>1 DEF HandOff
  <2>2. bossHp' \in Nat \ {0}
    BY <1>0
  <2> QED
    BY <1>0, <1>3, <2>1, <2>2, HeroPasses
<1>5. timing'.window.tail = "pending" /\ timing'.window.resume = "boss" /\ timing'.window.trigger = "hero"
  BY <1>4 DEF Window
<1>6. timing'.cycle = Cycle("boss", turn.round) /\ timing'.cycle >= 1 /\ AtSeam(timing')
  <2>1. timing.cycle = Cycle("hero", turn.round) /\ timing.cycle >= 1 /\ turn.round \in Nat /\ timing.cycle \in Nat
        /\ initiative.first \in {"hero", "boss"}
    BY <1>0, <1>3 DEF Running, Parts, Turns, Timings
  <2> QED
    BY <1>4, <1>5, <2>1 DEF Cycle, AtSeam, Other
<1>7. WindowInv(timing', None, "boss")
  BY <1>4, <1>5 DEF WindowInv, AfterHero, None
<1>8. Running(timing', None, "boss", turn.round)
  BY <1>4, <1>5, <1>6, <1>7 DEF Running, CompletedInv, PointsLeft
<1>9. FightOf(turn', timing', reaction', kit', bossHp')
  BY <1>2, <1>3, <1>4, <1>8 DEF FightOf, Pending
<1>10. FightInv'
  BY <1>2, <1>4, <1>9, FightCarries
<1> QED
  BY <1>2, <1>4, <1>10

\* A death save after the end of the fight passes a turn that is not there.
LEMMA LateHandOffKeepsFight ==
    ASSUME FightInv, initiative' = initiative, turn.status = "ended", turn.active = None,
           reaction' = None, kit' \in Kits, UNCHANGED bossHp,
           NEW last \in Lasts, HandOff(bossHp, last)
    PROVE  FightInv'
<1>0. Parts /\ timing \in Timings /\ LairFits(timing) /\ timing.points >= Points - 1 /\ timing.cycle <= turn.round
  BY DEF FightInv, Parts, FightOf, Stopped
<1> DEFINE resume == NextAfterHero(bossHp)
           s == Started(timing, "hero", resume)
           queue == Queued(timing, "hero", resume)
           tail == IF TailOffered(timing, "hero") THEN "pending" ELSE "not-offered"
           w == Window("hero", resume, queue, tail)
<1>1. resume \in {"hero", "boss"} /\ resume # None
  BY DEF NextAfterHero, None
<1>2. /\ turn' \in Turns /\ turn'.status = "ended" /\ turn'.active # None /\ turn'.round = turn.round
  BY <1>0, <1>1 DEF Parts, Turns, HandOff, Lasts
<1>3. s \in Timings /\ LairFits(s)
  BY <1>0, StartedFits
<1>4. s.points = timing.points /\ s.cycle <= turn.round + 1
  BY <1>0 DEF Started, Timings, Parts, Turns
<1>5. timing' = IF bossHp = 0 \/ queue = <<>> THEN Refreshed(s, resume) ELSE [s EXCEPT !.window = w]
  BY <1>0, TransitionIs DEF HandOff
<1>6. queue \in {<<>>, <<"legendary">>, <<"lair">>, <<"legendary", "lair">>} /\ tail \in {"pending", "not-offered"}
  <2>1. ASSUME NEW a \in {<<>>, <<"legendary">>}, NEW b \in {<<>>, <<"lair">>}
        PROVE  a \o b \in {<<>>, <<"legendary">>, <<"lair">>, <<"legendary", "lair">>}
    <3>1. <<>> \o <<>> = <<>>
      OBVIOUS
    <3>2. <<"legendary">> \o <<>> = <<"legendary">>
      OBVIOUS
    <3>3. <<>> \o <<"lair">> = <<"lair">>
      OBVIOUS
    <3>4. <<"legendary">> \o <<"lair">> = <<"legendary", "lair">>
      <4> DEFINE q == <<"legendary">> \o <<"lair">>
      <4>1. q \in Seq({"legendary", "lair"}) /\ Len(q) = 2 /\ q[1] = "legendary" /\ q[2] = "lair"
        OBVIOUS
      <4> HIDE DEF q
      <4>2. q = <<"legendary", "lair">>
        BY <4>1
      <4> QED
        BY <4>2 DEF q
    <3> QED
      BY <3>1, <3>2, <3>3, <3>4, Zenon
  <2> QED
    BY <2>1 DEF Queued
<1>7. w \in WindowType
  BY <1>1, <1>6, WindowTypes
<1> HIDE DEF resume, s, queue, tail, w
<1>8. /\ timing' \in Timings /\ timing'.cycle = s.cycle /\ timing'.lair = s.lair /\ timing'.lairUsed = s.lairUsed
      /\ timing'.points \in {s.points, Points}
  <2>1. CASE timing' = s
    BY <1>3, <2>1
  <2>2. CASE timing' = [s EXCEPT !.points = Points]
    BY <1>3, <2>2 DEF Timings, Points
  <2>3. CASE timing' = [s EXCEPT !.window = w]
    BY <1>3, <1>7, <2>3 DEF Timings
  <2> QED
    BY <1>5, <2>1, <2>2, <2>3 DEF Refreshed
<1>9. LairFits(timing')
  BY <1>3, <1>8 DEF LairFits
<1>10. Stopped(turn', timing')
  BY <1>0, <1>2, <1>4, <1>8 DEF Stopped, Points
<1>11. FightOf(turn', timing', reaction', kit', bossHp')
  BY <1>2, <1>9, <1>10 DEF FightOf, Pending
<1> QED
  BY <1>0, <1>2, <1>8, <1>11, FightCarries DEF Parts

\* The boss's turn is over, and the fight with it if the hero is dead.
LEMMA BossTurnKeepsFight ==
    ASSUME FightInv, initiative' = initiative, turn.status = "active", turn.active = "boss",
           timing.window = NoWindow, reaction' = None, UNCHANGED bossHp,
           NEW h, NEW k \in Kits, NEW last \in Lasts, FinishBossTurn(h, k, last)
    PROVE  FightInv'
<1>0. Parts /\ BossHp \in Nat /\ MaxRound \in Nat /\ bossHp \in 0..BossHp
  BY EncounterAssumption DEF FightInv, Parts
<1>1. /\ timing \in Timings /\ LairFits(timing) /\ timing.points = Points
      /\ Running(timing, reaction, "boss", turn.round) /\ turn.outcome = None
      /\ bossHp > 0 /\ timing.points >= Points - 1 /\ timing.cycle <= turn.round
  BY RunningFacts
<1>2. CASE h.life = "dead" /\ Over(timing, "player_defeated", last) /\ kit' = k
  BY <1>0, <1>1, <1>2, OverKeepsFight DEF Outcomes
<1>3. CASE ~(h.life = "dead" /\ Over(timing, "player_defeated", last) /\ kit' = k)
  <2>0. /\ turn.round < MaxRound
        /\ turn' = [turn EXCEPT !.active = "hero", !.round = @ + 1, !.last = last]
        /\ timing' = Transition(timing, "boss", "hero", bossHp)
        /\ kit' = [k EXCEPT !.spent = [FreshBudget EXCEPT !.action = h.hp = 0], !.bossReacted = FALSE]
    BY <1>3 DEF FinishBossTurn
  <2>1. kit' \in Kits
    <3>1. [FreshBudget EXCEPT !.action = h.hp = 0] \in [action : BOOLEAN, bonus : BOOLEAN, reaction : BOOLEAN]
      BY DEF FreshBudget
    <3> DEFINE budget == [FreshBudget EXCEPT !.action = h.hp = 0]
    <3> HIDE DEF budget
    <3>2. budget \in [action : BOOLEAN, bonus : BOOLEAN, reaction : BOOLEAN]
      BY <3>1 DEF budget
    <3>3. kit' = [k EXCEPT !.spent = budget, !.bossReacted = FALSE]
      BY <2>0 DEF budget
    <3> QED
      BY <3>2, <3>3 DEF Kits
  <2>2. /\ turn' \in Turns /\ turn'.status = turn.status /\ turn'.active = "hero" /\ turn'.round = turn.round + 1
        /\ turn'.outcome = turn.outcome
    <3> DEFINE round == turn.round + 1
    <3>1. turn \in Turns /\ round \in 1..MaxRound
      BY <1>0, <2>0 DEF Parts, Turns
    <3>2. turn' = [turn EXCEPT !.active = "hero", !.round = round, !.last = last]
      BY <2>0
    <3> HIDE DEF round
    <3>3. /\ turn' \in Turns /\ turn'.status = turn.status /\ turn'.active = "hero" /\ turn'.round = round
          /\ turn'.outcome = turn.outcome
      BY <3>1, <3>2 DEF Turns, Lasts
    <3> QED
      BY <3>3 DEF round
  <2>3. /\ timing' \in Timings /\ LairFits(timing')
        /\ timing'.points = Points /\ timing'.completed = NoWindow
        /\ timing'.cycle = IF initiative.first = "hero" THEN timing.cycle + 1 ELSE timing.cycle
        /\ timing'.window = NoWindow \/ AfterBoss(timing')
    <3>1. bossHp \in Nat \ {0}
      BY <1>0, <1>1
    <3> QED
      BY <1>0, <1>1, <2>0, <3>1, BossPasses
  <2>4. timing'.cycle = Cycle("hero", turn'.round) /\ timing'.cycle >= 1 /\ AtSeam(timing')
    <3>1. timing.cycle = Cycle("boss", turn.round) /\ timing.cycle >= 1 /\ turn.round \in Nat /\ timing.cycle \in Nat
          /\ initiative.first \in {"hero", "boss"}
      BY <1>0, <1>1 DEF Running, Parts, Turns, Timings
    <3>2. timing'.window.trigger \in {None, "boss"}
      BY <2>3 DEF AfterBoss, Window, NoWindow
    <3> QED
      BY <2>2, <2>3, <3>1, <3>2 DEF Cycle, AtSeam, Other, None
  <2>5. AfterBoss(timing') => timing'.window.tail = "not-offered" /\ timing'.window.resume = "hero"
    BY DEF AfterBoss, Window
  <2>6. timing'.points = PointsLeft(timing')
    BY <2>3, <2>5 DEF PointsLeft, NoWindow, None
  <2>7. WindowInv(timing', None, "hero")
    BY <2>3, <2>5 DEF WindowInv, None
  <2>8. Running(timing', None, "hero", turn'.round)
    BY <2>3, <2>4, <2>6, <2>7 DEF Running, CompletedInv
  <2>9. FightOf(turn', timing', reaction', kit', bossHp')
    BY <1>1, <2>2, <2>3, <2>8 DEF FightOf, Pending
  <2> QED
    BY <1>0, <2>1, <2>2, <2>3, <2>9, FightCarries
<1> QED
  BY <1>2, <1>3

\* An action of the open window is over, and the fight with it if the hero is dead.
LEMMA WindowKeepsFight ==
    ASSUME FightInv, initiative' = initiative, turn.status = "active", reaction' = None,
           UNCHANGED bossHp, kit' \in Kits,
           NEW t \in Timings, LairFits(t), t.points = PointsLeft(t), t.completed = NoWindow,
           t.cycle = timing.cycle, t.window.resume = turn.active,
           AtSeam(t), Opening(t) \/ AfterBoss(t) \/ TailDone(t),
           NEW h, FinishWindow(h, t)
    PROVE  FightInv'
<1>0. Parts /\ bossHp \in 0..BossHp
  BY DEF FightInv, Parts
<1>1. /\ Running(timing, reaction, turn.active, turn.round) /\ turn.outcome = None
      /\ bossHp > 0 /\ timing.cycle <= turn.round
  BY RunningFacts
<1>2. CASE h.life = "dead" /\ Over(t, "player_defeated", "window")
  <2>1. t.points >= Points - 1
    BY DEF PointsLeft, Points
  <2> QED
    BY <1>0, <1>1, <1>2, <2>1, OverKeepsFight DEF Outcomes, Lasts
<1>3. CASE timing' = Completed(t) /\ Goes("window")
  <2>1. /\ turn' \in Turns /\ turn'.status = turn.status /\ turn'.active = turn.active /\ turn'.round = turn.round
        /\ turn'.outcome = turn.outcome
    BY <1>0, <1>3 DEF Parts, Turns, Goes
  <2>2. turn.active \in {"hero", "boss"}
    BY <1>1 DEF Running
  <2>3. /\ timing' \in Timings /\ LairFits(timing') /\ timing'.cycle = t.cycle
        /\ timing'.points = PointsLeft(timing') /\ AtSeam(timing')
        /\ WindowInv(timing', None, turn.active) /\ CompletedInv(timing', turn.active)
    BY <1>0, <1>3, <2>2, WindowGoesOn
  <2>4. Running(timing', None, turn.active, turn.round)
    BY <1>1, <2>2, <2>3 DEF Running
  <2>5. FightOf(turn', timing', reaction', kit', bossHp')
    BY <1>1, <2>1, <2>3, <2>4 DEF FightOf, Pending
  <2> QED
    BY <1>0, <2>1, <2>3, <2>5, FightCarries
<1> QED
  BY <1>2, <1>3 DEF FinishWindow

\* A hit waits for the answer of a hero who has a slot and its reaction.
LEMMA OfferKeepsFight ==
    ASSUME FightInv, initiative' = initiative, turn.status = "active", timing.window = NoWindow,
           UNCHANGED bossHp, kit' \in Kits, kit'.slots = kit.slots, kit'.spent = kit.spent,
           NEW mode \in {"turn", "move"},
           mode = "turn" => turn.active = "boss",
           mode = "move" => turn.active = "hero" /\ kit'.bossReacted,
           Offered(mode)
    PROVE  FightInv'
<1>0. Parts
  BY DEF FightInv
<1>1. /\ timing \in Timings /\ LairFits(timing)
      /\ Running(timing, reaction, turn.active, turn.round) /\ turn.outcome = None /\ bossHp > 0
  BY RunningFacts
<1>2. /\ turn' \in Turns /\ turn'.status = turn.status /\ turn'.active = turn.active /\ turn'.round = turn.round
      /\ turn'.outcome = turn.outcome /\ timing' = timing /\ reaction' = mode
  BY <1>0 DEF Parts, Turns, Offered, Goes
<1>3. Running(timing, mode, turn.active, turn.round)
  <2>1. mode # "window"
    OBVIOUS
  <2> QED
    BY <1>1, <2>1 DEF Running, WindowInv
<1>4. kit'.slots > 0 /\ ~kit'.spent.reaction
  BY DEF Offered, Eligible
<1>5. FightOf(turn', timing', reaction', kit', bossHp')
  BY <1>1, <1>2, <1>3, <1>4 DEF FightOf, Pending
<1> QED
  BY <1>0, <1>1, <1>2, <1>5, FightCarries DEF Parts

\* The tail is decided: what the window looks like before its action is over.
LEMMA TailIsDone ==
    ASSUME FightInv, turn.status = "active", timing.window = Window("hero", "boss", TailQueue(timing), "pending"),
           NEW tail \in {"used", "passed"},
           NEW t, t = [timing EXCEPT !.points = IF tail = "used" THEN @ - 1 ELSE @, !.window.tail = tail]
    PROVE  /\ t \in Timings /\ LairFits(t) /\ t.points = PointsLeft(t) /\ t.completed = NoWindow
           /\ t.cycle = timing.cycle /\ t.window.resume = turn.active
           /\ AtSeam(t) /\ TailQueue(t) = TailQueue(timing)
           /\ t.window = Window("hero", "boss", TailQueue(t), tail)
<1>1. /\ timing \in Timings /\ LairFits(timing) /\ Running(timing, reaction, turn.active, turn.round)
  BY RunningFacts
<1> DEFINE w == Window("hero", "boss", TailQueue(timing), tail)
           points == IF tail = "used" THEN timing.points - 1 ELSE timing.points
<1>2. [timing.window EXCEPT !.tail = tail] = w
  BY DEF Window
<1>3. timing.window.tail = "pending" /\ timing.window # NoWindow /\ timing.window.resume = "boss" /\ w.tail = tail
      /\ w.resume = "boss"
  BY DEF Window, NoWindow, None
<1>4. timing.points = Points
  BY <1>1, <1>3 DEF Running, PointsLeft
<1>5. turn.active = "boss" /\ timing.completed = NoWindow
  BY <1>1, <1>3 DEF Running, WindowInv
<1>6. points \in 0..Points /\ points = IF tail = "used" THEN Points - 1 ELSE Points
  BY <1>4 DEF Points
<1>7. w \in WindowType
  BY WindowTypes DEF TailQueue
<1>8. t = [timing EXCEPT !.points = points, !.window = w]
  BY <1>1, <1>2 DEF Timings
<1> HIDE DEF w, points
<1>9. /\ t \in Timings /\ t.points = points /\ t.window = w /\ t.cycle = timing.cycle
      /\ t.lair = timing.lair /\ t.lairUsed = timing.lairUsed /\ t.completed = timing.completed
  BY <1>1, <1>6, <1>7, <1>8 DEF Timings
<1>10. LairFits(t) /\ TailQueue(t) = TailQueue(timing)
  BY <1>1, <1>9 DEF LairFits, TailQueue, LairDue
<1>11. t.points = PointsLeft(t)
  BY <1>3, <1>6, <1>9 DEF PointsLeft
<1>12. AtSeam(t)
  <2>1. w.trigger = timing.window.trigger
    BY DEF w, Window
  <2> QED
    BY <1>1, <1>9, <2>1 DEF Running, AtSeam
<1> QED
  BY <1>3, <1>5, <1>9, <1>10, <1>11, <1>12 DEF w

-----------------------------------------------------------------------------
(* Every command keeps the fight together                                   *)

Budgets == [action : BOOLEAN, bonus : BOOLEAN, reaction : BOOLEAN]

\* What a kit looks like after something of it is spent.
LEMMA KitSpent ==
    ASSUME NEW k \in Kits, NEW spent \in Budgets, NEW slots \in 0..Slots, NEW wind \in BOOLEAN, NEW reacted \in BOOLEAN,
           NEW r, r = [k EXCEPT !.spent = spent, !.slots = slots, !.wind = wind, !.bossReacted = reacted]
    PROVE  r \in Kits /\ r.slots = slots /\ r.spent = spent /\ r.bossReacted = reacted
  BY DEF Kits, Budgets

\* The action, the bonus action or the reaction of the turn is spent, with a
\* slot or without.
LEMMA KitUsed ==
    ASSUME NEW k \in Kits, NEW part \in {"action", "bonus", "reaction"}, NEW cost \in 0..1, k.slots >= cost,
           NEW r, r = [k EXCEPT !.spent[part] = TRUE, !.slots = @ - cost]
    PROVE  r \in Kits
<1> DEFINE spent == [k.spent EXCEPT ![part] = TRUE]
           slots == k.slots - cost
<1>1. k.spent \in Budgets /\ k.slots \in 0..Slots /\ Slots \in Nat
  BY EncounterAssumption DEF Kits, Budgets
<1>2. spent \in Budgets
  BY <1>1 DEF Budgets
<1>3. slots \in 0..Slots
  BY <1>1
<1>4. r = [k EXCEPT !.spent = spent, !.slots = slots]
  OBVIOUS
<1> HIDE DEF spent, slots
<1> QED
  BY <1>2, <1>3, <1>4 DEF Kits, Budgets

\* The hero's turn, as the invariant sees it.
LEMMA HeroTurnFacts ==
    ASSUME FightInv, HeroTurn
    PROVE  /\ turn.status = "active" /\ turn.active = "hero" /\ reaction = None /\ timing.window = NoWindow
           /\ timing \in Timings /\ LairFits(timing) /\ timing.points >= Points - 1 /\ timing.cycle <= turn.round
           /\ kit \in Kits /\ bossHp \in 0..BossHp /\ bossHp > 0 /\ turn.last \in Lasts /\ BossHp \in Nat
           /\ reaction # "window"
<1>1. turn.status = "active" /\ turn.active = "hero" /\ reaction = None /\ timing.window = NoWindow
  BY DEF HeroTurn, Commandable
<1>2. kit \in Kits /\ bossHp \in 0..BossHp /\ turn.last \in Lasts
  BY DEF FightInv, Parts, Turns, Lasts
<1> QED
  BY <1>1, <1>2, RunningFacts, EncounterAssumption DEF None

\* The hero's attack (combat_action).
LEMMA AttackKeepsFight ==
    ASSUME FightInv, NEW n \in 0..BossHp, NEW nonlethal \in BOOLEAN, Attack(n, nonlethal)
    PROVE  FightInv'
<1>1. HeroTurn /\ n <= bossHp /\ bossHp' = bossHp - n /\ initiative' = initiative /\ reaction' = reaction
      /\ kit' = [kit EXCEPT !.spent.action = TRUE]
  BY DEF Attack, HeroActs
<1>2. kit' \in Kits
  BY <1>1, HeroTurnFacts, KitUsed DEF Kits
<1>3. bossHp' \in 0..BossHp /\ (n < bossHp => bossHp' > 0)
  BY <1>1, HeroTurnFacts
<1>4. CASE n < bossHp /\ Goes("other") /\ UNCHANGED timing
  BY <1>1, <1>2, <1>3, <1>4, HeroTurnFacts, QuietKeepsFight DEF Lasts
<1>5. CASE Over(timing, IF nonlethal THEN "subdued" ELSE "killed", "other")
  <2>1. (IF nonlethal THEN "subdued" ELSE "killed") \in Outcomes /\ "other" \in Lasts
    BY DEF Outcomes, Lasts
  <2> QED
    BY <1>1, <1>2, <1>3, <1>5, <2>1, HeroTurnFacts, OverKeepsFight
<1> QED
  BY <1>4, <1>5 DEF Attack

\* A spell that is cast with the action passes the turn.
LEMMA AfterCastKeepsFight ==
    ASSUME FightInv, HeroTurn, initiative' = initiative, reaction' = reaction, kit' \in Kits,
           bossHp' \in 0..BossHp, bossHp' > 0, NEW time, AfterCast(time, bossHp')
    PROVE  FightInv'
<1>1. CASE HandOff(bossHp', "other")
  BY <1>1, HeroTurnFacts, HandOffKeepsFight DEF Lasts
<1>2. CASE Goes("other") /\ UNCHANGED timing
  BY <1>2, HeroTurnFacts, QuietKeepsFight DEF Lasts
<1> QED
  BY <1>1, <1>2 DEF AfterCast

\* A spell of either kind (resolveHealingSpell(), resolveCastSpell()).
LEMMA CastKeepsFight ==
    ASSUME FightInv, NEW time \in {"action", "bonus"},
           \/ \E n \in 1..MaxHp : CastHealing(time, n)
           \/ \E n \in 0..BossHp, cost \in 0..1, concentrates, area \in BOOLEAN :
                 CastDamage(time, n, cost, concentrates, area)
    PROVE  FightInv'
<1>1. CASE \E n \in 1..MaxHp : CastHealing(time, n)
  <2>1. /\ HeroTurn /\ kit.slots > 0 /\ bossHp' = bossHp /\ initiative' = initiative /\ reaction' = reaction
        /\ kit' = [kit EXCEPT !.spent[time] = TRUE, !.slots = @ - 1]
        /\ AfterCast(time, bossHp)
    BY <1>1 DEF CastHealing, HeroActs
  <2>2. kit' \in Kits
    <3>1. kit \in Kits
      BY <2>1, HeroTurnFacts
    <3>2. kit.slots >= 1
      BY <2>1, <3>1, EncounterAssumption DEF Kits
    <3>3. 1 \in 0..1
      OBVIOUS
    <3>4. kit' = [kit EXCEPT !.spent[time] = TRUE, !.slots = @ - 1]
      BY <2>1
    <3> QED
      BY <3>1, <3>2, <3>3, <3>4, KitUsed
  <2> QED
    BY <2>1, <2>2, HeroTurnFacts, AfterCastKeepsFight
<1>2. CASE \E n \in 0..BossHp, cost \in 0..1, concentrates, area \in BOOLEAN :
              CastDamage(time, n, cost, concentrates, area)
  <2>1. PICK n \in 0..BossHp, cost \in 0..1 :
            /\ HeroTurn /\ kit.slots >= cost /\ n <= bossHp /\ bossHp' = bossHp - n
            /\ initiative' = initiative /\ reaction' = reaction
            /\ kit' = [kit EXCEPT !.spent[time] = TRUE, !.slots = @ - cost]
            /\ (n = bossHp /\ Over(timing, "killed", "other")) \/ (n < bossHp /\ AfterCast(time, bossHp - n))
    BY <1>2 DEF CastDamage, HeroActs
  <2>2. kit' \in Kits
    BY <2>1, HeroTurnFacts, KitUsed
  <2>3. bossHp' \in 0..BossHp /\ (n < bossHp => bossHp' > 0)
    BY <2>1, HeroTurnFacts
  <2>4. CASE Over(timing, "killed", "other")
    BY <2>1, <2>2, <2>3, <2>4, HeroTurnFacts, OverKeepsFight DEF Outcomes, Lasts
  <2>5. CASE n < bossHp /\ AfterCast(time, bossHp')
    BY <2>1, <2>2, <2>3, <2>5, AfterCastKeepsFight
  <2> QED
    BY <2>1, <2>4, <2>5
<1> QED
  BY <1>1, <1>2

\* A second wind (combat_action).
LEMMA SecondWindKeepsFight ==
    ASSUME FightInv, NEW n, SecondWind(n)
    PROVE  FightInv'
<1>1. /\ HeroTurn /\ Goes("other") /\ UNCHANGED <<initiative, timing, reaction, bossHp>>
      /\ kit' = [kit EXCEPT !.spent.bonus = TRUE, !.wind = FALSE]
  BY DEF SecondWind, HeroActs
<1>2. kit' \in Kits
  BY <1>1, HeroTurnFacts DEF Kits
<1> QED
  BY <1>1, <1>2, HeroTurnFacts, QuietKeepsFight DEF Lasts

\* The end of the hero's turn, by itself or by surrender.
LEMMA EndTurnKeepsFight ==
    ASSUME FightInv, EndTurn \/ Surrender
    PROVE  FightInv'
<1>1. HeroTurn /\ UNCHANGED <<initiative, reaction, hero, kit, bossHp>>
      /\ (HandOff(bossHp, "other") \/ Over(timing, "player_surrendered", "other"))
  BY DEF EndTurn, Surrender
<1>2. CASE HandOff(bossHp', "other")
  BY <1>1, <1>2, HeroTurnFacts, HandOffKeepsFight DEF Lasts
<1>3. CASE Over(timing, "player_surrendered", "other")
  BY <1>1, <1>3, HeroTurnFacts, OverKeepsFight DEF Lasts, Outcomes
<1> QED
  BY <1>1, <1>2, <1>3

\* A death save, in a fight or after it (resolveDeathSave()).
LEMMA DeathSaveKeepsFight ==
    ASSUME FightInv, DeathSave
    PROVE  FightInv'
<1>0. Parts /\ kit \in Kits /\ bossHp \in 0..BossHp /\ turn.last \in Lasts /\ timing \in Timings /\ LairFits(timing)
  BY DEF FightInv, Parts, Turns, Lasts, FightOf
<1>1. Commandable /\ initiative' = initiative /\ bossHp' = bossHp /\ reaction = None /\ reaction' = None
  BY DEF DeathSave, Commandable
<1>2. \/ turn.status = "active" /\ turn.active = "hero" /\ HeroTurn
      \/ turn.status = "ended" /\ turn.active = None
  BY <1>1 DEF DeathSave, HeroTurn, Commandable, Restorable, LifecycleFits
<1>3. timing.points >= Points - 1 /\ timing.cycle <= turn.round
  BY <1>2, RunningFacts DEF FightInv, FightOf, Stopped
<1>4. CASE Over(timing, "player_defeated", turn.last) /\ UNCHANGED kit
  BY <1>0, <1>1, <1>3, <1>4, OverKeepsFight DEF Outcomes
<1>5. CASE HandOff(bossHp, turn.last) /\ kit' = [kit EXCEPT !.spent.action = TRUE]
  <2>1. kit' \in Kits
    BY <1>0, <1>5 DEF Kits
  <2>2. CASE turn.status = "active"
    BY <1>0, <1>1, <1>2, <1>5, <2>1, <2>2, HeroTurnFacts, HandOffKeepsFight
  <2>3. CASE turn.status = "ended" /\ turn.active = None
    BY <1>0, <1>1, <1>5, <2>1, <2>3, LateHandOffKeepsFight
  <2> QED
    BY <1>2, <2>2, <2>3
<1> QED
  BY <1>4, <1>5 DEF DeathSave

\* The hero's move, with the opportunity attack it may cost (resolveCombatMove()).
LEMMA MoveKeepsFight ==
    ASSUME FightInv, Move
    PROVE  FightInv'
<1>1. HeroTurn /\ initiative' = initiative /\ bossHp' = bossHp
  BY DEF Move, HeroActs
<1>2. kit' = kit \/ kit' = [kit EXCEPT !.bossReacted = TRUE]
  BY DEF Move
<1>3. kit' \in Kits /\ kit'.slots = kit.slots /\ kit'.spent = kit.spent
  BY <1>1, <1>2, HeroTurnFacts DEF Kits
<1>4. CASE Offered("move") /\ kit' = [kit EXCEPT !.bossReacted = TRUE]
  <2>1. kit'.bossReacted
    BY <1>1, <1>4, HeroTurnFacts DEF Kits
  <2> QED
    BY <1>1, <1>3, <1>4, <2>1, HeroTurnFacts, OfferKeepsFight
<1>5. CASE Goes("other") /\ UNCHANGED <<timing, reaction>>
  BY <1>1, <1>3, <1>5, HeroTurnFacts, QuietKeepsFight DEF Lasts
<1> QED
  BY <1>4, <1>5 DEF Move

\* The boss's own turn (resolveAdvanceTurn()).
LEMMA BossActsKeepsFight ==
    ASSUME FightInv, BossAttack \/ BossProgram
    PROVE  FightInv'
<1>1. /\ turn.status = "active" /\ turn.active = "boss" /\ reaction = None /\ timing.window = NoWindow
      /\ initiative' = initiative /\ bossHp' = bossHp
  BY DEF BossAttack, BossProgram, BossTurn, Commandable
<1>2. kit \in Kits /\ turn.last \in Lasts /\ "other" \in Lasts
  BY DEF FightInv, Parts, Turns, Lasts
<1>3. CASE Offered("turn") /\ UNCHANGED kit
  BY <1>1, <1>2, <1>3, OfferKeepsFight
<1>4. ASSUME NEW h, NEW last \in Lasts, FinishBossTurn(h, kit, last), UNCHANGED reaction
      PROVE  FightInv'
  BY <1>1, <1>2, <1>4, BossTurnKeepsFight
<1> QED
  BY <1>2, <1>3, <1>4 DEF BossAttack, BossProgram

\* A window that is open at the lair's action.
LEMMA LairIsOpen ==
    ASSUME FightInv, WindowOpen("lair")
    PROVE  /\ turn.status = "active" /\ reaction = None /\ timing \in Timings /\ LairFits(timing)
           /\ timing.points = PointsLeft(timing) /\ timing.completed = NoWindow /\ AtSeam(timing)
           /\ timing.window.resume = turn.active
           /\ Opening(timing) \/ AfterBoss(timing) \/ TailDone(timing)
<1>1. turn.status = "active" /\ reaction = None /\ timing.window # NoWindow /\ Head(timing.window.queue) = "lair"
  BY DEF WindowOpen
<1>2. Running(timing, reaction, turn.active, turn.round) /\ timing \in Timings /\ LairFits(timing)
  BY <1>1, RunningFacts
<1>3. ASSUME NEW tail, timing.window = Window("hero", "boss", TailQueue(timing), tail)
      PROVE  FALSE
  <2>1. timing.window.queue \in {<<"legendary">>, <<"legendary", "lair">>}
    BY <1>3 DEF Window, TailQueue
  <2>2. Head(timing.window.queue) = "legendary"
    BY <2>1
  <2> QED
    BY <1>1, <2>2
<1>4. Opening(timing) \/ AfterBoss(timing) \/ TailDone(timing)
  BY <1>1, <1>2, <1>3 DEF Running, WindowInv, AfterHero, TailDone
<1> QED
  BY <1>1, <1>2, <1>4 DEF Running, WindowInv

\* A window that is open at the tail.
LEMMA TailIsOpen ==
    ASSUME FightInv, WindowOpen("legendary")
    PROVE  /\ turn.status = "active" /\ reaction = None /\ timing \in Timings
           /\ timing.window = Window("hero", "boss", TailQueue(timing), "pending")
<1>1. turn.status = "active" /\ reaction = None /\ timing.window # NoWindow /\ Head(timing.window.queue) = "legendary"
  BY DEF WindowOpen
<1>2. Running(timing, reaction, turn.active, turn.round) /\ timing \in Timings
  BY <1>1, RunningFacts
<1>3. ASSUME NEW trigger, NEW resume, NEW tail, timing.window = Window(trigger, resume, <<"lair">>, tail)
      PROVE  FALSE
  <2>1. timing.window.queue = <<"lair">>
    BY <1>3 DEF Window
  <2>2. Head(timing.window.queue) = "lair"
    BY <2>1
  <2> QED
    BY <1>1, <2>2
<1>4. AfterHero(timing, reaction)
  BY <1>1, <1>2, <1>3 DEF Running, WindowInv, Opening, AfterBoss
<1>5. reaction # "window"
  BY <1>1 DEF None
<1> QED
  BY <1>1, <1>2, <1>3, <1>4, <1>5 DEF AfterHero

\* The boss passes (resolveBossAction()).
LEMMA PassKeepsFight ==
    ASSUME FightInv, BossPass
    PROVE  FightInv'
<1> DEFINE h == [life |-> "conscious"]
<1>0. h.life # "dead" /\ kit \in Kits
  BY DEF FightInv, Parts
<1>1. UNCHANGED <<initiative, reaction, hero, kit, bossHp>> /\ Goes("window")
  BY DEF BossPass
<1> HIDE DEF h
<1>2. CASE WindowOpen("lair") /\ timing' = Completed(timing)
  <2>1. FinishWindow(h, timing)
    BY <1>0, <1>1, <1>2 DEF FinishWindow
  <2>2. /\ turn.status = "active" /\ reaction = None /\ timing \in Timings /\ LairFits(timing)
        /\ timing.points = PointsLeft(timing) /\ timing.completed = NoWindow /\ AtSeam(timing)
        /\ timing.window.resume = turn.active
        /\ Opening(timing) \/ AfterBoss(timing) \/ TailDone(timing)
    BY <1>2, LairIsOpen
  <2> QED
    BY <1>0, <1>1, <2>1, <2>2, WindowKeepsFight
<1>3. CASE WindowOpen("legendary") /\ timing' = Completed([timing EXCEPT !.window.tail = "passed"])
  <2> DEFINE t == [timing EXCEPT !.window.tail = "passed"]
  <2>1. /\ turn.status = "active" /\ reaction = None /\ timing \in Timings
        /\ timing.window = Window("hero", "boss", TailQueue(timing), "pending")
    BY <1>3, TailIsOpen
  <2>2. t = [timing EXCEPT !.points = IF "passed" = "used" THEN @ - 1 ELSE @, !.window.tail = "passed"]
    BY <2>1 DEF Timings
  <2>3. timing' = Completed(t)
    BY <1>3
  <2> HIDE DEF t
  <2>4. /\ t \in Timings /\ LairFits(t) /\ t.points = PointsLeft(t) /\ t.completed = NoWindow
        /\ t.cycle = timing.cycle /\ t.window.resume = turn.active
        /\ AtSeam(t) /\ t.window = Window("hero", "boss", TailQueue(t), "passed")
    BY <2>1, <2>2, TailIsDone
  <2>5. TailDone(t) /\ FinishWindow(h, t)
    BY <1>0, <1>1, <2>3, <2>4 DEF TailDone, FinishWindow
  <2> QED
    BY <1>0, <1>1, <2>1, <2>4, <2>5, WindowKeepsFight
<1> QED
  BY <1>2, <1>3 DEF BossPass

\* The tail attack, which a reaction may hold up (resolveBossAction()).
LEMMA TailKeepsFight ==
    ASSUME FightInv, BossTail
    PROVE  FightInv'
<1> DEFINE t == TailUsed(timing)
<1>0. Parts /\ kit \in Kits /\ UNCHANGED <<initiative, kit, bossHp>> /\ WindowOpen("legendary")
  BY DEF FightInv, Parts, BossTail
<1>1. /\ turn.status = "active" /\ reaction = None /\ timing \in Timings
      /\ timing.window = Window("hero", "boss", TailQueue(timing), "pending")
  BY <1>0, TailIsOpen
<1>2. t = [timing EXCEPT !.points = IF "used" = "used" THEN @ - 1 ELSE @, !.window.tail = "used"]
  BY <1>1 DEF TailUsed
<1>3. \/ FinishWindow(hero, t) /\ UNCHANGED reaction
      \/ Eligible /\ reaction' = "window" /\ timing' = t /\ Goes("other")
      \/ FinishWindow(hero', t) /\ UNCHANGED reaction
  BY DEF BossTail
<1> HIDE DEF t
<1>4. /\ t \in Timings /\ LairFits(t) /\ t.points = PointsLeft(t) /\ t.completed = NoWindow
      /\ t.cycle = timing.cycle /\ t.window.resume = turn.active
      /\ AtSeam(t) /\ t.window = Window("hero", "boss", TailQueue(t), "used")
  BY <1>0, <1>1, <1>2, TailIsDone
<1>5. ASSUME NEW h, FinishWindow(h, t), UNCHANGED reaction
      PROVE  FightInv'
  <2>1. TailDone(t)
    BY <1>4 DEF TailDone
  <2> QED
    BY <1>0, <1>1, <1>4, <1>5, <2>1, WindowKeepsFight
<1>6. CASE Eligible /\ reaction' = "window" /\ timing' = t /\ Goes("other")
  <2>1. /\ turn' \in Turns /\ turn'.status = turn.status /\ turn'.active = turn.active /\ turn'.round = turn.round
        /\ turn'.outcome = turn.outcome
    BY <1>0, <1>6 DEF Parts, Turns, Goes
  <2>2. bossHp > 0 /\ turn.outcome = None /\ Running(timing, reaction, turn.active, turn.round)
    BY <1>1, RunningFacts
  <2>3. AfterHero(t, "window")
    BY <1>4 DEF AfterHero
  <2>4. Running(t, "window", turn.active, turn.round)
    BY <1>4, <2>2, <2>3 DEF Running, WindowInv, CompletedInv
  <2>5. FightOf(turn', timing', reaction', kit', bossHp')
    BY <1>0, <1>1, <1>4, <1>6, <2>1, <2>2, <2>4 DEF FightOf, Pending, Eligible
  <2> QED
    BY <1>0, <1>4, <1>6, <2>1, <2>5, FightCarries DEF Parts
<1> QED
  BY <1>3, <1>5, <1>6

\* The lair's action (resolveBossAction()).
LEMMA LairKeepsFight ==
    ASSUME FightInv, BossLair
    PROVE  FightInv'
<1>1. /\ WindowOpen("lair") /\ FinishWindow(hero', timing) /\ UNCHANGED <<initiative, reaction, kit, bossHp>>
      /\ kit \in Kits
  BY DEF BossLair, FightInv, Parts
<1>2. /\ turn.status = "active" /\ reaction = None /\ timing \in Timings /\ LairFits(timing)
      /\ timing.points = PointsLeft(timing) /\ timing.completed = NoWindow /\ AtSeam(timing)
      /\ timing.window.resume = turn.active
      /\ Opening(timing) \/ AfterBoss(timing) \/ TailDone(timing)
  BY <1>1, LairIsOpen
<1> QED
  BY <1>1, <1>2, WindowKeepsFight

\* The answer to an offered reaction goes on where the attack came from
\* (pendingReactionTurnSuffix()).
LEMMA RespondKeepsFight ==
    ASSUME FightInv, Respond
    PROVE  FightInv'
<1>0. Parts /\ kit \in Kits /\ bossHp \in 0..BossHp /\ UNCHANGED <<initiative, bossHp>> /\ reaction' = None
      /\ turn.status = "active" /\ reaction # None
  BY DEF FightInv, Parts, Respond
<1>1. /\ Running(timing, reaction, turn.active, turn.round) /\ timing \in Timings /\ LairFits(timing) /\ bossHp > 0
  BY <1>0, RunningFacts
<1>2. PICK k \in Kits : Resume(hero', k)
  <2>1. CASE Resume(hero', kit)
    BY <1>0, <2>1
  <2>2. CASE Eligible /\ Resume(hero', [kit EXCEPT !.slots = @ - 1, !.spent.reaction = TRUE])
    <3> DEFINE k == [kit EXCEPT !.slots = @ - 1, !.spent.reaction = TRUE]
    <3>1. kit.slots - 1 \in 0..Slots
      BY <1>0, <2>2, EncounterAssumption DEF Eligible, Kits
    <3>2. k \in Kits
      BY <1>0, <3>1 DEF Kits
    <3> QED
      BY <2>2, <3>2
  <2> QED
    BY <2>1, <2>2 DEF Respond
<1>3. Pending(turn, timing, reaction, kit)
  BY DEF FightInv, FightOf
<1>4. CASE reaction = "turn" /\ FinishBossTurn(hero', k, "other")
  <2>1. turn.active = "boss" /\ timing.window = NoWindow
    BY <1>0, <1>3, <1>4 DEF Pending
  <2> QED
    BY <1>0, <1>4, <2>1, BossTurnKeepsFight DEF Lasts
<1>5. CASE reaction = "window" /\ FinishWindow(hero', timing) /\ kit' = k
  <2>1. /\ timing.window = Window("hero", "boss", TailQueue(timing), "used") /\ timing.completed = NoWindow
        /\ timing.window.resume = turn.active /\ timing.points = PointsLeft(timing) /\ AtSeam(timing)
    BY <1>1, <1>5 DEF Running, WindowInv, AfterHero
  <2>2. TailDone(timing)
    BY <2>1 DEF TailDone
  <2> QED
    BY <1>0, <1>1, <1>5, <2>1, <2>2, WindowKeepsFight
<1>6. CASE reaction = "move" /\ Goes("other") /\ kit' = k /\ UNCHANGED timing
  BY <1>0, <1>1, <1>6, QuietKeepsFight DEF Lasts
<1> QED
  BY <1>2, <1>4, <1>5, <1>6 DEF Resume

\* A fight that the load check refuses is stopped (quarantineInvalidBossCombat()).
LEMMA QuarantineKeepsFight ==
    ASSUME FightInv, Quarantine
    PROVE  FightInv'
<1>0. Parts /\ kit \in Kits /\ bossHp \in 0..BossHp /\ timing \in Timings /\ LairFits(timing)
      /\ UNCHANGED <<initiative, hero, kit, bossHp>> /\ reaction' = None
  BY DEF FightInv, FightOf, Parts, Quarantine
<1>1. turn' \in Turns /\ turn'.status = "quarantined" /\ turn'.round = turn.round
  BY <1>0 DEF Parts, Turns, Quarantine
<1>2. /\ timing' \in Timings
      /\ timing'.points = timing.points /\ timing'.cycle = timing.cycle
      /\ timing'.lair = timing.lair /\ timing'.lairUsed = timing.lairUsed
  BY <1>0, NoWindowType DEF Quarantine, Closed, Timings
<1>3. timing.points >= Points - 1 /\ timing.cycle <= turn.round + 1
  <2>1. CASE turn.status = "active"
    BY <1>0, <2>1, RunningFacts DEF Parts, Turns, Timings
  <2>2. CASE turn.status # "active"
    BY <2>2 DEF FightInv, FightOf, Stopped
  <2> QED
    BY <2>1, <2>2
<1>4. LairFits(timing') /\ Stopped(turn', timing')
  BY <1>0, <1>1, <1>2, <1>3 DEF LairFits, Stopped
<1>5. FightOf(turn', timing', reaction', kit', bossHp')
  BY <1>0, <1>1, <1>4 DEF FightOf, Pending
<1> QED
  BY <1>0, <1>1, <1>2, <1>5, FightCarries

\* A fight begins with all its points, and with the lair if nobody was faster.
LEMMA InitFight == Init => FightInv
<1> SUFFICES ASSUME Init PROVE FightInv
  OBVIOUS
<1>0. BossHp \in Nat \ {0} /\ MaxRound \in Nat \ {0} /\ Slots \in Nat
  BY EncounterAssumption
<1>1. initiative.first \in {"hero", "boss"} /\ initiative \in [first : {"hero", "boss"}, boundary : 0..2]
  BY DEF Init
<1>2. turn = [status |-> "active", active |-> initiative.first, round |-> 1, outcome |-> None, last |-> None]
  BY DEF Init
<1>3. turn \in Turns
  BY <1>0, <1>1, <1>2 DEF Turns
<1> DEFINE w == IF initiative.boundary = 0 THEN Window(None, initiative.first, <<"lair">>, "not-offered") ELSE NoWindow
<1>4. timing = [points |-> Points, cycle |-> 1, lair |-> TRUE, lairUsed |-> 0, completed |-> NoWindow, window |-> w]
  BY DEF Init
<1>5. w \in WindowType
  BY <1>1, WindowTypes, NoWindowType
<1>6. w = NoWindow \/ (w = Window(None, initiative.first, <<"lair">>, "not-offered") /\ initiative.boundary = 0)
  OBVIOUS
<1>7. w.trigger = None /\ w.tail \in {None, "not-offered"} /\ (w # NoWindow => w.resume = initiative.first)
  BY DEF Window, NoWindow
<1> HIDE DEF w
<1>8. timing \in Timings
  BY <1>4, <1>5, NoWindowType DEF Timings, Points
<1>9. kit \in Kits /\ reaction = None /\ bossHp \in 0..BossHp /\ bossHp > 0
  BY <1>0 DEF Init, Kits, FreshBudget
<1>10. /\ timing.cycle = 1 /\ timing.lairUsed = 0 /\ timing.lair = TRUE /\ timing.points = Points
       /\ timing.completed = NoWindow /\ timing.window = w
       /\ turn.status = "active" /\ turn.active = initiative.first /\ turn.round = 1 /\ turn.outcome = None
  BY <1>2, <1>4
<1>11. LairFits(timing) /\ PointsLeft(timing) = Points
  BY <1>7, <1>10 DEF LairFits, PointsLeft, None
<1>12. AtSeam(timing) /\ Cycle(turn.active, turn.round) = 1
  BY <1>1, <1>7, <1>10 DEF AtSeam, Cycle, Other, None
<1>13. WindowInv(timing, reaction, turn.active)
  BY <1>6, <1>7, <1>9, <1>10 DEF WindowInv, Opening, None
<1>14. Running(timing, reaction, turn.active, turn.round)
  BY <1>1, <1>10, <1>11, <1>12, <1>13 DEF Running, CompletedInv
<1>15. FightOf(turn, timing, reaction, kit, bossHp)
  BY <1>9, <1>10, <1>11, <1>14 DEF FightOf, Pending
<1> QED
  BY <1>1, <1>3, <1>8, <1>9, <1>15 DEF FightInv, Parts

\* Every command keeps the fight together.
LEMMA NextFight ==
    ASSUME FightInv, [Next]_vars
    PROVE  FightInv'
<1>1. CASE UNCHANGED vars
  <2>1. FightOf(turn', timing', reaction', kit', bossHp') /\ Parts
    BY <1>1 DEF vars, FightInv
  <2> QED
    BY <1>1, <2>1, FightCarries DEF vars, Parts
<1>2. ASSUME NEW n \in 0..BossHp, NEW nonlethal \in BOOLEAN, Attack(n, nonlethal)
      PROVE  FightInv'
  BY <1>2, AttackKeepsFight
<1>3. ASSUME NEW n, SecondWind(n)
      PROVE  FightInv'
  BY <1>3, SecondWindKeepsFight
<1>4. ASSUME NEW time \in {"action", "bonus"}, NEW n \in 1..MaxHp, CastHealing(time, n)
      PROVE  FightInv'
  BY <1>4, CastKeepsFight
<1>5. ASSUME NEW time \in {"action", "bonus"},
             \E n \in 0..BossHp, cost \in 0..1, concentrates, area \in BOOLEAN :
                CastDamage(time, n, cost, concentrates, area)
      PROVE  FightInv'
  BY <1>5, CastKeepsFight
<1>6. CASE EndTurn \/ Surrender
  BY <1>6, EndTurnKeepsFight
<1>7. CASE DeathSave
  BY <1>7, DeathSaveKeepsFight
<1>8. CASE Move
  BY <1>8, MoveKeepsFight
<1>9. CASE BossAttack \/ BossProgram
  BY <1>9, BossActsKeepsFight
<1>10. CASE BossPass
  BY <1>10, PassKeepsFight
<1>11. CASE BossTail
  BY <1>11, TailKeepsFight
<1>12. CASE BossLair
  BY <1>12, LairKeepsFight
<1>13. CASE Respond
  BY <1>13, RespondKeepsFight
<1>14. CASE Quarantine
  BY <1>14, QuarantineKeepsFight
<1> QED
  BY <1>1, <1>2, <1>3, <1>4, <1>5, <1>6, <1>7, <1>8, <1>9, <1>10, <1>11, <1>12, <1>13, <1>14 DEF Next

\* The invariant gives the type: the cycle is never more than one past the round.
LEMMA FightTypes ==
    ASSUME FightInv, LifeConsistent
    PROVE  TypeOK
<1>0. Parts /\ hero \in Lives /\ MaxRound \in Nat /\ LairFits(timing)
  BY EncounterAssumption DEF FightInv, FightOf, LifeConsistent, LifeOK
<1>1. timing.cycle <= turn.round + 1
  <2>1. CASE turn.status = "active"
    BY <1>0, <2>1, RunningFacts DEF Parts, Turns, Timings
  <2>2. CASE turn.status # "active"
    BY <2>2 DEF FightInv, FightOf, Stopped
  <2> QED
    BY <2>1, <2>2
<1>2. timing.cycle \in 1..MaxRound + 1 /\ timing.lairUsed \in 0..MaxRound + 1
  BY <1>0, <1>1 DEF Parts, Turns, Timings, LairFits
<1>3. timing \in [points : 0..Points, cycle : 1..MaxRound + 1, lair : BOOLEAN, lairUsed : 0..MaxRound + 1,
                  window : WindowType, completed : WindowType]
  BY <1>0, <1>2 DEF Parts, Timings
<1>4. turn.status = "active" => turn.outcome = None
  BY DEF FightInv, FightOf
<1> QED
  BY <1>0, <1>3, <1>4 DEF TypeOK, Parts, Turns, Kits

\* Every part of a fight is of its kind in every reachable state, however many
\* rounds it lasts (normalizeCombat()).
THEOREM FightTypeCorrect == Spec => []TypeOK
<1>1. Init => FightInv /\ LifeConsistent
  BY InitFight, InitLife
<1>2. FightInv /\ LifeConsistent /\ [Next]_vars => (FightInv /\ LifeConsistent)'
  BY NextFight, NextLife
<1>3. FightInv /\ LifeConsistent => TypeOK
  BY FightTypes
<1> QED
  BY <1>1, <1>2, <1>3, PTL DEF Spec

-----------------------------------------------------------------------------
(* The load check holds of a running fight                                  *)

\* The queue of a window tells which of the two actions are still to come.
LEMMA QueueContains ==
    /\ Contains(<<"lair">>, "lair") /\ ~Contains(<<"lair">>, "legendary")
    /\ Contains(<<"legendary">>, "legendary") /\ ~Contains(<<"legendary">>, "lair")
    /\ Contains(<<"legendary", "lair">>, "legendary") /\ Contains(<<"legendary", "lair">>, "lair")
  BY DEF Contains

\* Every window of a running fight passes the load check (normalizeBossTiming()).
LEMMA OpenWindowFits ==
    ASSUME FightInv, turn.status = "active", timing.window # NoWindow
    PROVE  WindowFits(timing.window) /\ timing.completed = NoWindow /\ (reaction = "window" <=> TailPending)
<1>0. Parts /\ Running(timing, reaction, turn.active, turn.round) /\ turn.outcome = None /\ timing \in Timings
  BY RunningFacts DEF FightInv
<1>1. /\ timing.window.resume = turn.active /\ timing.completed = NoWindow
      /\ \/ (Opening(timing) \/ AfterBoss(timing)) /\ reaction # "window"
         \/ AfterHero(timing, reaction)
      /\ timing.points = PointsLeft(timing) /\ AtSeam(timing)
      /\ timing.cycle = Cycle(turn.active, turn.round)
  BY <1>0 DEF Running, WindowInv
<1>2. initiative.first \in {"hero", "boss"} /\ None \notin {"hero", "boss", "used", "passed"}
  BY <1>0 DEF Parts, None
<1>3. ASSUME NEW trigger, NEW resume, NEW queue, NEW tail, timing.window = Window(trigger, resume, queue, tail)
      PROVE  /\ timing.window.trigger = trigger /\ timing.window.resume = resume
             /\ timing.window.queue = queue /\ timing.window.tail = tail
  BY <1>3 DEF Window
<1>4. CASE Opening(timing) /\ reaction # "window"
  <2>1. /\ timing.window = Window(None, initiative.first, <<"lair">>, "not-offered")
        /\ initiative.boundary = 0 /\ timing.cycle = 1 /\ timing.lairUsed = 0
    BY <1>4 DEF Opening
  <2>2. /\ timing.window.trigger = None /\ timing.window.resume = initiative.first
        /\ timing.window.queue = <<"lair">> /\ timing.window.tail = "not-offered"
    BY <1>3, <2>1
  <2>3. timing.points = Points /\ Head(<<"lair">>) # "legendary"
    BY <1>1, <2>2 DEF PointsLeft
  <2>4. WindowFits(timing.window)
    BY <1>0, <1>1, <2>1, <2>2, <2>3 DEF WindowFits
  <2>5. ~TailPending
    BY <2>2 DEF TailPending
  <2> QED
    BY <1>1, <1>4, <2>4, <2>5
<1>5. CASE AfterBoss(timing) /\ reaction # "window"
  <2>1. timing.window = Window("boss", "hero", <<"lair">>, "not-offered") /\ Crosses("boss", "hero") /\ timing.lair
    BY <1>5 DEF AfterBoss
  <2>2. /\ timing.window.trigger = "boss" /\ timing.window.resume = "hero"
        /\ timing.window.queue = <<"lair">> /\ timing.window.tail = "not-offered"
    BY <1>3, <2>1
  <2>3. turn.active = "hero" /\ Other("hero") = "boss"
    BY <1>1, <2>2 DEF Other
  <2>4. Wraps("boss", "hero") => timing.cycle >= 2 /\ timing.cycle = turn.round
    BY <1>1, <1>2, <2>2, <2>3 DEF Wraps, Index, AtSeam, Cycle, Other
  <2>5. WindowFits(timing.window)
    BY <1>0, <1>1, <2>1, <2>2, <2>3, <2>4, QueueContains DEF WindowFits
  <2>6. ~TailPending
    BY <2>2 DEF TailPending
  <2> QED
    BY <1>1, <1>5, <2>5, <2>6
<1>6. CASE AfterHero(timing, reaction)
  <2>1. PICK queue \in {<<"lair">>, <<"legendary">>, <<"legendary", "lair">>}, tail \in {"pending", "used", "passed"} :
            /\ timing.window = Window("hero", "boss", queue, tail)
            /\ \/ queue = TailQueue(timing) /\ tail = "pending" /\ reaction # "window"
               \/ queue = TailQueue(timing) /\ tail = "used" /\ reaction = "window"
               \/ queue = <<"lair">> /\ tail \in {"used", "passed"} /\ LairDue(timing) /\ reaction # "window"
    BY <1>6 DEF AfterHero, TailQueue
  <2>2. /\ timing.window.trigger = "hero" /\ timing.window.resume = "boss"
        /\ timing.window.queue = queue /\ timing.window.tail = tail
    BY <1>3, <2>1
  <2>3. turn.active = "boss" /\ Other("boss") = "hero"
    BY <1>1, <2>2 DEF Other
  <2>4. Wraps("hero", "boss") => timing.cycle >= 2 /\ timing.cycle = turn.round
    BY <1>1, <1>2, <2>2, <2>3 DEF Wraps, Index, AtSeam, Cycle, Other
  <2>5. timing.points = IF tail = "used" THEN 2 ELSE 3
    BY <1>1, <2>2 DEF PointsLeft, Points
  <2>6. Contains(queue, "lair") <=> LairDue(timing)
    BY <2>1, QueueContains DEF TailQueue
  <2>7. tail = "pending" => Contains(queue, "legendary")
    BY <2>1, QueueContains DEF TailQueue
  <2>8. tail = "passed" => ~Contains(queue, "legendary")
    BY <2>1, QueueContains
  <2>9. WindowFits(timing.window)
    BY <1>0, <1>1, <2>1, <2>2, <2>3, <2>4, <2>5, <2>6, <2>7, <2>8 DEF WindowFits, LairDue
  <2>10. Head(<<"lair">>) = "lair" /\ Head(TailQueue(timing)) = "legendary"
    BY DEF TailQueue
  <2>11. reaction = "window" <=> TailPending
    BY <2>1, <2>2, <2>10 DEF TailPending
  <2> QED
    BY <1>1, <2>9, <2>11
<1> QED
  BY <1>1, <1>4, <1>5, <1>6

\* lastAction can only miss its window where a command leaves "window" in it.
LEMMA OtherFits ==
    ASSUME turn'.last # "window" \/ turn'.status # "active" \/ timing'.completed # NoWindow
    PROVE  LostAtHandOver'
  BY DEF LostAtHandOver, LastActionFits

\* An action of a window leaves the window it names, closed or with its tail
\* decided.
LEMMA CompletedRemembers ==
    ASSUME Parts, NEW t \in Timings, LairFits(t), Opening(t) \/ AfterBoss(t) \/ TailDone(t),
           NEW r, r = Completed(t)
    PROVE  \/ r.completed # NoWindow
           \/ r.window # NoWindow /\ r.window.tail \in {"used", "passed"}
<1>0. initiative.first \in {"hero", "boss"} /\ None \notin {"used", "passed", "not-offered"}
  BY DEF Parts, None
<1>1. ASSUME NEW trigger \in {"hero", "boss", None}, NEW resume \in {"hero", "boss"}, NEW kind \in {"legendary", "lair"},
             NEW tail \in {"used", "passed", "not-offered"}, t.window = Window(trigger, resume, <<kind>>, tail)
      PROVE  r.completed # NoWindow
  <2>1. r.completed = Window(trigger, resume, <<>>, tail)
    BY <1>1, WindowCloses
  <2>2. r.completed.tail = tail
    BY <2>1 DEF Window
  <2> QED
    BY <1>0, <2>2 DEF NoWindow
<1>2. CASE Opening(t) \/ AfterBoss(t)
  BY <1>0, <1>1, <1>2 DEF Opening, AfterBoss
<1>3. CASE TailDone(t)
  <2>1. PICK tail \in {"used", "passed"} :
            \/ t.window = Window("hero", "boss", <<"legendary", "lair">>, tail)
            \/ t.window = Window("hero", "boss", <<"legendary">>, tail)
            \/ t.window = Window("hero", "boss", <<"lair">>, tail)
    BY <1>3 DEF TailDone, TailQueue
  <2>2. CASE t.window = Window("hero", "boss", <<"legendary", "lair">>, tail)
    <3>1. r.window = Window("hero", "boss", <<"lair">>, tail)
      BY <2>2, WindowAdvances
    <3>2. r.window.tail = tail
      BY <3>1 DEF Window
    <3> QED
      BY <1>0, <3>2 DEF NoWindow
  <2>3. CASE ~(t.window = Window("hero", "boss", <<"legendary", "lair">>, tail))
    BY <1>1, <2>1, <2>3
  <2> QED
    BY <2>2, <2>3
<1> QED
  BY <1>2, <1>3

\* An action of a window leaves a fight the next load accepts.
LEMMA WindowRemembers ==
    ASSUME FightInv, turn.status = "active", NEW t \in Timings, LairFits(t),
           Opening(t) \/ AfterBoss(t) \/ TailDone(t), NEW h, FinishWindow(h, t)
    PROVE  LostAtHandOver'
<1>0. Parts
  BY DEF FightInv
<1>1. CASE Over(t, "player_defeated", "window")
  <2>1. turn'.status # "active"
    BY <1>0, <1>1 DEF Over, Parts, Turns
  <2> QED
    BY <2>1, OtherFits
<1>2. CASE timing' = Completed(t)
  BY <1>0, <1>2, CompletedRemembers DEF LostAtHandOver, LastActionFits
<1> QED
  BY <1>1, <1>2 DEF FinishWindow

\* The boss hands over a turn of which nothing is spent.
LEMMA BossHandsOver ==
    ASSUME FightInv, NEW h, NEW k \in Kits, NEW last, FinishBossTurn(h, k, last), reaction' = None
    PROVE  LostAtHandOver'
<1>0. turn \in Turns
  BY DEF FightInv, Parts
<1>1. CASE Over(timing, "player_defeated", last)
  <2>1. turn'.status # "active"
    BY <1>0, <1>1 DEF Over, Turns
  <2> QED
    BY <2>1, OtherFits
<1>2. CASE kit' = [k EXCEPT !.spent = [FreshBudget EXCEPT !.action = h.hp = 0], !.bossReacted = FALSE]
  <2>1. ~kit'.spent.bonus /\ ~kit'.spent.reaction /\ ~kit'.bossReacted
    BY <1>2 DEF Kits, FreshBudget
  <2> QED
    BY <2>1 DEF LostAtHandOver
<1> QED
  BY <1>1, <1>2 DEF FinishBossTurn

\* Only the load check itself touches a fight that it refuses, and every
\* command leaves one that it accepts, or a turn just handed over.
LEMMA NextLost ==
    ASSUME FightInv, LostAtHandOver, [Next]_vars
    PROVE  LostAtHandOver'
<1>0. Parts /\ turn \in Turns /\ kit \in Kits
  BY DEF FightInv, Parts
<1>1. ASSUME NEW t, Goes("other") \/ (\E outcome, last : Over(t, outcome, last)) PROVE LostAtHandOver'
  <2>1. turn'.last = "other" \/ turn'.status = "ended"
    BY <1>0, <1>1 DEF Goes, Over, Turns
  <2> QED
    BY <2>1, OtherFits
<1>2. ASSUME NEW hp, HandOff(hp, "other") PROVE LostAtHandOver'
  <2>1. turn'.last = "other"
    BY <1>0, <1>2 DEF HandOff, Turns
  <2> QED
    BY <2>1, OtherFits
<1>3. CASE UNCHANGED vars
  BY <1>3 DEF vars, LostAtHandOver, LastActionFits
<1>4. ASSUME NEW n \in 0..BossHp, NEW nonlethal \in BOOLEAN, Attack(n, nonlethal)
      PROVE  LostAtHandOver'
  BY <1>1, <1>4 DEF Attack
<1>5. ASSUME NEW n, SecondWind(n)
      PROVE  LostAtHandOver'
  BY <1>1, <1>5 DEF SecondWind
<1>6. ASSUME NEW time \in {"action", "bonus"}, NEW n \in 1..MaxHp, CastHealing(time, n)
      PROVE  LostAtHandOver'
  BY <1>1, <1>2, <1>6 DEF CastHealing, AfterCast
<1>7. ASSUME NEW time \in {"action", "bonus"}, NEW n \in 0..BossHp, NEW cost \in 0..1,
             NEW concentrates \in BOOLEAN, NEW area \in BOOLEAN, CastDamage(time, n, cost, concentrates, area)
      PROVE  LostAtHandOver'
  BY <1>1, <1>2, <1>7 DEF CastDamage, AfterCast
<1>8. CASE EndTurn \/ Surrender
  BY <1>1, <1>2, <1>8 DEF EndTurn, Surrender
<1>9. CASE DeathSave
  <2>1. reaction' = None /\ bossHp \in 0..BossHp
    BY <1>9 DEF DeathSave, Commandable, FightInv, Parts
  <2>2. CASE HandOff(bossHp, turn.last) /\ turn.status = "active"
    <3>1. bossHp > 0
      BY <2>2, RunningFacts
    <3>2. turn'.active = "boss"
      BY <1>0, <2>2, <3>1 DEF HandOff, NextAfterHero, Turns
    <3> QED
      BY <2>1, <3>2 DEF LostAtHandOver
  <2>3. CASE HandOff(bossHp, turn.last) /\ turn.status # "active"
    <3>1. turn'.status # "active"
      BY <1>0, <2>3 DEF HandOff, Turns
    <3> QED
      BY <3>1, OtherFits
  <2> QED
    BY <1>1, <1>9, <2>2, <2>3 DEF DeathSave
<1>10. CASE Move
  BY <1>1, <1>10 DEF Move, Offered
<1>11. CASE BossAttack
  <2>1. reaction = None
    BY <1>11 DEF BossAttack, BossTurn, Commandable
  <2>2. CASE Offered("turn")
    BY <1>1, <2>2 DEF Offered
  <2>3. ASSUME NEW h, FinishBossTurn(h, kit, turn.last), UNCHANGED reaction PROVE LostAtHandOver'
    BY <1>0, <2>1, <2>3, BossHandsOver
  <2> QED
    BY <1>11, <2>2, <2>3 DEF BossAttack
<1>12. CASE BossProgram
  <2>1. reaction' = None /\ FinishBossTurn(hero', kit, "other")
    BY <1>12 DEF BossProgram, BossTurn, Commandable
  <2> QED
    BY <1>0, <2>1, BossHandsOver
<1>13. CASE BossPass
  <2>1. CASE WindowOpen("lair") /\ timing' = Completed(timing)
    <3>1. timing \in Timings /\ LairFits(timing) /\ (Opening(timing) \/ AfterBoss(timing) \/ TailDone(timing))
      BY <2>1, LairIsOpen
    <3> QED
      BY <1>0, <2>1, <3>1, CompletedRemembers DEF LostAtHandOver, LastActionFits
  <2>2. CASE WindowOpen("legendary") /\ timing' = Completed([timing EXCEPT !.window.tail = "passed"])
    <3> DEFINE t == [timing EXCEPT !.window.tail = "passed"]
    <3>1. turn.status = "active" /\ timing \in Timings /\ timing.window = Window("hero", "boss", TailQueue(timing), "pending")
      BY <2>2, TailIsOpen
    <3>2. t = [timing EXCEPT !.points = IF "passed" = "used" THEN @ - 1 ELSE @, !.window.tail = "passed"]
      BY <3>1 DEF Timings
    <3>3. timing' = Completed(t)
      BY <2>2
    <3> HIDE DEF t
    <3>4. t \in Timings /\ LairFits(t) /\ t.window = Window("hero", "boss", TailQueue(t), "passed")
      BY <3>1, <3>2, TailIsDone
    <3>5. TailDone(t)
      BY <3>4 DEF TailDone
    <3> QED
      BY <1>0, <3>3, <3>4, <3>5, CompletedRemembers DEF LostAtHandOver, LastActionFits
  <2> QED
    BY <1>13, <2>1, <2>2 DEF BossPass
<1>14. CASE BossTail
  <2> DEFINE t == TailUsed(timing)
  <2>1. turn.status = "active" /\ timing \in Timings /\ timing.window = Window("hero", "boss", TailQueue(timing), "pending")
    BY <1>14, TailIsOpen DEF BossTail
  <2>2. t = [timing EXCEPT !.points = IF "used" = "used" THEN @ - 1 ELSE @, !.window.tail = "used"]
    BY <2>1 DEF TailUsed
  <2>3. Goes("other") \/ FinishWindow(hero, t) \/ FinishWindow(hero', t)
    BY <1>14 DEF BossTail
  <2> HIDE DEF t
  <2>4. t \in Timings /\ LairFits(t) /\ t.window = Window("hero", "boss", TailQueue(t), "used")
    BY <2>1, <2>2, TailIsDone
  <2>5. TailDone(t)
    BY <2>4 DEF TailDone
  <2> QED
    BY <1>1, <2>1, <2>3, <2>4, <2>5, WindowRemembers
<1>15. CASE BossLair
  <2>1. WindowOpen("lair") /\ FinishWindow(hero', timing)
    BY <1>15 DEF BossLair
  <2>2. /\ turn.status = "active" /\ timing \in Timings /\ LairFits(timing)
        /\ Opening(timing) \/ AfterBoss(timing) \/ TailDone(timing)
    BY <2>1, LairIsOpen
  <2> QED
    BY <2>1, <2>2, WindowRemembers
<1>16. CASE Respond
  <2>1. turn.status = "active" /\ reaction # None /\ reaction' = None
    BY <1>16 DEF Respond
  <2>2. PICK k \in Kits : Resume(hero', k)
    <3>1. CASE Resume(hero', kit)
      BY <1>0, <3>1
    <3>2. CASE Eligible /\ Resume(hero', [kit EXCEPT !.slots = @ - 1, !.spent.reaction = TRUE])
      <4> DEFINE k == [kit EXCEPT !.slots = @ - 1, !.spent.reaction = TRUE]
      <4>1. kit.slots - 1 \in 0..Slots
        BY <1>0, <3>2, EncounterAssumption DEF Eligible, Kits
      <4>2. k \in Kits
        BY <1>0, <4>1 DEF Kits
      <4> QED
        BY <3>2, <4>2
    <3> QED
      BY <1>16, <3>1, <3>2 DEF Respond
  <2>3. CASE reaction = "turn" /\ FinishBossTurn(hero', k, "other")
    BY <2>1, <2>3, BossHandsOver
  <2>4. CASE reaction = "window" /\ FinishWindow(hero', timing)
    <3>1. Running(timing, reaction, turn.active, turn.round) /\ timing \in Timings /\ LairFits(timing)
      BY <2>1, RunningFacts
    <3>2. timing.window = Window("hero", "boss", TailQueue(timing), "used")
      BY <2>4, <3>1 DEF Running, WindowInv, AfterHero
    <3>3. TailDone(timing)
      BY <3>2 DEF TailDone
    <3> QED
      BY <2>1, <2>4, <3>1, <3>3, WindowRemembers
  <2>5. CASE Goes("other")
    BY <1>1, <2>5
  <2> QED
    BY <2>2, <2>3, <2>4, <2>5 DEF Resume
<1>17. CASE Quarantine
  <2>1. turn'.status # "active"
    BY <1>0, <1>17 DEF Quarantine, Turns
  <2> QED
    BY <2>1, OtherFits
<1> QED
  BY <1>3, <1>4, <1>5, <1>6, <1>7, <1>8, <1>9, <1>10, <1>11, <1>12, <1>13, <1>14, <1>15, <1>16, <1>17 DEF Next

\* What the invariant is for.
LEMMA FightFitsFollows ==
    ASSUME FightInv, DeadMeansOver, LostAtHandOver
    PROVE  FightFits
<1>0. Parts /\ LairFits(timing) /\ timing \in Timings /\ Pending(turn, timing, reaction, kit)
  BY DEF FightInv, FightOf, Parts
<1>1. ASSUME turn.status = "active"
      PROVE  /\ LifecycleFits /\ TimingFits /\ (reaction = "window" <=> TailPending)
             /\ timing.window = NoWindow => timing.points = Points
             /\ timing.points >= Points - 1
  <2>1. /\ Running(timing, reaction, turn.active, turn.round) /\ bossHp > 0 /\ turn.outcome = None
        /\ timing.points >= Points - 1 /\ (timing.window = NoWindow => timing.points = Points)
    BY <1>1, RunningFacts
  <2>2. turn.active \in {"hero", "boss"} /\ None \notin {"hero", "boss"}
    BY <2>1 DEF Running, None
  <2>3. LifecycleFits
    BY <1>1, <2>1, <2>2 DEF LifecycleFits, DeadMeansOver
  <2>4. timing.completed # NoWindow => CompletedFits(timing.completed)
    BY <1>1, <2>1 DEF Running, CompletedInv, CompletedFits, Other
  <2>5. TimingFits
    BY <1>0, <1>1, <2>4, OpenWindowFits DEF TimingFits, LairFits
  <2>6. reaction = "window" <=> TailPending
    <3>1. CASE timing.window = NoWindow
      BY <2>1, <3>1 DEF Running, WindowInv, AfterHero, Opening, AfterBoss, TailPending, Window, NoWindow, None
    <3>2. CASE timing.window # NoWindow
      BY <1>1, <3>2, OpenWindowFits
    <3> QED
      BY <3>1, <3>2
  <2> QED
    BY <2>1, <2>3, <2>5, <2>6
<1>2. RunningFightFits
  BY <1>1 DEF RunningFightFits
<1>3. PointsFullOnBossTurn
  BY <1>1 DEF PointsFullOnBossTurn, FightInv, FightOf, Stopped
<1>4. ReactionFitsTurn
  BY <1>0, <1>1 DEF ReactionFitsTurn, Pending, Eligible
<1> QED
  BY <1>2, <1>3, <1>4 DEF FightFits

\* In every fight, whatever the order of windows, reactions and passes, what is
\* offered, what is spent and what is pending are those of this turn.
THEOREM FightStaysFit == Spec => []FightFits
<1>1. Init => FightInv /\ DeathInv /\ LostAtHandOver
  BY InitFight, InitDeath DEF Init, LostAtHandOver, LastActionFits, None
<1>2. FightInv /\ DeathInv /\ LostAtHandOver /\ [Next]_vars => (FightInv /\ DeathInv /\ LostAtHandOver)'
  BY NextFight, NextDeath, NextLost
<1>3. FightInv /\ DeathInv /\ LostAtHandOver => FightFits
  BY FightFitsFollows DEF DeathInv
<1> QED
  BY <1>1, <1>2, <1>3, PTL DEF Spec

-----------------------------------------------------------------------------
(* The boss's tail at the end of the hero's turn                            *)

\* The hero's turn leads to the boss's only through an open tail.
TailOpens == timing'.window # NoWindow /\ Head(timing'.window.queue) = "legendary"

\* The end of the hero's turn opens the boss's window with the tail in front.
LEMMA HandOffOpensTail ==
    ASSUME FightInv, HeroTurn, initiative' = initiative, reaction' = reaction, kit' \in Kits,
           bossHp' \in 0..BossHp, bossHp' > 0, NEW last \in Lasts, HandOff(bossHp', last)
    PROVE  TailOpens
<1>1. timing'.window = Window("hero", "boss", TailQueue(timing'), "pending")
  BY HeroTurnFacts, HandOffKeepsFight
<1>2. timing'.window.queue = TailQueue(timing') /\ timing'.window.trigger = "hero"
  BY <1>1 DEF Window
<1>3. Head(TailQueue(timing')) = "legendary"
  BY DEF TailQueue
<1> QED
  BY <1>2, <1>3 DEF TailOpens, NoWindow, None

\* A command that does not pass the turn leaves it where it is, or nowhere.
LEMMA TurnStays ==
    ASSUME NEW last, NEW t, NEW outcome, FightInv, turn.active = "hero", Goes(last) \/ Over(t, outcome, last)
    PROVE  turn'.active # "boss"
  BY DEF FightInv, Parts, Turns, Goes, Over, None

\* Whichever command ends the hero's turn, the boss is offered its tail first.
LEMMA NextTail ==
    ASSUME FightInv, [Next]_vars, turn.status = "active", turn.active = "hero", turn'.active = "boss"
    PROVE  TailOpens
<1>1. ASSUME NEW last, Goes(last) PROVE FALSE
  BY <1>1, TurnStays
<1>2. ASSUME NEW t, NEW outcome, NEW last, Over(t, outcome, last) PROVE FALSE
  BY <1>2, TurnStays
<1>3. CASE UNCHANGED vars
  BY <1>3 DEF vars
<1>4. ASSUME NEW n \in 0..BossHp, NEW nonlethal \in BOOLEAN, Attack(n, nonlethal)
      PROVE  TailOpens
  BY <1>1, <1>2, <1>4 DEF Attack
<1>5. ASSUME NEW n, SecondWind(n)
      PROVE  TailOpens
  BY <1>1, <1>5 DEF SecondWind
<1>6. ASSUME NEW time \in {"action", "bonus"}, NEW n \in 1..MaxHp, CastHealing(time, n)
      PROVE  TailOpens
  <2>1. /\ HeroTurn /\ kit.slots > 0 /\ bossHp' = bossHp /\ initiative' = initiative /\ reaction' = reaction
        /\ kit' = [kit EXCEPT !.spent[time] = TRUE, !.slots = @ - 1]
        /\ HandOff(bossHp, "other")
    BY <1>1, <1>6 DEF CastHealing, HeroActs, AfterCast
  <2>2. kit \in Kits
    BY <2>1, HeroTurnFacts
  <2>3. kit.slots >= 1 /\ 1 \in 0..1
    BY <2>1, <2>2, EncounterAssumption DEF Kits
  <2>4. kit' = [kit EXCEPT !.spent[time] = TRUE, !.slots = @ - 1]
    BY <2>1
  <2>5. kit' \in Kits
    BY <2>2, <2>3, <2>4, KitUsed
  <2> QED
    BY <2>1, <2>5, HeroTurnFacts, HandOffOpensTail DEF Lasts
<1>7. ASSUME NEW time \in {"action", "bonus"},
             \E n \in 0..BossHp, cost \in 0..1, concentrates, area \in BOOLEAN :
                CastDamage(time, n, cost, concentrates, area)
      PROVE  TailOpens
  <2>1. PICK n \in 0..BossHp, cost \in 0..1 :
            /\ HeroTurn /\ kit.slots >= cost /\ n < bossHp /\ bossHp' = bossHp - n
            /\ initiative' = initiative /\ reaction' = reaction
            /\ kit' = [kit EXCEPT !.spent[time] = TRUE, !.slots = @ - cost]
            /\ HandOff(bossHp', "other")
    BY <1>1, <1>2, <1>7 DEF CastDamage, HeroActs, AfterCast
  <2>2. kit' \in Kits
    BY <2>1, HeroTurnFacts, KitUsed
  <2>3. bossHp' \in 0..BossHp /\ bossHp' > 0
    BY <2>1, HeroTurnFacts
  <2> QED
    BY <2>1, <2>2, <2>3, HandOffOpensTail DEF Lasts
<1>8. CASE EndTurn
  BY <1>8, HeroTurnFacts, HandOffOpensTail DEF EndTurn, Lasts
<1>9. CASE Surrender
  BY <1>2, <1>9 DEF Surrender
<1>10. CASE DeathSave
  <2>1. /\ HeroTurn /\ initiative' = initiative /\ bossHp' = bossHp /\ reaction' = reaction
        /\ HandOff(bossHp', turn.last) /\ kit' = [kit EXCEPT !.spent.action = TRUE]
    BY <1>2, <1>10 DEF DeathSave, HeroTurn
  <2>2. kit' \in Kits
    BY <2>1, HeroTurnFacts DEF Kits
  <2> QED
    BY <2>1, <2>2, HeroTurnFacts, HandOffOpensTail
<1>11. CASE Move
  BY <1>1, <1>11 DEF Move, Offered
<1>12. CASE BossAttack \/ BossProgram
  BY <1>12 DEF BossAttack, BossProgram, BossTurn
<1>13. CASE BossPass
  BY <1>1, <1>13 DEF BossPass
<1>14. CASE BossTail \/ BossLair
  BY <1>1, <1>2, <1>14 DEF BossTail, BossLair, FinishWindow
<1>15. CASE Respond
  <2>1. reaction # "turn"
    BY DEF FightInv, FightOf, Pending, None
  <2> QED
    BY <1>1, <1>2, <1>15, <2>1 DEF Respond, Resume, FinishWindow
<1>16. CASE Quarantine
  <2>1. turn'.active = None
    BY <1>16 DEF Quarantine, FightInv, Parts, Turns
  <2> QED
    BY <2>1 DEF None
<1> QED
  BY <1>3, <1>4, <1>5, <1>6, <1>7, <1>8, <1>9, <1>10, <1>11, <1>12, <1>13, <1>14, <1>15, <1>16 DEF Next

\* Every end of the hero's turn, by whichever command, offers the boss its tail
\* before the boss's own turn (handoffPlayerInitiative()).
THEOREM TailIsOffered == Spec => TailAtTurnEnd
<1>1. Init => FightInv
  BY InitFight
<1>2. FightInv /\ [Next]_vars => FightInv'
  BY NextFight
<1>3. FightInv /\ [Next]_vars =>
        [turn.status = "active" /\ turn.active = "hero" /\ turn'.active = "boss" =>
           timing'.window # NoWindow /\ Head(timing'.window.queue) = "legendary"]_vars
  BY NextTail DEF TailOpens
<1> QED
  BY <1>1, <1>2, <1>3, PTL DEF Spec, TailAtTurnEnd

=============================================================================
