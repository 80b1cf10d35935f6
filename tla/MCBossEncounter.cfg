\* Two hits fell the hero, two the boss; three rounds hold two boss turns with full points.
CONSTANTS
    MaxHp = 2
    BossHp = 2
    Slots = 1
    MaxRound = 3
SPECIFICATION Spec
INVARIANTS TypeOK LifeConsistent FightFits DeadMeansOver
PROPERTIES TailAtTurnEnd
\* A fight ends.
CHECK_DEADLOCK FALSE
