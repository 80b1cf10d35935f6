\* The tutorial's errand and one more, advanced by a turn of play; the clock stays near 0.
CONSTANTS
    Errands = {"first-light", "errand"}
    Deadlines = {0, 2}
    ShortRest = 1
    LongRest = 2
    Day = 3
    Journey = 2
    FastJourney = 1
    Project = 2
    RumorDelay = 1
    EffectTime = 2
    MaxHp = 2
    HitDice = 1
    Supplies = 1
    MaxTime = 4
    MaxStarts = 1
SPECIFICATION Spec
INVARIANTS RewardsExactlyOnce
\* The clock stops at its bound.
CHECK_DEADLOCK FALSE
