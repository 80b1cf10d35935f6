SPECIFICATION Spec
CONSTANTS
    Kits <- MCKits
    Ids <- MCIds
    Containers = {"bag", "pouch"}
    Potions = {"potion", "half"}
    Amulets = {"ward"}
    TwoHanded = {"pike"}
    SlotsOf <- MCSlotsOf
    SplitOf <- MCSplitOf
    Reward = "gem"
    Listed = {"dagger"}
    Objects = {"rope", "chest", "lever"}
    Portable = {"rope"}
    Ropes = {"rope"}
    Arms = {"rope"}
    Breakable = {"rope"}
    Flammable = {"rope"}
    Openable = {"chest"}
    Levers = {"lever"}
    CarryLimit = 6
    BagLimit = 2
    MaxUnits = 2
    Mode = "spellbook"
    Cantrips = {"spark"}
    Wards = {"ward"}
    Cures = {"cure"}
    Blasts = {"wall"}
    Holding = {"wall"}
    Rank <- MCRank
    SlotTable <- MCSlotTable
    KnownTable <- MCKnownTable
    CantripTable <- MCOneEach
    PreparedTable <- MCOneEach
    PactSlots = FALSE
    MaxHp = 2
    Scrolls = 1
    Abilities = {"str", "dex"}
    Scores <- MCScores
    Array <- MCArray
    Cap = 3
    Bonus <- MCBonus
    Floating <- MCFloating
    Classes <- MCClasses
    Backgrounds <- MCBackgrounds
    MaxUpdates = 1
    Companions = {"c1", "c2"}
    MaxMinutes = 2
    DecayIn <- MCDecayIn
INVARIANTS TypeOK GoodsWhole HeroSound
PROPERTIES StepsKeep
\* A hero may die, and a bounded component ends.
CHECK_DEADLOCK FALSE
