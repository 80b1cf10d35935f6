SPECIFICATION Spec
CONSTANTS
    Width = 4
    Height = 3
    Walls <- MCWalls
    Mud <- MCMud
    Foes = {"brute", "archer"}
    FoeAt <- MCFoeAt
    FoeSize <- MCFoeSize
    Melee = {"brute"}
    Speed = 2
    Radius = 1
    Rounds = 1
    Aims <- MCAims
    MaxHp = 1
    MaxRound = 2
    Watch = {"g1", "g2"}
    Orders <- MCOrders
    MaxFights = 1
    MaxGroups = 1
    Creatures = {"quasit", "imp", "mummy", "dragon", "knight"}
    Program <- MCProgram
    Encounters <- MCEncounters
    Improvised = {"stunned"}
    RoundsPerMinute = 3
    BoutRounds = 3
    MaxMinutes = 1
    PlaceKeys = {"cave", "road", "inn"}
    Residents = {"ada"}
    ItemKinds = {"rope", "lamp"}
    ItemKeys = {"k1", "k2"}
    Copies = {"default", "spare"}
    Facts = {"f1", "f2"}
    Objects = {"chest", "coin", "crown"}
    Npcs = {"ada", "bo"}
    Boxes = {"chest"}
    Critical = {"crown"}
    FactLimit = 1
    ObjectLimit = 3
    NpcLimit = 1
    MaxPlay = 1
INVARIANTS TypeOK FightsHold PlacesHold
PROPERTIES StepsEarned
\* Fights end, and a bounded component stops.
CHECK_DEADLOCK FALSE
