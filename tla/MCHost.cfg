\* Two holds fill the free day and the day of the deployment; one call overshoots.
CONSTANTS
    free = free
    pass = pass
    f1 = f1
    f2 = f2
    p1 = p1
    Accounts = {free, pass}
    Turns = {f1, f2, p1}
    Owner <- MCOwner
    Pass = {pass}
    FreeDaily = 4
    FreeMonthly = 6
    PassMonthly = 6
    GlobalDaily = 5
    GlobalMonthly = 8
    Hold = 2
    Estimate = 1
    Costs = {3}
    Ttl = 1
    DayLength = 1
    MonthLength = 2
    MaxTime = 2
    MaxCalls = 2
    GuardAccounts = {"a1", "a2"}
    Origins = {"home"}
    TurnWindow = 2
    MaxTurnsPerWindow = 1
    OriginWindow = 1
    MaxAccountsPerOrigin = 1
    GuardTime = 3
    Runs = {"plan", "narrator"}
    HasFallback = TRUE
    MaxRequests = 2
    Checks = {"h1", "h2"}
    CheckTtl = 2
    Threshold = 2
    HealthTime = 5
    Posts = {"p1", "p2", "p3"}
    Commands = {"c1", "c2"}
    Requests = {"r1", "r2"}
    Kinds = {"create", "spells", "details", "item", "note", "turn", "delete", "reopen", "look"}
    Fields = {"bonds", "flaws"}
    MaxLog = 1
    PageSize = 1
    MaxRevision = 2
    MaxEvents = 4
    Modes = {"player_turn", "opening"}
    Objects = {"none", "object-action", "held-transfer"}
    Clauses = {"movement", "search"}
    MaxRounds = 3
    MaxEffects = 3
    MaxPlanCalls = 2
SYMMETRY MCSymmetry
SPECIFICATION HostSpec
INVARIANTS TypesOK HoldsKept AnswersTrue
PROPERTIES BookedExactly TableStepsTrue
\* The clocks stop, and requests are sent once.
CHECK_DEADLOCK FALSE
