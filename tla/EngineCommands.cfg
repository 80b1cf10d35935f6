\* Two player turns, one of which may be a quick action instead, two ticks of one trigger, one restart.
CONSTANTS
    Texts = {p1, p2}
    Ticks = {n1, n2}
    Actions = {p2}
    Triggers = {g1}
    TriggerOf <- OneTrigger
    LogCap = 3
    MaxVersion = 3
    MaxRestarts = 1
SPECIFICATION LiveSpec
INVARIANTS TypeOK EventsAreHistory ReservationsKept
PROPERTIES ResultsStand PlayerLinesKept
\* A deleted campaign answers nothing more.
CHECK_DEADLOCK FALSE
