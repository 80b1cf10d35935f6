\* The smallest instance: one command with one tool call.
CONSTANTS
    Turns = {t1}
    Commands = {c1}
    CommandOf <- EveryCommandComes
    Texts = {q1}
    Keys = {k1}
    ReadOnly = ReadOnly
    NoReceipt = NoReceipt
    Versions = {0, 1}
    Callers = {t1}
    MaxCalls = 1
    LogCap = 3
    LeaseCovers = TRUE
SPECIFICATION Spec
INVARIANTS NotCommittedIsSafe
\* When every call has come and gone, nothing is left to do.
CHECK_DEADLOCK FALSE
