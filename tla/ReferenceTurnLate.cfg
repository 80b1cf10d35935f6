\* The lease may run out under a live turn; three tool calls under two keys.
CONSTANTS
    Turns = {t1, t2}
    Commands = {c1, c2}
    CommandOf <- EveryCommandComes
    Texts = {q1}
    Keys = {k1, k2}
    ReadOnly = ReadOnly
    NoReceipt = NoReceipt
    Versions = {0, 1}
    Callers = {t1}
    MaxCalls = 3
    LogCap = 1
    LeaseCovers = FALSE
SPECIFICATION Spec
INVARIANTS NoUnwarnedNarration
\* When every call has come and gone, nothing is left to do.
CHECK_DEADLOCK FALSE
