\* Two command IDs and three calls, so that one ID can begin a second turn after a deletion, beside its
\* first one or after it; one turn calls a tool. Every race of the turns, their retries and polls, a
\* restart, an outside version bump, and turns left over when the campaign is bound again.
CONSTANTS
    Turns = {t1, t2, t3}
    Commands = {c1, c2}
    CommandOf <- EveryCommandComes
    Texts = {q1}
    Keys = {k1}
    ReadOnly = ReadOnly
    NoReceipt = NoReceipt
    Versions = {0, 1}
    Callers = {t1}
    MaxCalls = 1
    LogCap = 3
    LeaseCovers = TRUE
SPECIFICATION LiveSpec
INVARIANTS TypeOK TurnsKeepApart OutcomesKept
PROPERTIES ReceiptsSpec EveryReceiptSettles
\* When every call has come and gone, nothing is left to do.
CHECK_DEADLOCK FALSE
