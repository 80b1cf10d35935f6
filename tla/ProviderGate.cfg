\* Two slots, one per account (the shipped per-account ceiling).
CONSTANTS
    Calls = {"x", "y", "c1", "c2", "d"}
    Accounts = {"A", "C", "D"}
    NoDeadline = NoDeadline
    AccountOf <- ThreeAccounts
    DeadlineOf <- ThreeDeadlines
    MaxConcurrent = 2
    MaxConcurrentPerAccount = 1
    MaxQueueWait = 2
    WorkBudget = 1
    Horizon = 3
SPECIFICATION LiveSpec
INVARIANTS TypeOK SlotsKept
PROPERTIES NoOvertaking EveryWaiterSettles
\* Every call may be answered and the clock at its horizon.
CHECK_DEADLOCK FALSE
