SPECIFICATION Spec
CONSTANTS
    Tasks = {t1, t2, t3}
    Submitters = {s1, s2}
    Workers = {w1, w2}
    Sweeper = sweeper
    Main = main
    NoTask = none
    Depth = 1
    Full = "wait"
    Deadlines = {2, 3}
    Reserve = 1
    MinBudget = 1
SYMMETRY Symmetry
CHECK_DEADLOCK FALSE
INVARIANTS
    TypeOK
    TaskOwned
    WakeProtocol
    ClosedLeavesOnlySubmitters
