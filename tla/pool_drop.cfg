SPECIFICATION HungEngineSpec
CONSTANTS
    Tasks = {t1, t2, t3}
    Submitters = {s1}
    Workers = {w1}
    Sweeper = sweeper
    Main = main
    NoTask = none
    Depth = 2
    Full = "drop"
    Deadlines = {1, 3}
    Reserve = 1
    MinBudget = 1
CHECK_DEADLOCK FALSE
INVARIANTS
    CountersAgree
    FillIsHonest
PROPERTIES
    ArrivalOrder
    LeavesQueue
    KeepsPromise
