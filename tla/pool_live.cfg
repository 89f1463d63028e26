SPECIFICATION SubmitSpec
CONSTANTS
    Tasks = {t1, t2}
    Submitters = {s1, s2}
    Workers = {w1}
    Sweeper = sweeper
    Main = main
    NoTask = none
    Depth = 1
    Full = "wait"
    Deadlines = {3}
    Reserve = 1
    MinBudget = 1
CHECK_DEADLOCK FALSE
PROPERTIES
    Answered
    CloseReturns
    SubmitReturns
