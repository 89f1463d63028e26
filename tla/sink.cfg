SPECIFICATION FairSpec
CONSTANTS
    Workers = {w1}
    Receivers = {r1}
    Subjects = {a, b}
    Sizes = {2}
    MaxItems = 2
    MaxSize = 4
    MaxPending = 3
    MaxEvents = 4
CHECK_DEADLOCK FALSE
INVARIANTS
    TypeOK
    Conserved
    Flushes
PROPERTY
    Drains
