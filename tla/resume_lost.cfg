SPECIFICATION Spec
CONSTANTS
    Calls = {c1}
    Tokens = {k1}
    Workers = {w1}
    Receiver = receiver
    Janitor = janitor
    None = none
    Max = 2
    TTL = 0
CHECK_DEADLOCK FALSE
INVARIANT
    LostIsError
