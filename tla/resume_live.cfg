SPECIFICATION FairSpec
CONSTANTS
    Calls = {c1, c2}
    Tokens = {k1, k2}
    Workers = {w1, w2}
    Receiver = receiver
    Janitor = janitor
    None = none
    Max = 1
    TTL = 0
CHECK_DEADLOCK FALSE
INVARIANT
    RegistryBounded
PROPERTIES
    OpenCloses
