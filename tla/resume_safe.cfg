SPECIFICATION Spec
CONSTANTS
    Calls = {c1, c2, c3}
    Tokens = {k1, k2}
    Workers = {w1, w2}
    Receiver = receiver
    Janitor = janitor
    None = none
    Max = 2
    TTL = 0
SYMMETRY Symmetry
CHECK_DEADLOCK FALSE
INVARIANTS
    TypeOK
    TransactionOwned
    ResumesItsOwn
    StoppedRegistryIsEmpty
    NoOffersNoState
PROPERTY
    KeepsPromise
