SPECIFICATION FairSpec
CONSTANTS
    Sound = {p1, p2}
    Broken = {b1}
    Hollow = {h1}
    Silent = {p2}
    Junk = junk
    Image = image
    Partial = partial
    None = none
    Faulty = {"write", "rename", "restore", "read", "remove"}
    MaxUpdates = 1
    MaxCrashes = 1
CHECK_DEADLOCK FALSE
INVARIANTS
    TypeOK
    HeartbeatHonest
    ServedCompiles
    LastGoodKept
PROPERTY
    Converges
