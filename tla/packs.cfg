SPECIFICATION FairSpec
CONSTANTS
    PackSet <- MCPackSet
    Lists <- MCLists
    Contents <- MCContents
    Missing = "missing"
    Default = 20
    Volumes = {22}
    Unsafe = {99}
    PolicyName <- MCPolicyName
    Base = 3
    Width = 1
CHECK_DEADLOCK FALSE
INVARIANTS
    TypeOK
    ServedAsPublished
    FetchCoversExpand
PROPERTY
    WellFormedIsServed
