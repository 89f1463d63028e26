SPECIFICATION Spec
CONSTANTS
    Versions = {2}
    Messages <- MCMessages
    Asks <- MCAsks
    MaxAsks = 2
    Policies <- MCPolicies
    Loads <- MCLoads
    Found <- MCFound
    Fills = {0, 60, 100}
    DenyIDs <- MCDenyIDs
    DenyTags = {"never"}
    NoAt = noat
CHECK_DEADLOCK FALSE
INVARIANTS
    TypeOK
    ScoreScale
    AsksAddUp
    FailedWriteIsError
    RowsAsMeant
    ObjectsFaithful
    OneReply
