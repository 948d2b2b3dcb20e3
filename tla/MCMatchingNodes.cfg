CONSTANTS
    Infos <- MCInfos
    Pools <- MCPools
    SkipTaints = {"unreachable"}
    MaxChanges = 1
SPECIFICATION MatchingSpec
PROPERTIES
    UnavailableIsSkipped
CHECK_DEADLOCK FALSE
