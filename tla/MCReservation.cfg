CONSTANTS
    Infos <- MCInfos
    Pools <- MCPools
    SkipTaints = {"unreachable"}
    MaxChanges = 2
    Process = {p1, p2, p3}
    Jobs <- MCJobs
    Nodes = {"n1", "n2"}
    MaxCrashes = 1
SPECIFICATION MCSpec
INVARIANTS
    ServedAsAsked MatchIsComplete PodFits
    CreatedIsKept DemolishedMeansFree
CHECK_DEADLOCK FALSE
SYMMETRY Symmetric
