CONSTANTS
    Infos = {}
    Pools = {}
    SkipTaints = {}
    MaxChanges = 0
    Process = {p1, p2}
    Jobs <- ByHand
    Nodes = {"n1", "n2"}
    MaxCrashes = 0
SPECIFICATION MCSpec
INVARIANTS
    ReservedIsKept
CHECK_DEADLOCK FALSE
