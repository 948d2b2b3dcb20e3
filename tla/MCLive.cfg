CONSTANTS
    o1 = o1  o2 = o2
    p1 = p1  p2 = p2  p3 = p3
    r1 = r1  r2 = r2
    s1 = s1  s2 = s2
    q1 = q1  q2 = q2  q3 = q3
    NoOne = NoOne
    Orch = {o1, o2}
    ClusterResource = {r1, r2}
    Space = {s1}
    Port = {q1}
    Pod = {p1, p2}
    PodsOf <- PairPodsOf
    Wanted <- CrossWanted
    NodeItems <- NoNodeItems
    Fits <- NoFits
    NofPorts <- NoPorts
    NofExtraPorts = 0
    FaultKinds = {"status", "reject"}
    MaxFaults = 1
SPECIFICATION FairSpec
PROPERTIES
    EveryoneEnds
CHECK_DEADLOCK FALSE
