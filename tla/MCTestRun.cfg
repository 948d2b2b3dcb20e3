CONSTANTS
    Orch = {o1, o2}
    First = {"none", "loadBalancer", "nodePort"}
    MaxDeploys = 2
    Templates <- MCTemplates
SPECIFICATION MCSpec
INVARIANTS
    Settled
    PassedMeansStopped
    JudgedOnce
    BearersAreJudged
    QuietTestsPass
PROPERTIES
    EnsureEnds
    TestEnds
CHECK_DEADLOCK FALSE
