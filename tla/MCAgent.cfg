CONSTANTS
    Rpc = {r1}
    MaxStarts = 2
    MaxSignals = 0
SPECIFICATION FairSpec
INVARIANTS
    NoStray
    ClosedMeansStopped
    OneRun
PROPERTIES
    CallsEnd
    
CHECK_DEADLOCK FALSE
