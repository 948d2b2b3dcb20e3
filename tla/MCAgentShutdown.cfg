CONSTANTS
    Rpc = {r1, r2}
    MaxStarts = 1
    MaxSignals = 0
SPECIFICATION Spec
INVARIANTS
    ShutdownStops
CHECK_DEADLOCK FALSE
