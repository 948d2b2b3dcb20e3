CONSTANTS
    Orch = {o1, o2}
    First = {"none"}
    MaxDeploys = 0
SPECIFICATION Spec
PROPERTIES
    NoFailureForService
CHECK_DEADLOCK FALSE
