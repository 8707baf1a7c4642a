SPECIFICATION Spec
CONSTANTS
    MaxEvents = 2
    MaxPending = 1
CHECK_DEADLOCK FALSE
INVARIANTS
    DisconnectStands
