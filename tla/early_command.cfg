SPECIFICATION EarlyCommandSpec
CONSTANTS
    Scopes = {a1, a2}
    ExitNodes = {e1}
    Null = Null
    NoExit = NoExit
    Invalid = Invalid
    MaxWrites = 1
    Statuses <- MCStatuses
PROPERTY
    SnapshotRetained
CHECK_DEADLOCK FALSE
