SPECIFICATION ToggleSpec
CONSTANTS
    Scopes = {a1, a2}
    ExitNodes = {e1}
    Null = Null
    NoExit = NoExit
    Invalid = Invalid
    MaxWrites = 1
    Statuses <- MCStatuses
PROPERTY
    NotOpenedWhenWanted
CHECK_DEADLOCK FALSE
