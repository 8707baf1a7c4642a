SPECIFICATION MCSpec
CONSTANTS
    Scopes = {a1, a2}
    ExitNodes = {e1}
    Null = Null
    NoExit = NoExit
    Invalid = Invalid
    MaxWrites = 2
    MaxDisturbances = 2
    Statuses <- MCStatuses
SYMMETRY Symmetry
INVARIANTS
    TypeOK
    SavedIsNoWeaker
    TransitionBlocks
PROPERTIES
    TransitionHeld
    OpenedOnRequest
    SelectionKept
    ImplementsFailClosed
