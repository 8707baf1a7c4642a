SPECIFICATION Spec
CONSTANTS
    Profiles = {"a", "b", "c"}
    Saved = {"a", "b"}
    Delays = 1
    MaxUser = 3
    MaxFaults = 1
    MaxOutbox = 1
CHECK_DEADLOCK FALSE
INVARIANTS
    TypeOK
    ShownIsCurrent
    
PROPERTIES
    DeletionIsDone
    ProfileIsFound
