SPECIFICATION Spec
CONSTANTS
    MaxEvents = 2
    MaxPending = 1
CHECK_DEADLOCK FALSE
INVARIANTS
    TypeOK
    StoredIsNewest
    ConnectStands
    OneCorrection
PROPERTIES
    UpdateRestoresRun
    
