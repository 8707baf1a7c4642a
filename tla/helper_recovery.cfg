SPECIFICATION Spec
CONSTANTS
    Retries = 2
    MaxStarts = 2
    MaxFaults = 2
    MaxCalls = 1
INVARIANTS
    TypeOK
    StoredIsArmed
    ReconnectingIsHonest
PROPERTIES
    ReportedFailureStays
    RetriesEnd
    RepairIsOffered
