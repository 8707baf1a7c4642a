SPECIFICATION MCSpec
CONSTANTS
    Ports = {p1, p2, p3}
    Null = Null
    RECONNECT_BASE_MS = 2
    RECONNECT_MAX_MS = 7
    MaxTrouble = 5
INVARIANTS
    TypeOK
    OneHelper
    NeverStranded
    HealthyHasPort
PROPERTY
    Settles
CHECK_DEADLOCK FALSE
