SPECIFICATION MCSpec
CONSTANTS
    HelperPorts = {h1, h2}
    Credentials = {c1}
    Routes = {tailnet}
    Null = Null
    Clear = Clear
    Blocked = Blocked
    MaxEvents = 4
INVARIANTS
    TypeOK
    NotOpenWhenProtected
    ActiveIsEffective
    
PROPERTY
    ComesToRest
CHECK_DEADLOCK FALSE
