SPECIFICATION ErrorsSpec
CONSTANTS
    HelperPorts = {h1}
    Credentials = {c1}
    Routes = {tailnet}
    Null = Null
    Clear = Clear
    Blocked = Blocked
    MaxEvents = 0
INVARIANT
    BlockedIsBlocked
CHECK_DEADLOCK FALSE
