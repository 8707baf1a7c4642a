SPECIFICATION PoliciesSpec
CONSTANTS
    HelperPorts = {h1}
    Credentials = {c1}
    Routes = {tailnet}
    Null = Null
    Clear = Clear
    Blocked = Blocked
    MaxEvents = 0
INVARIANT
    InactiveIsClear
CHECK_DEADLOCK FALSE
