SPECIFICATION MCSpec
CONSTANTS
    Bits = 4
    Words = 3
    WordBits = 2
    ServiceIP = 5
    Forbidden4 <- MCForbidden4
    Forbidden6 <- MCForbidden6
    CGNAT <- MCCGNAT
    Mapped <- MCMapped
    TailnetIPv6 <- MCTailnetIPv6
    Policies <- MCPolicies
    Ports = {7, 8}
    Hosts <- MCHosts
    Peers <- MCPeers
    Clients = {"", "de", "fr"}
    Queries = {"", "France", "own"}
    NoDistance = 99
    MaxClicks = 2
    MaxFaults = 1
    MaxReports = 1
    MaxMessages = 2
INVARIANTS
    RequestsTakeSameRoute
    RequestsFailClosed
    RequestsAreAuthorized
    
    PickerListsEveryNode
    
\* A behaviour of the picker may use up its clicks, faults and reports.
CHECK_DEADLOCK FALSE
