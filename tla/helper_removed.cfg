SPECIFICATION UpdateSpec
CONSTANTS
    Hosts = {"h1"}
    NoHost = "none"
    KeyHosts = {}
    StaleHosts = {}
    Requests <- OnePassword
    Jobs = 1
    MaxFaults = 1
INVARIANT HelperRemoved
CHECK_DEADLOCK FALSE
