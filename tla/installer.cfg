SPECIFICATION UpdateFairSpec
CONSTANTS
    Hosts = {"h1", "h2"}
    NoHost = "none"
    KeyHosts = {"h2"}
    StaleHosts = {"h2"}
    Requests <- Questions
    Jobs = 2
    MaxFaults = 1
INVARIANTS
    FailureHasCause
    DoneMeansInstalled
    NothingLeft
PROPERTIES
    CancelledInTime
    DialogIsFreed
    JobsKeepDialog
CHECK_DEADLOCK FALSE
