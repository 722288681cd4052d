SPECIFICATION Spec
CONSTANTS
    t1 = t1
    t2 = t2
    t3 = t3
    Here = Here
    Nobody = Nobody
    Targets = {t1, t2, t3}
    ThisHost = {t2}
    OldAgents = {t1}
    MuteAgents = {t1}
    HostOf <- HostWithoutPort
    Configured <- ThreeNodes
    MaxEdits = 1
    MaxInstalls = 1
INVARIANTS
    LeftPageIsIdle
    RowsMatchHost
PROPERTIES
    SignalMatchesUntilInstall
    PageKeepsDialog
