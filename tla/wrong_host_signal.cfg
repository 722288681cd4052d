SPECIFICATION Spec
CONSTANTS
    t1 = t1
    t2 = t2
    t3 = t3
    Here = Here
    Nobody = Nobody
    Targets = {t1, t2, t3}
    ThisHost = {}
    OldAgents = {}
    MuteAgents = {}
    HostOf <- HostWithoutPort
    Configured <- ThreeNodes
    MaxEdits = 1
    MaxInstalls = 1
PROPERTIES
    SignalGoesWhereAsked
