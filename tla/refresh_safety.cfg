SPECIFICATION Spec
CONSTANTS
    n1 = n1
    n2 = n2
    NoOne = NoOne
    a = a
    b = b
    c = c
    Instances = {a, b}
    Shared = {a, b}
    Nodes = {n1, n2}
    TargetLists <- Grown
    Unstamped = {n2}
    Flaky = {n1}
    SlowFetch = TRUE
    MaxVer = 2
    MaxExits = 1
INVARIANTS
    OneFetcherUntilStale
    RightSlot
PROPERTIES
    NewerUntilStale
    LeaseIsKept
SYMMETRY InstanceSymmetry
