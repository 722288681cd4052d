SPECIFICATION Spec
CONSTANTS
    n1 = n1
    n2 = n2
    NoOne = NoOne
    a = a
    b = b
    Instances = {a, b}
    Shared = {a, b}
    Nodes = {n1, n2}
    TargetLists <- Swapped
    Unstamped = {}
    Flaky = {}
    SlowFetch = FALSE
    MaxVer = 2
    MaxExits = 0
INVARIANTS
    RightSlot
