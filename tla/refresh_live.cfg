SPECIFICATION FairSpec
CONSTANTS
    n1 = n1
    n2 = n2
    NoOne = NoOne
    a = a
    b = b
    c = c
    Instances = {a, b, c}
    Shared = {a, b}
    Nodes = {n1}
    TargetLists <- OneList
    Unstamped = {}
    Flaky = {}
    SlowFetch = TRUE
    MaxVer = 2
    MaxExits = 1
PROPERTIES
    RefreshGoesOn
    Converges
