SPECIFICATION FairSpec
CONSTANTS
    c1 = c1
    c2 = c2
    Clients = {c1, c2}
    Stalled = {c2}
    Room = 1
    Period = 1
    Grace = 3
PROPERTY EveryClientServed
