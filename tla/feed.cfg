SPECIFICATION MCSpec
CONSTANTS
    Ports = 2
    Installed <- MCInstalled
    ScrapePause = 1
    LongestGet = 1
    MaxChanges = 1
    MaxPauses = 1
    Targets = 2
    Steady = {1}
    Stamped = {1}
    HasEngine = {2}
    Interval = 2
    CacheTtl = 1
    OfflineAfter = 7
    PushWait = 1
    ReadTimeout = 3
    HistoryLen = 1
    Horizon = 18
INVARIANTS
    StateIsRecent
    OnlineIsRecent
    EngineIsOnline
PROPERTIES
    EngineIsFound
    AnsweringStaysOnline
    SilentGoesOffline
    AnsweringReturns
CHECK_DEADLOCK FALSE
