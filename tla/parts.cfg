SPECIFICATION MCSpec
CONSTANTS
    Cards = 3
    MaxLoad = 1
    MaxEnds = 2
    Pids = {1, 2}
    Cores = 1
    MaxFall = 2
    SamplePause = 1
    IdlePause = 1
    LongestScan = 1
    MaxTime <- MCMaxTime
    MaxStarts <- MCMaxStarts
    MaxEvents = 2
    EnergyRange = 3
    HistoryMax = 2
    MaxJiffies = 2
    MaxDips = 1
    Spellings <- MCSpellings
    Defaults <- MCDefaults
    SavedLists <- MCSavedLists
    EnvNodes <- MCEnvNodes
    Applets = {"left", "right"}
    DefaultPort = 8787
    WebPort = 80
    NoPort = 0
    MaxEdits = 3
    AgentNodes = {"n1", "n2", "n3"}
    Protected = {"n2"}
    PythonNodes = {"n3"}
    TokenSet = TRUE
    PushPause = 1
    ShortDeadline = 1
    LoadDeadline = 2
    PostTimeout = 1
    MaxRequests = 2
    MaxLosses = 1
INVARIANTS
    PartsTypeOK
    OrderUntilCut
    SharesFit
    ListIsRecent
    LoadIsShare
    NoAgentTwice
    AnswerIsTrue
    EndsInTime
    ShownIsOfPage
PROPERTIES
    EnergyIsExact
    NodesAreKept
    SavedSurvives
CHECK_DEADLOCK FALSE
