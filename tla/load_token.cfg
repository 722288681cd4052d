SPECIFICATION AskSpec
CONSTANTS
    AgentNodes = {"n1", "n2", "n3"}
    Protected = {"n2"}
    PythonNodes = {"n3"}
    TokenSet = TRUE
    PushPause = 1
    ShortDeadline = 1
    LoadDeadline = 3
    PostTimeout = 2
    MaxRequests = 2
    MaxLosses = 1
INVARIANT TokenIsSent
