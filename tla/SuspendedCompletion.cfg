SPECIFICATION SessionSpec
CONSTANTS
    Name = {""}
    Unnamed = ""
    Sql = {"SET", "SELECT"}
    NoSql = NoSql
    Text = {"app"}
    None = None
    Id = 1
    Classify <- MCClassify
    Startup <- MCStartup
    Config <- ImplicitScenarios
    GateLimit = 2
    MaxRows = 1
    MayFail = TRUE
    MaySuspend = TRUE
    Script <- NoScripts
    CopyIn = {}
    ClientFrames <- SuspendingClient
    MaxFrames = 7
    Pipelining = FALSE
    CanBreak = FALSE
PROPERTIES
    CompletionWithheld
