SPECIFICATION SessionSpec
CONSTANTS
    Name = {""}
    Unnamed = ""
    Sql = {"BEGIN", "INSERT", "COMMIT", "BEGIN; INSERT; COMMIT"}
    NoSql = NoSql
    Text = {"app"}
    None = None
    Id = 1
    Classify <- MCClassify
    Startup <- MCStartup
    Config <- AmbiguousScenarios
    GateLimit = 2
    MaxRows = 1
    MayFail = TRUE
    MaySuspend = FALSE
    Script <- Quickstart
    CopyIn = {}
    ClientFrames <- ScriptClient
    MaxFrames = 2
    Pipelining = FALSE
    CanBreak = FALSE
PROPERTIES
    CompletionExact
