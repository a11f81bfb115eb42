SPECIFICATION SessionSpec
CONSTANTS
    Name = {""}
    Unnamed = ""
    Sql = {"EMPTY", "COMMIT"}
    NoSql = NoSql
    Text = {"app"}
    None = None
    Id = 1
    Classify <- MCClassify
    Startup <- MCStartup
    Config <- AmbiguousScenarios
    GateLimit = 2
    MaxRows = 1
    MayFail = FALSE
    MaySuspend = FALSE
    Script <- EmptyText
    CopyIn = {}
    ClientFrames <- EmptyClient
    MaxFrames = 6
    Pipelining = FALSE
    CanBreak = FALSE
PROPERTIES
    CompletionExact
