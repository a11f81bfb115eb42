SPECIFICATION SessionSpec
CONSTANTS
    Name = {""}
    Unnamed = ""
    Sql = {"BEGIN", "COMMIT", "SELECT"}
    NoSql = NoSql
    Text = {"app"}
    None = None
    Id = 1
    Classify <- MCClassify
    Startup <- MCStartup
    Config <- RollbackScenarios
    GateLimit = 2
    MaxRows = 1
    MayFail = TRUE
    MaySuspend = TRUE
    Script <- NoScripts
    CopyIn = {}
    ClientFrames <- PortalClient
    MaxFrames = 6
    Pipelining = FALSE
    CanBreak = FALSE
PROPERTIES
    IndicesExact
