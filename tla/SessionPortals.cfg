SPECIFICATION ReplaySpec
CONSTANTS
    Name = {""}
    Unnamed = ""
    Sql = {"BEGIN", "COMMIT", "SELECT"}
    NoSql = NoSql
    Text = {"app"}
    None = None
    Id = 1
    Classify <- MCClassify
    Startup <- MCStartup
    Config <- RollbackScenarios
    GateLimit = 2
    MaxRows = 2
    MayFail = TRUE
    MaySuspend = TRUE
    Script <- NoScripts
    CopyIn = {}
    ClientFrames <- PortalClient
    MaxFrames = 6
    Pipelining = FALSE
    CanBreak = FALSE
PROPERTIES
    EventsTruthful
    ReplayExact
