SPECIFICATION ReplaySpec
CONSTANTS
    Name = {""}
    Unnamed = ""
    Sql = {"BEGIN", "COMMIT", "SELECT"}
    NoSql = NoSql
    Text = {"app"}
    None = None
    Id = 1
    Classify <- MCClassify
    Startup <- MCStartup
    Config <- RollbackScenarios
    GateLimit = 2
    MaxRows = 2
    MayFail = TRUE
    MaySuspend = FALSE
    Script <- NoScripts
    CopyIn = {}
    ClientFrames <- PortalClient
    MaxFrames = 2
    Pipelining = TRUE
    CanBreak = FALSE
INVARIANTS
    OrdinalsIgnored
