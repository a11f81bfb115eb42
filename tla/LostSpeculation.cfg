SPECIFICATION SessionSpec
CONSTANTS
    Name = {"", "a"}
    Unnamed = ""
    Sql = {"INSERT"}
    NoSql = NoSql
    Text = {"app"}
    None = None
    Id = 1
    Classify <- MCClassify
    Startup <- MCStartup
    Config <- AmbiguousScenarios
    GateLimit = 2
    MaxRows = 1
    MayFail = TRUE
    MaySuspend = FALSE
    Script <- NoScripts
    CopyIn = {}
    ClientFrames <- NamedClient
    MaxFrames = 5
    Pipelining = TRUE
    CanBreak = FALSE
PROPERTIES
    BindsResolved
