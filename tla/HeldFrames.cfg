SPECIFICATION SessionSpec
CONSTANTS
    Name = {""}
    Unnamed = ""
    Sql = {"BEGIN", "COMMIT", "INSERT"}
    NoSql = NoSql
    Text = {"app"}
    None = None
    Id = 1
    Classify <- MCClassify
    Startup <- MCStartup
    Config <- AmbiguousScenarios
    GateLimit = 2
    MaxRows = 1
    MayFail = TRUE
    MaySuspend = FALSE
    Script <- NoScripts
    CopyIn = {}
    ClientFrames <- FlushingClient
    MaxFrames = 4
    Pipelining = FALSE
    CanBreak = TRUE
INVARIANTS
    NothingLostAtClose
    FlushAnswered
