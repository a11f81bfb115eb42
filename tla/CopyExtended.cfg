SPECIFICATION SessionSpec
CONSTANTS
    Name = {""}
    Unnamed = ""
    Sql = {"BEGIN", "COPY"}
    NoSql = NoSql
    Text = {"app"}
    None = None
    Id = 1
    Classify <- MCClassify
    Startup <- MCStartup
    Config <- AmbiguousScenarios
    GateLimit = 2
    MaxRows = 1
    MayFail = FALSE
    MaySuspend = FALSE
    Script <- NoScripts
    CopyIn = {"COPY"}
    ClientFrames <- CopyClient
    MaxFrames = 7
    Pipelining = FALSE
    CanBreak = FALSE
PROPERTIES
    EventsAttributed
