SPECIFICATION SessionSpec
CONSTANTS
    Name = {""}
    Unnamed = ""
    Sql = {"BEGIN", "COMMIT", "ROLLBACK", "INSERT", "SELECT", "COPY", "EMPTY"}
    NoSql = NoSql
    Text = {"app"}
    None = None
    Id = 1
    Classify <- MCClassify
    Startup <- MCStartup
    Config <- SimpleScenarios
    GateLimit = 2
    MaxRows = 3
    MayFail = TRUE
    MaySuspend = FALSE
    Script <- EmptyText
    CopyIn = {"COPY"}
    ClientFrames <- SimpleClient
    MaxFrames = 4
    Pipelining = TRUE
    CanBreak = TRUE
INVARIANTS
    ExactRows
PROPERTIES
    EventsTruthful
