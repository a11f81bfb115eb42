SPECIFICATION SessionSpec
CONSTANTS
    Name = {""}
    Unnamed = ""
    Sql = {"SELECT", "SELECT; SELECT"}
    NoSql = NoSql
    Text = {"app"}
    None = None
    Id = 1
    Classify <- MCClassify
    Startup <- MCStartup
    Config <- OneTruncation
    GateLimit = 2
    MaxRows = 3
    MayFail = TRUE
    MaySuspend = FALSE
    Script <- TwoSelects
    CopyIn = {}
    ClientFrames <- ScriptClient
    MaxFrames = 2
    Pipelining = FALSE
    CanBreak = FALSE
INVARIANTS
    ExactRows
