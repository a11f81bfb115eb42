SPECIFICATION SessionSpec
CONSTANTS
    Name = {"", "a"}
    Unnamed = ""
    Sql = {"BEGIN", "COMMIT", "ROLLBACK", "INSERT"}
    NoSql = NoSql
    Text = {"app"}
    None = None
    Id = 1
    Classify <- MCClassify
    Startup <- MCStartup
    Config <- CommitScenarios
    GateLimit = 2
    MaxRows = 1
    MayFail = TRUE
    MaySuspend = FALSE
    Script <- NoScripts
    CopyIn = {}
    ClientFrames <- SyncClient
    MaxFrames = 5
    Pipelining = FALSE
    CanBreak = FALSE
INVARIANTS
    PictureAgrees
PROPERTIES
    EventsTruthful
    BindsResolved
    EpochPerTransaction
