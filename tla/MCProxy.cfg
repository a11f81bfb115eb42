SPECIFICATION BoundedSpec
CONSTANTS
    Name = {""}
    Unnamed = ""
    Sql = {"COMMIT", "ROLLBACK", "SELECT"}
    NoSql = NoSql
    Text = {"app"}
    None = None
    Id = 1
    Classify <- MCClassify
    Startup <- MCStartup
    Config <- MCConfig
    GateLimit = 2
    ClientFrames <- MCClientFrames
    ServerFrames <- MCServerFrames
    MaxFrames = 6
INVARIANTS
    ProxyTypeOK
    FaultsRecorded
    GateHolds
    HeldWithinCycle
PROPERTIES
    RelaysFaithfully
