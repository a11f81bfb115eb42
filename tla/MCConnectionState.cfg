SPECIFICATION BoundedSpec
CONSTANTS
    Name = {""}
    Unnamed = ""
    Sql = {"COMMIT", "SELECT"}
    NoSql = NoSql
    Text = {"app"}
    None = None
    Id = 1
    Classify <- MCClassify
    Startup <- MCStartup
    MaxFrames = 5
INVARIANTS
    TypeOK
    Structure
    QuiescentMapsConfirmed
    OneEventPerName
PROPERTIES
    UnreliableUntilDrained
