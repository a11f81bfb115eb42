SPECIFICATION CliSpec
CONSTANTS
    MaxConnections = 2
    FrontendTls = FALSE
    UpstreamTls = FALSE
    Codes = {"0"}
    MaxStatements = 1
    MaxStarts = 1
CHECK_DEADLOCK FALSE
INVARIANTS
    ExitMatches
    GroundTruthFinal
