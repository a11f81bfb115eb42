SPECIFICATION CliSpec
CONSTANTS
    MaxConnections = 2
    FrontendTls = FALSE
    UpstreamTls = TRUE
    Codes = {"0", "signaled"}
    MaxStatements = 1
    MaxStarts = 2
CHECK_DEADLOCK FALSE
INVARIANTS
    SuccessMeans
PROPERTIES
    TraceKept
    VerifiedUndisturbed
    ProbeCompletes
