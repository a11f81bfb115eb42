SPECIFICATION Spec
CONSTANTS
    Peer = {client, server}
    Byte = {0, 1, 2, 3, 4}
    LengthBytes = 1
    MAX_FRAME = 3
    Messages <- MCMessages
    FrameSize = 3
    MaxFrames = 3
    SendBuffer = 2
    SessionLimit = 4
    Capacity = 2
    Window = 5
    Answers = 4
    Requests = 6
    Task = {t1, t2}
    MaxFaults = 2
    MaxConnections = 2
    FrontendTls = TRUE
    UpstreamTls = TRUE
CHECK_DEADLOCK FALSE
INVARIANTS
    FramesExact
    EndsRightly
    ActedRecorded
    ReplayComplete
    LifeRecorded
    StartupPassedOnce
PROPERTIES
    EveryFrameArrives
    ShutdownDelivers
    PlainArrives
    AnsweredOrJammed
    ShutdownCompletes
