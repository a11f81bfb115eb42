SPECIFICATION StreamSpec
CONSTANTS
    FrameSize = 3
    MaxFrames = 3
    SendBuffer = 2
    SessionLimit = 4
CHECK_DEADLOCK FALSE
INVARIANTS
    RowsBeforeReset
PROPERTIES
    TlsArrives
