SPECIFICATION ScanSpec
CONSTANTS
    Symbol = {"C", "--", ";", "'", "backslash"}
    MaxLength = 8
CHECK_DEADLOCK FALSE
INVARIANTS
    ManyAreOther
