SPECIFICATION Spec
CONSTANTS
    Symbol = {"C", "P", "newline", "--", "/*", "*/", ";", "'", "$"}
    MaxLength = 6
    Byte = {"0", "u", "d", "a"}
    MaxBody = 9
    None = None
CHECK_DEADLOCK FALSE
INVARIANTS
    ManyAreOther
    OneHasItsClass
    ParametersSeen
