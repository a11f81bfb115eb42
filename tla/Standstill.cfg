SPECIFICATION FlowSpec
CONSTANTS
    Capacity = 2
    Window = 4
    Answers = 4
    Requests = 6
CHECK_DEADLOCK FALSE
PROPERTIES
    AllAnswered
