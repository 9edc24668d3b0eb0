SPECIFICATION MCSpec
CONSTANTS
    f = f
    g = g
    Primary = p
    Foreign = {f, g}
    MaxRef = 2
    MaxFaults = 1
INVARIANT
    AnswerIsComplete
PROPERTIES
    QueriesEnd
    PropagatorsClose
CHECK_DEADLOCK FALSE
