CONSTANTS
    MaxRef = 3
    MaxCuts = 1
    itemsLimit = 2
SPECIFICATION Spec
INVARIANT ClosedMeansPropagated
CHECK_DEADLOCK FALSE
