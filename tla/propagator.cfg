CONSTANTS
    MaxRef = 3
    MaxCuts = 2
    itemsLimit = 2
SPECIFICATION MCSpec
INVARIANTS TypeOK NothingForgotten OnlyMissingReleased NeverAheadOfPrimary FinalResponseIsComplete
           SingleResponseSuffices
PROPERTY EventuallyClosed
CHECK_DEADLOCK FALSE
