CONSTANTS
    n1 = n1
    MaxRef = 2
    Nodes = {n1}
    itemsLimit = 2
    Layouts = {"one", "several", "overlapping"}
SPECIFICATION FairSpec
INVARIANTS NothingPassedOver EndedMeansComplete
PROPERTY EventuallyEnds
CHECK_DEADLOCK FALSE
