CONSTANTS
    n1 = n1
    n2 = n2
    Nodes <- MCNodes
    MaxRef = 2
    itemsLimit = 2
    Layouts = {"one"}
SYMMETRY Symmetry
SPECIFICATION Spec
INVARIANTS NothingPassedOver NoDuplicates
CHECK_DEADLOCK FALSE
