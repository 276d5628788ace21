CONSTANTS
    Programs <- LoopArrayPrograms
    InputValues = {0, 1}
    MaxReads = 6
    MaxInt = 7
SPECIFICATION Spec
INVARIANTS
    ArraysAssignedOnce
