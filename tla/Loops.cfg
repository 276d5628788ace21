CONSTANTS
    Programs <- RepeatedPrograms
    InputValues <- RepeatedInputs
    MaxReads = 8
    MaxInt = 7
SPECIFICATION FairSpec
INVARIANTS
    UsedArraysAlive
PROPERTIES
    ValidationEnds
    Terminates
