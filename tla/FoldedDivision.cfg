CONSTANTS
    Programs <- FoldedDivisionPrograms
    InputValues = {0, 1}
    MaxReads = 2
    MaxInt = 15
    Garbage = {5}
    Byte = 4
    IntSize = 2
SPECIFICATION Spec
PROPERTIES
    PrintsItsMeaning
