CONSTANTS
    Programs <- ElementPrograms
    InputValues = {0}
    MaxReads = 0
    MaxInt = 7
SPECIFICATION Spec
INVARIANTS
    ElementTypesContained
