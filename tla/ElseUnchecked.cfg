CONSTANTS
    Programs <- ElsePrograms
    InputValues = {0, 1}
    MaxReads = 2
    MaxInt = 7
SPECIFICATION Spec
INVARIANTS
    VisitedVariablesTyped
