CONSTANTS
    Programs <- CompiledLoopPrograms
    InputValues <- LoopInputs
    MaxReads = 5
    MaxInt = 15
    Garbage = {5}
    Byte = 4
    IntSize = 2
SPECIFICATION FairSpec
PROPERTIES
    CompiledTerminates
    CompiledImplementsLanguage
