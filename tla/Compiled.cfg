CONSTANTS
    Programs <- CompiledPrograms
    InputValues <- LoopInputs
    MaxReads = 3
    MaxInt = 15
    Garbage = {5}
    Byte = 4
    IntSize = 2
SPECIFICATION Spec
INVARIANTS
    GeneratorTypeOK
    MachineTypeOK
    AcceptedCompiles
    GeneratedNamesResolve
    DescriptionsApart
    HeapArraysFreedOnce
PROPERTIES
    CompiledImplementsLanguage
