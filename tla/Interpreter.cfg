CONSTANTS
    Programs <- InterpreterPrograms
    InputValues <- EdgeInputs
    MaxReads = 3
    MaxInt = 7
SPECIFICATION Spec
INVARIANTS
    TypeOK
    SymbolsCoherent
    NamesResolveStatically
    LiveArraysScoped
    LeftScopesHoldNoArray
    NamesDoNotAlias
    TypeSound
    ConstantIndexChecked
    AcceptedIsTyped
    FoldedConstantsAgree
    CheckerFailsOnReported
PROPERTIES
    ImplementsLanguage
    CheckerFaultsAreReal
