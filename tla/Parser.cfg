SPECIFICATION Spec
CONSTANTS
    Texts <- AllTexts
    Following <- AnyTokens
    MaxFollowing = 4
    RandomInts <- ARandomInt
INVARIANTS
    BlocksOpen
    ListsOfOne
    ScopesAsWritten
    ReadsAsWritten
