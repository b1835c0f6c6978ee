CONSTANTS
    Times <- MCTimes
    Null = Null
    MaxMessages <- MCMaxMessages
    ReuseMovedFrom = TRUE
SPECIFICATION Spec
INVARIANT NoNullPimplUse
