CONSTANTS
    Times <- MCTimes
    Null = Null
    MaxMessages <- MCMaxMessages
    ReuseMovedFrom = FALSE
SPECIFICATION Spec
INVARIANT TypeOK
INVARIANT OrderedWhenQualifiersAgree
