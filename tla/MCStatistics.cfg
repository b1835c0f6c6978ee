CONSTANTS
    SampleValues <- MCPositiveSamples
    MaxSamples <- MCMaxSamples
SPECIFICATION Spec
INVARIANT TypeOK
INVARIANT WelfordMatchesTwoPass
INVARIANT MinIsSmallest
PROPERTY ImplementsAggregates
CHECK_DEADLOCK FALSE
