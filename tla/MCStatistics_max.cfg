CONSTANTS
    SampleValues <- MCSampleValues
    MaxSamples <- MCMaxSamples
SPECIFICATION Spec
INVARIANT MaxIsLargest
CHECK_DEADLOCK FALSE
