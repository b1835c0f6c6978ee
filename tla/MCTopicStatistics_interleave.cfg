CONSTANTS
    s1 = s1
    s2 = s2
    Senders <- MCSenders
    MaxPublished <- MCMaxPublished
    MaxStamp <- MCMaxStamp
    Width <- MCWidth
    NoMetaSenders <- MCNoMetaSenders
    MaxRestarts <- MCMaxRestarts
SYMMETRY MCSymmetry
SPECIFICATION Spec
INVARIANT PubMeanSpansStamps
CHECK_DEADLOCK FALSE
