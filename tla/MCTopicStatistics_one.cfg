CONSTANTS
    s1 = s1
    s2 = s2
    Senders <- MCOneSender
    MaxPublished <- MCMaxPublished
    MaxStamp <- MCMaxStamp
    Width <- MCWidth
    NoMetaSenders <- MCNoMetaSenders
    MaxRestarts <- MCOneRestart
SPECIFICATION Spec
INVARIANT PubMeanSpansStamps
CHECK_DEADLOCK FALSE
