CONSTANTS
    s1 = s1
    s2 = s2
    Senders <- MCSenders
    MaxPublished <- MCMaxPublished
    MaxStamp <- MCMaxStamp
    Width <- MCWidth
    NoMetaSenders <- MCNoMetaSenders
    MaxRestarts <- MCMaxRestarts
SPECIFICATION Spec
INVARIANT ReportIsNumeric
CHECK_DEADLOCK FALSE
