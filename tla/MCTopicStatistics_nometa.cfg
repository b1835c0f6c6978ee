CONSTANTS
    s1 = s1
    s2 = s2
    Senders <- MCSenders
    MaxPublished <- MCMaxPublished
    MaxStamp <- MCMaxStamp
    Width <- MCWidth
    NoMetaSenders <- MCOneNoMeta
    MaxRestarts <- MCMaxRestarts
SPECIFICATION Spec
INVARIANT IntervalPerDelivery
CHECK_DEADLOCK FALSE
