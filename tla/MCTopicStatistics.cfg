CONSTANTS
    s1 = s1
    s2 = s2
    Senders <- MCSenders
    MaxPublished <- MCMaxPublished
    MaxStamp <- MCMaxStamp
    Width <- MCWidth
    NoMetaSenders <- MCNoMetaSenders
    MaxRestarts <- MCMaxRestarts
SYMMETRY MCSymmetry
SPECIFICATION Spec
INVARIANT TypeOK
 
INVARIANT RecvMeanSpansClock
INVARIANT IntervalPerDelivery
CHECK_DEADLOCK FALSE
