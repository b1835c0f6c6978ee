------------------------- MODULE MCTopicStatistics -------------------------
(* Model-checking instance of TopicStatistics.  Two senders whose          *)
(* deliveries interleave; four publications each, so with Width = 2 bits   *)
(* the fourth sequence number wraps to 0 and runs of up to three losses    *)
(* fit; stamps and the subscriber clock within 1..3, below 2^Width.        *)
EXTENDS TopicStatistics, TLC

CONSTANTS s1, s2

MCSenders == {s1, s2}
MCOneSender == {s1}
MCMaxPublished == 4
MCMaxStamp == 3
MCWidth == 2
MCNoMetaSenders == {}
MCOneNoMeta == {s2}
MCMaxRestarts == 0
MCOneRestart == 1
MCSymmetry == Permutations(MCSenders)
=============================================================================
