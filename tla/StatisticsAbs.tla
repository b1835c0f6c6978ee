---------------------------- MODULE StatisticsAbs ----------------------------
(***************************************************************************)
(* What a Statistics object of TopicStatistics.hh stands for, written     *)
(* without its algorithm: the samples seen so far, summarised by their     *)
(* number, sum and sum of squares, and their least and greatest value.    *)
(* The mean is sum / count and the variance sumSq / count - mean^2; the   *)
(* detailed module Statistics is shown to implement this one.             *)
(***************************************************************************)
EXTENDS Integers

CONSTANTS SampleValues, MaxSamples

VARIABLES count, sum, sumSq, lo, hi

absVars == <<count, sum, sumSq, lo, hi>>

\* lo and hi before the first sample.
NoSample == -1

Init ==
    /\ count = 0 /\ sum = 0 /\ sumSq = 0
    /\ lo = NoSample /\ hi = NoSample

\* One more sample x.
Add(x) ==
    /\ count < MaxSamples
    /\ count' = count + 1
    /\ sum' = sum + x
    /\ sumSq' = sumSq + x * x
    /\ lo' = IF lo = NoSample \/ x < lo THEN x ELSE lo
    /\ hi' = IF hi = NoSample \/ x > hi THEN x ELSE hi

Next == \E x \in SampleValues : Add(x)

Spec == Init /\ [][Next]_absVars

=============================================================================
