---------------------------- MODULE MCStatistics ----------------------------
(* Model-checking instance of Statistics: up to four Update() calls,       *)
(* enough for averages with denominators 1..4; intervals of 0..3 ms,      *)
(* which include a history made only of zero-length intervals.           *)
EXTENDS Statistics

MCSampleValues == 0..3
MCMaxSamples == 4

\* Positive intervals only, the case in which max starting at
\* numeric_limits<double>::min() is below every sample.
MCPositiveSamples == 1..4
=============================================================================
