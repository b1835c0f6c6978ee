----------------------------- MODULE Statistics -----------------------------
(***************************************************************************)
(* The Statistics class of include/ignition/transport/TopicStatistics.hh: *)
(* a rolling average, min, max and Welford's running sum of squared       *)
(* distances from the mean, fed one sample per Update().                  *)
(*                                                                         *)
(* The doubles of the code are modelled as exact rationals: the model     *)
(* checks the algorithm, not floating-point rounding.  Only the order of  *)
(* the two sentinels numeric_limits<double>::max() and ::min() matters:   *)
(* max() is above every sample, min() is the smallest POSITIVE double,    *)
(* strictly between 0 and every positive sample.                          *)
(***************************************************************************)
EXTENDS Integers, Sequences, SequencesExt

CONSTANTS
    SampleValues,   \* the values passed to Update(): small naturals, as the
                    \* uint64 intervals TopicStatistics feeds it
    MaxSamples      \* bound on the number of Update() calls

ASSUME SampleValues \subseteq 0..15 /\ MaxSamples \in Nat

VARIABLES
    stat,       \* the Statistics object: count, average, sumSquareMeanDist, min, max
    samples     \* history: every value passed to Update(), in order

vars == <<stat, samples>>

-----------------------------------------------------------------------------
(* Exact rationals, kept normalised so that equal values are equal records *)

RECURSIVE Gcd(_, _)
Gcd(a, b) == IF b = 0 THEN a ELSE Gcd(b, a % b)

AbsInt(n) == IF n < 0 THEN -n ELSE n

Rat(n, d) ==
    LET g == Gcd(AbsInt(n), AbsInt(d))
        s == IF d < 0 THEN -1 ELSE 1
    IN  [num |-> (s * n) \div g, den |-> (s * d) \div g]

IntR(k) == Rat(k, 1)
RAdd(a, b) == Rat(a.num * b.den + b.num * a.den, a.den * b.den)
RSub(a, b) == Rat(a.num * b.den - b.num * a.den, a.den * b.den)
RMul(a, b) == Rat(a.num * b.num, a.den * b.den)
RDivInt(a, k) == Rat(a.num, a.den * k)
RLess(a, b) == a.num * b.den < b.num * a.den

\* std::min(a, b) returns a unless b < a; std::max(a, b) returns a unless a < b
StdMin(a, b) == IF RLess(b, a) THEN b ELSE a
StdMax(a, b) == IF RLess(a, b) THEN b ELSE a

\* numeric_limits<double>::max() and numeric_limits<double>::min()
DblMax == IntR(2^20)
DblMin == Rat(1, 2^10)

-----------------------------------------------------------------------------
(* The class                                                               *)

\* Seeded fault: min value-initialised to 0, like max is to a value that is
\* not below every sample.
StatInitMinZero ==
    [count |-> 0, average |-> IntR(0), sumSquareMeanDist |-> IntR(0),
     min |-> IntR(0), max |-> DblMin]

\* The member initialisers: count = 0, average = 0, sumSquareMeanDist = 0,
\* min = numeric_limits<double>::max(), max = numeric_limits<double>::min().
StatInit ==
    [count |-> 0, average |-> IntR(0), sumSquareMeanDist |-> IntR(0),
     min |-> DblMax, max |-> DblMin]

\* Seeded fault: the count decremented.
NextCountDown(st) == st.count - 1

\* this->count++
NextCount(st) == st.count + 1

\* Seeded fault: the variance term taken with the old mean twice instead of
\* the old and the new mean.
SquareTermOldMeanTwice(s, currentAvg, average) ==
    RMul(RSub(s, currentAvg), RSub(s, currentAvg))

\* (_stat - currentAvg) * (_stat - this->average), after average is updated.
SquareTerm(s, currentAvg, average) == RMul(RSub(s, currentAvg), RSub(s, average))

\* Statistics::Update(_stat): the whole method, in the code's order.
StatUpdate(st, x) ==
    LET s          == IntR(x)
        count      == NextCount(st)
        currentAvg == st.average
        average    == RAdd(currentAvg, RDivInt(RSub(s, currentAvg), count))
    IN  [count |-> count,
         average |-> average,
         min |-> StdMin(st.min, s),
         max |-> StdMax(st.max, s),
         sumSquareMeanDist |->
            RAdd(st.sumSquareMeanDist, SquareTerm(s, currentAvg, average))]

\* What the double arithmetic of the accessors yields where it leaves the
\* numbers: 0/0 is NaN and a positive number over 0 is +inf.
NaN == "nan"
Inf == "inf"

\* StdDev() is sqrt(sumSquareMeanDist / count); sqrt is monotone, so the
\* model keeps the variance.  With count = 0 the code computes 0/0.
Variance(st) == IF st.count = 0 THEN NaN ELSE RDivInt(st.sumSquareMeanDist, st.count)

\* The accessors Avg(), Min() and Max() return the members.
StatAvg(st) == st.average
StatMin(st) == st.min
StatMax(st) == st.max

\* 1.0 / (Avg() * 1e-3), the rate in Hz of an average interval in ms.
RateHz(st) == IF StatAvg(st).num = 0 THEN Inf
              ELSE Rat(1000 * StatAvg(st).den, StatAvg(st).num)

\* The four values YamlString() prints for one Statistics object.
StatReport(st) ==
    [avg_hz |-> RateHz(st), std_deviation |-> Variance(st),
     min |-> StatMin(st), max |-> StatMax(st)]

-----------------------------------------------------------------------------
(* A single Statistics object driven by arbitrary samples                  *)

Init ==
    /\ stat = StatInit
    /\ samples = <<>>

Update(x) ==
    /\ Len(samples) < MaxSamples
    /\ stat' = StatUpdate(stat, x)
    /\ samples' = Append(samples, x)

Next == \E x \in SampleValues : Update(x)

Spec == Init /\ [][Next]_vars

-----------------------------------------------------------------------------
(* Properties                                                              *)

RatType == [num : Int, den : Nat \ {0}]

TypeOK ==
    /\ stat \in [count : Nat, average : RatType, sumSquareMeanDist : RatType,
                 min : RatType, max : RatType]
    /\ samples \in Seq(SampleValues)

\* Two-pass reference: the mean and the sum of squared distances from it.
SeqSum(s) == FoldLeft(+, 0, s)
RefMean == Rat(SeqSum(samples), Len(samples))
RefSumSquares ==
    FoldLeft(LAMBDA acc, x : RAdd(acc, RMul(RSub(IntR(x), RefMean),
                                            RSub(IntR(x), RefMean))),
             IntR(0), samples)

\* Welford's one-pass update in Statistics::Update keeps count, average and
\* sumSquareMeanDist equal to the two-pass count, mean and sum of squared
\* deviations of every sample seen so far, after any number of updates.
WelfordMatchesTwoPass ==
    /\ stat.count = Len(samples)
    /\ Len(samples) > 0 =>
          /\ stat.average = RefMean
          /\ stat.sumSquareMeanDist = RefSumSquares

\* Min() is the smallest sample once one sample has been seen (the min
\* member starts at numeric_limits<double>::max()).
MinIsSmallest ==
    Len(samples) > 0 => stat.min = IntR(Min(ToSet(samples)))

\* Max() is the largest sample once one sample has been seen.  The max
\* member starts at numeric_limits<double>::min(), the smallest positive
\* double, not the lowest one.
MaxIsLargest ==
    Len(samples) > 0 => stat.max = IntR(Max(ToSet(samples)))

\* Refinement mapping to StatisticsAbs, from the object's members alone:
\* the sum is average * count and the sum of squares is
\* sumSquareMeanDist + count * average^2; Min()/Max() stand for lo/hi once
\* a sample was seen.  A value that is not an integer maps to -2, which no
\* abstract state holds.
AsInt(r) == IF r.den = 1 THEN r.num ELSE -2

Aggregates == INSTANCE StatisticsAbs WITH
    count <- stat.count,
    sum   <- AsInt(RMul(stat.average, IntR(stat.count))),
    sumSq <- AsInt(RAdd(stat.sumSquareMeanDist,
                        RMul(IntR(stat.count), RMul(stat.average, stat.average)))),
    lo    <- IF stat.count = 0 THEN -1 ELSE AsInt(stat.min),
    hi    <- IF stat.count = 0 THEN -1 ELSE AsInt(stat.max)

\* Every Statistics::Update is an Add of the same sample to the count, sum,
\* sum of squares, least and greatest sample: the rolling average,
\* Welford's sum and the min/max members implement StatisticsAbs.
ImplementsAggregates == Aggregates!Spec

=============================================================================
