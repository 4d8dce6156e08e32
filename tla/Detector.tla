------------------------------ MODULE Detector ------------------------------
(***************************************************************************)
(* M2: what the two detectors make of one point's chlorine series.         *)
(*                                                                         *)
(* Readings are integers, in a unit of the instance's choice; an average   *)
(* over them is kept as a fraction, so the comparisons below are exact.    *)
(* scikit-learn's isolation forest is not modelled: it is seeded, so what  *)
(* it makes of a series is the same every time, and readings of one value  *)
(* score alike.  `odd` is the set of series lengths at which it scores the *)
(* latest value above all others, which is what a series of up to ten      *)
(* readings takes to be an outlier.                                        *)
(***************************************************************************)
EXTENDS Integers, Sequences, FiniteSets, FiniteSetsExt, SequencesExt

CONSTANTS
    Span,           \* ewma_span
    TrendWindow,    \* TREND_WINDOW
    MinReadings,    \* MIN_READINGS
    WatchLevel,     \* WATCH_LEVEL_MG_L
    Threshold       \* THRESHOLD_BASELINE_MG_L, DEFAULT_THRESHOLD_MG_L

ASSUME DetectorAssumption ==
    /\ Span \in Nat \ {0}
    /\ TrendWindow \in Nat \ {0, 1} /\ MinReadings \in Nat \ {0, 1}
    /\ WatchLevel \in Int /\ Threshold \in Int

Total(seq) == FoldLeft(+, 0, seq)
Magnitude(x) == IF x < 0 THEN -x ELSE x

\* ewma_z_scores: with alpha = 2 / (Span + 1), the next average is
\* alpha * value + (1 - alpha) * last.
NextAverage(value, last) ==
    [num |-> 2 * value * last.den + (Span - 1) * last.num, den |-> (Span + 1) * last.den]

\* The average after the last reading.
Ewma(series) ==
    LET average[i \in 1 .. Len(series)] ==
            IF i = 1 THEN [num |-> series[1], den |-> 1]
            ELSE NextAverage(series[i], average[i - 1])
    IN average[Len(series)]

\* The latest residual, a fraction over the average's denominator.
Residual(series) == Last(series) * Ewma(series).den - Ewma(series).num

\* process_sigma: the sum of the moving ranges; the mean divides it by
\* Len(series) - 1, sigma also by 1.128.
MovingRanges(series) ==
    Total([i \in 1 .. Len(series) - 1 |-> Magnitude(series[i + 1] - series[i])])

\* Mutant: the size of the residual counts, not its sign.
ShiftedEitherWay(series) ==
    /\ MovingRanges(series) > 0
    /\ Magnitude(Residual(series)) * (Len(series) - 1) * 141
          >= 2 * 125 * MovingRanges(series) * Ewma(series).den

\* EWMA_SHIFT_UP: the latest reading is two sigma below the average or lower.
\* 1.128 = 141 / 125; without any noise every z is 0.
Shifted(series) ==
    /\ MovingRanges(series) > 0
    /\ Residual(series) * (Len(series) - 1) * 141
          <= -2 * 125 * MovingRanges(series) * Ewma(series).den

\* slope_towards_limit, up to a positive factor: with x from 0 to k - 1 the
\* mean of x is (k - 1) / 2, and the mean of y adds nothing to the sum.
Slope(series) ==
    LET k == Min({TrendWindow, Len(series)})
        tail == SubSeq(series, Len(series) - k + 1, Len(series))
    IN Total([i \in 1 .. k |-> (2 * (i - 1) - (k - 1)) * tail[i]])

\* TREND_TO_LIMIT
Heading(series) == Slope(series) < 0 /\ Last(series) < WatchLevel

\* IFOREST_OUTLIER: the latest score lies above the cut, an order statistic
\* that readings of the same value may reach.
Outlying(series, odd) ==
    LET n == Len(series)
        cut == Max({0, Min({n - 1, (n * 9) \div 10 - 1})})
        alike == Cardinality({i \in 1 .. n : series[i] = series[n]})
    IN n \in odd /\ cut + 1 <= n - alike

\* analyse and reason_codes.
Codes(series, odd) ==
    IF Len(series) < MinReadings THEN {}
    ELSE {c \in {"EWMA_SHIFT_UP", "IFOREST_OUTLIER", "TREND_TO_LIMIT"} :
             CASE c = "EWMA_SHIFT_UP" -> Shifted(series)
               [] c = "IFOREST_OUTLIER" -> Outlying(series, odd)
               [] c = "TREND_TO_LIMIT" -> Heading(series)}
=============================================================================
