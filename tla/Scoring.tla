------------------------------- MODULE Scoring -------------------------------
(***************************************************************************)
(* The detector of services/scorer/app/scoring.py: a robust z-score of the *)
(* last reading of a window against the readings before it.                *)
(*                                                                         *)
(* Readings are integers and FloatMax stands for the largest float: what   *)
(* exceeds it in a sum, a difference or a quotient becomes Infinity.       *)
(* Halves and quotients are kept exact by scaling: a number "in units of   *)
(* 1/u" is multiplied by u.  Rounding of floats is left out.               *)
(***************************************************************************)
EXTENDS Integers, Sequences, FiniteSets

CONSTANTS
    MIN_WINDOW, MAX_WINDOW,
    Threshold,   \* anomaly_threshold, in units of 1/2000
    FloatMax     \* the largest finite number

ASSUME ScoringAssumption ==
    /\ MIN_WINDOW \in Nat \ {0, 1} /\ MAX_WINDOW \in Nat
    /\ Threshold \in Nat /\ FloatMax \in Nat /\ FloatMax >= 8

Infinity == 10 * FloatMax
NotFinite == Infinity + 1      \* NaN or an infinity among the readings
MAD_TO_SIGMA == 1349           \* 0.6745, in units of 1/2000
SATURATED_SCORE == 2000000     \* likewise

abs(x) == IF x < 0 THEN -x ELSE x

\* The float that x, in units of 1/u, becomes.
float(x, u) ==
    IF abs(x) <= u * FloatMax THEN x ELSE IF x > 0 THEN Infinity ELSE -Infinity

-----------------------------------------------------------------------------
Below(values, x) == {i \in DOMAIN values : values[i] < x}
UpTo(values, x) == {i \in DOMAIN values : values[i] <= x}

\* sorted(values): fewer than k values are below the k-th, and no fewer than k
\* are up to it.
sorted(values) ==
    [k \in DOMAIN values |->
        CHOOSE x \in {values[i] : i \in DOMAIN values} :
            Cardinality(Below(values, x)) < k /\ k <= Cardinality(UpTo(values, x))]

\* The median of values in units of 1/u, in units of 1/2u.
median(values, u) ==
    LET ordered == sorted(values)
        n   == Len(values)
        mid == n \div 2
    IN  IF n % 2 = 1 THEN 2 * ordered[mid + 1]
        ELSE float(ordered[mid] + ordered[mid + 1], u)

\* abs(value - median), in units of 1/2.
deviation(value, center) == float(abs(2 * value - center), 2)
absolute_deviations(values, center) == [i \in DOMAIN values |-> deviation(values[i], center)]

\* Seeded fault: the reading that is judged is part of its own baseline.
Fault_baselineWithLatest(readings) == readings

\* The readings that the last one is compared with.
baseline(readings) == SubSeq(readings, 1, Len(readings) - 1)

\* Seeded fault: a small dispersion counts as none.
Fault_flatBelowOne(mad) == mad < 4

\* Is the baseline without a scale?  mad is in units of 1/4.
flat(mad) == mad = 0

\* The score, a fraction num / den in units of 1/2000; Infinity is 1 / 0.
zscore(d, mad) ==
    IF d = Infinity THEN [num |-> 1, den |-> 0] ELSE [num |-> 2 * MAD_TO_SIGMA * d, den |-> mad]

\* Seeded fault: the score is not capped.
Fault_uncapped(z) == z

\* The score that is reported for z.
capped(z) ==
    IF z.num \div SATURATED_SCORE >= z.den THEN [num |-> SATURATED_SCORE, den |-> 1] ELSE z

\* score_window: the score, the verdict, the median in units of 1/2, and
\* whether the dispersion, sigma, is a finite number.
score_window(readings) ==
    IF Len(readings) < MIN_WINDOW
    THEN [score |-> [num |-> 0, den |-> 1], anomaly |-> FALSE, method |-> "insufficient_data",
          median |-> median(readings, 1), finite |-> TRUE]
    ELSE
    LET center == median(baseline(readings), 1)
        mad == median(absolute_deviations(baseline(readings), center), 2)
        d   == deviation(readings[Len(readings)], center)
        z   == zscore(d, mad)
    IN  IF flat(mad)
        THEN [score |-> [num |-> IF d = 0 THEN 0 ELSE SATURATED_SCORE, den |-> 1],
              anomaly |-> d # 0, method |-> "robust_zscore_flat",
              median |-> center, finite |-> TRUE]
        ELSE [score |-> capped(z), anomaly |-> z.num >= Threshold * z.den,
              method |-> "robust_zscore", median |-> center,
              finite |-> 2000 * mad <= 4 * MAD_TO_SIGMA * FloatMax]

-----------------------------------------------------------------------------
(* The endpoint.                                                           *)

\* ScoreRequest: what the request model lets through to score_window.
_finite(values) == \A i \in DOMAIN values : values[i] # NotFinite
valid(readings) == Len(readings) \in 1 .. MAX_WINDOW /\ _finite(readings)

\* The answer of /v1/score.  JSONResponse refuses to encode an infinity, and
\* the request fails with 500: so does one that _finite refuses, because the
\* answer that says so, FastAPI's 422, carries the readings.
score(readings) ==
    LET result == score_window(readings)
    IN  IF ~_finite(readings)
        THEN [status |-> 500]
        ELSE IF ~valid(readings)
        THEN [status |-> 422]
        ELSE IF abs(result.median) < Infinity /\ result.finite
        THEN [status |-> 200, result |-> result]
        ELSE [status |-> 500]
==============================================================================
