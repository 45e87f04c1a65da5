------------------------------- MODULE Metrics -------------------------------
(***************************************************************************)
(* How the Prometheus collector condenses the answer to a range query      *)
(* (internal/adapters/prometheus/prometheus.go): per series the extremes,  *)
(* the mean, the ends and a downsampled trend.                             *)
(*                                                                         *)
(* A sample is a number of thousandths, an infinity, NaN, or a pair that   *)
(* does not parse.  Two decimals are kept, rounded half away from zero.    *)
(***************************************************************************)
EXTENDS Selection, SequencesExt

CONSTANTS
  PosInf, NegInf, NaN, \* the floats that are not numbers to calculate with
  Junk,                \* a pair that is malformed or no float
  MaxSeries,           \* maxSeries
  TrendPoints          \* trendPoints

ASSUME MetricsAssumption ==
  /\ MaxSeries \in Nat
  /\ TrendPoints \in Nat \ {0, 1}
  /\ {PosInf, NegInf, NaN, Junk} \cap Int = {}
  /\ {PosInf, NegInf} \cap {NaN, Junk} = {}

(* n / d to the nearest integer, halves away from zero.                    *)
RoundDiv(n, d) == IF n >= 0 THEN (2 * n + d) \div (2 * d) ELSE -((2 * (-n) + d) \div (2 * d))

(* round2: thousandths to hundredths.                                      *)
Round2(v) == RoundDiv(v, 10)

ParseFloats(samples) == Without(samples, {NaN, Junk})

(* i * (len(vals) - 1) / (n - 1) for i from 0, as a position from 1.       *)
Pick(len, n, i) == ((i - 1) * (len - 1)) \div (n - 1) + 1

(* Variant: evenly spaced steps that never reach the last point.           *)
DownsampleByStep(vals, n) ==
  IF Len(vals) <= n THEN [i \in 1..Len(vals) |-> Round2(vals[i])]
  ELSE [i \in 1..n |-> Round2(vals[(i - 1) * (Len(vals) \div n) + 1])]

Downsample(vals, n) ==
  IF Len(vals) <= n THEN [i \in 1..Len(vals) |-> Round2(vals[i])]
  ELSE [i \in 1..n |-> Round2(vals[Pick(Len(vals), n, i)])]

Sum(vals) ==
  LET upTo[n \in 0..Len(vals)] == IF n = 0 THEN 0 ELSE upTo[n - 1] + vals[n]
  IN  upTo[Len(vals)]

(* The summary of one series of finite values.                             *)
SeriesSummary(vals) ==
  LET values == ToSet(vals) IN
  [points |-> Len(vals),
   min |-> Round2(CHOOSE v \in values : \A u \in values : v <= u),
   max |-> Round2(CHOOSE v \in values : \A u \in values : u <= v),
   avg |-> RoundDiv(Sum(vals), 10 * Len(vals)),
   first |-> Round2(vals[1]),
   last |-> Round2(vals[Len(vals)]),
   trend |-> Downsample(vals, TrendPoints)]

(* The series that are looked at, less those without a value.              *)
Kept(matrix) ==
  Without([i \in 1..Min({Len(matrix), MaxSeries}) |-> ParseFloats(matrix[i])], {<<>>})

(* An infinity has no JSON: Marshal fails, and its error is not looked at. *)
HasInfinity(vals) == {PosInf, NegInf} \cap ToSet(vals) # {}

(* lost: the result is nil although the answer had data.                   *)
Summarize(matrix) ==
  IF \E i \in DOMAIN Kept(matrix) : HasInfinity(Kept(matrix)[i])
    THEN [lost |-> TRUE, series |-> <<>>]
    ELSE [lost |-> FALSE, series |-> [i \in DOMAIN Kept(matrix) |-> SeriesSummary(Kept(matrix)[i])]]
=============================================================================
