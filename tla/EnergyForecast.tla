--------------------------- MODULE EnergyForecast ---------------------------
(***************************************************************************)
(* scripts/evaluate_energy.py: a load curve of Stromnetz Berlin is parsed  *)
(* (adapters/stromnetz_berlin.py), four models are evaluated on its last   *)
(* part, the best is fitted to all of it and forecasts one interval        *)
(* (energy/pipeline.py, energy/workflow.py).                               *)
(*                                                                         *)
(* Values are left out: a feature is the set of rows it is computed from,  *)
(* and the scores of the models are whatever they turn out to be.  Rows    *)
(* count from 1, times are whole intervals, a wall-clock label is a time   *)
(* and the offset of the zone.  A load is a file as published: its format  *)
(* (an annual publication, or a table whose labels are local or tell their *)
(* offset, the latter standing for the times they denote), the true end of *)
(* each interval, its label, and whether the declared maximum and work     *)
(* agree with the values.                                                  *)
(* Definitions marked "slip" are wrong variants of the one that follows.   *)
(***************************************************************************)
EXTENDS FiniteSets, Integers, Sequences

CONSTANTS
  Offset,                   \* Offset[t]: of the zone from time t on
  Rows,                     \* the length of an annual load curve
  SeasonalLag,              \* 96 quarter hours
  ShortWindow, LongWindow,  \* of the rolling means: 4 and 16
  TestShare,                \* test_fraction, in percent
  MinUsable, MinTrain, MinTest,   \* 50, 20 and 10 rows
  MinFit                    \* 20 rows to fit the forecast model

ASSUME EnergyAssumption ==
  /\ Rows \in Nat /\ Offset \in [0..Rows -> Int]
  /\ SeasonalLag \in Nat /\ SeasonalLag >= 2
  /\ ShortWindow \in 1..LongWindow /\ LongWindow \in Nat
  /\ TestShare \in 10..50
  /\ MinTest \in Nat \ {0}
-----------------------------------------------------------------------------
\* _expected_published_wall_time of the i-th row: at a change of the offset
\* the row is the end of an interval before it.
WallTime(i) ==
  IF i > 1 /\ Offset[i - 1] # Offset[i - 2] THEN i - 1 + Offset[i - 2]
                                            ELSE i - 1 + Offset[i - 1]

\* parse_published_annual_load_curve: a complete year whose labels are the
\* expected ones; anything else raises.
WellPublished(load) ==
  /\ Len(load.labels) = Rows
  /\ \A i \in 1..Rows : load.labels[i] = WallTime(i)
  /\ load.consistent

FirstOf(S) == CHOOSE x \in S : \A y \in S : x <= y
LastOf(S) == CHOOSE x \in S : \A y \in S : x >= y

\* tz_localize: the times a local label may stand for.
Candidates(label) == {t \in 0..Rows : t + Offset[t] = label}
Ambiguous(label) == \E t, u \in Candidates(label) : t < u

\* ambiguous="infer" takes neighbouring rows that are ambiguous as one change
\* of the clocks, and looks for the row where the labels begin anew.
RunOf(labels, i) ==
  {j \in DOMAIN labels : \A k \in (i..j) \cup (j..i) : Ambiguous(labels[k])}
Repeats(labels, i) ==
  {j \in RunOf(labels, i) : j - 1 \in RunOf(labels, i) /\ labels[j] <= labels[j - 1]}

\* slip: a label without a repetition is taken for the first of its times
AnyLocalizable(labels) == \A i \in DOMAIN labels : Candidates(labels[i]) # {}
\* nonexistent="raise", and so does what cannot be inferred.
Localizable(labels) ==
  \A i \in DOMAIN labels :
    /\ Candidates(labels[i]) # {}
    /\ Ambiguous(labels[i]) => \E r \in DOMAIN labels : Repeats(labels, i) = {r}

LocalTime(labels, i) ==
  IF \E r \in Repeats(labels, i) : r <= i
  THEN LastOf(Candidates(labels[i]))
  ELSE FirstOf(Candidates(labels[i]))

\* The timestamps of the series: an annual one is counted from its first row.
TimesOf(load) ==
  CASE load.format = "annual" -> [i \in 1..Rows |-> i - 1]
    [] load.format = "local"  -> [i \in DOMAIN load.labels |-> LocalTime(load.labels, i)]
    [] load.format = "aware"  -> load.labels

\* parse, for tables: gaps are let through.
Tabulated(load) ==
  /\ load.format = "local" => Localizable(load.labels)
  /\ \A i \in 2..Len(load.labels) : TimesOf(load)[i - 1] < TimesOf(load)[i]

Accepted(load) ==
  IF load.format = "annual" THEN WellPublished(load) ELSE Tabulated(load)
-----------------------------------------------------------------------------
FeatureNames == {"lag_1", "lag_seasonal", "rolling_mean_4", "rolling_mean_16"}

\* slip: the windows end with the row itself
UnshiftedWindow(i, width) == (i - width + 1)..i
Window(i, width) == (i - width)..(i - 1)

\* build_features: the rows that the features of row i are computed from.
FeatureRows(f, i) ==
  CASE f = "lag_1"           -> {i - 1}
    [] f = "lag_seasonal"    -> {i - SeasonalLag}
    [] f = "rolling_mean_4"  -> Window(i, ShortWindow)
    [] f = "rolling_mean_16" -> Window(i, LongWindow)

UsableRows(n) ==
  {i \in 1..n : \A f \in FeatureNames : FeatureRows(f, i) \subseteq 1..n}

\* evaluate: the split is chronological.
TrainCount(n) == (Cardinality(UsableRows(n)) * (100 - TestShare)) \div 100

HeldOut(n) ==
  {i \in UsableRows(n) : Cardinality({j \in UsableRows(n) : j <= i}) > TrainCount(n)}

Evaluable(n) ==
  /\ Cardinality(UsableRows(n)) >= MinUsable
  /\ TrainCount(n) >= MinTrain
  /\ Cardinality(HeldOut(n)) >= MinTest

Models == <<"persistence", "seasonal_naive", "ridge", "hist_gradient_boosting">>
Better(a, b) == a.mae < b.mae \/ (a.mae = b.mae /\ a.rmse < b.rmse)

\* select_candidate: the first of the best.
Candidate(scores) ==
  CHOOSE m \in DOMAIN Models :
    /\ \A k \in DOMAIN Models : ~Better(scores[k], scores[m])
    /\ \A k \in 1..(m - 1) : Better(scores[m], scores[k])
-----------------------------------------------------------------------------
\* forecast_next: the rows the features of the next interval are taken from.
\* slip: the seasonal value is taken from the end of the lag
SeasonalAfter(n) == n - SeasonalLag
SeasonalRow(n) == n - SeasonalLag + 1

ForecastRows(f, n) ==
  CASE f = "lag_1"           -> {n}
    [] f = "lag_seasonal"    -> {SeasonalRow(n)}
    [] f = "rolling_mean_4"  -> (n - ShortWindow + 1)..n
    [] f = "rolling_mean_16" -> (n - LongWindow + 1)..n

\* Gaps are not let through.
Regular(times) ==
  Len(times) > 1 /\ \A i \in 2..Len(times) : times[i] - times[i - 1] = times[2] - times[1]

Forecastable(times, model) ==
  /\ Len(times) > SeasonalLag + LongWindow
  /\ Regular(times)
  /\ Models[model] \in {"ridge", "hist_gradient_boosting"} =>
       Cardinality(UsableRows(Len(times))) >= MinFit

\* EnergyForecastWorkflow.run: the state that is saved.  History: the load, the
\* times of its series, and what was trained and computed from which.
EnergyStateOf(load, scores, negative) ==
  LET times == TimesOf(load)
      n     == Len(times)
  IN  [load       |-> load,
       times      |-> times,
       model      |-> Candidate(scores),
       scores     |-> scores,
       negative   |-> negative,
       evaluation |-> <<times[FirstOf(HeldOut(n))], times[LastOf(HeldOut(n))]>>,
       trained    |-> {times[i] : i \in UsableRows(n) \ HeldOut(n)},
       issued     |-> times[n],
       valid      |-> times[n] + times[n] - times[n - 1],
       inputs     |-> [f \in FeatureNames |-> {times[i] : i \in ForecastRows(f, n)}]]

Evaluated(load, scores) ==
  /\ Accepted(load)
  /\ Evaluable(Len(TimesOf(load)))
  /\ Forecastable(TimesOf(load), Candidate(scores))
=============================================================================
