---------------------------- MODULE MCLiveWorker ----------------------------
(***************************************************************************)
(* Instances of LiveWorker.                                                *)
(***************************************************************************)
EXTENDS LiveWorker

\* In units of the clock; the order of the thresholds of the program is kept
\* as far as the short clock allows.
ShortThresholds == [s \in LiveSources |-> IF s = "dwd_open_data" THEN 1 ELSE 0]

\* The air quality lags, the other feeds are up to date when they answer.
AirLags == [s \in Feeds |-> IF s = "berlin_air_quality" THEN {0, 1} ELSE {0}]
=============================================================================
