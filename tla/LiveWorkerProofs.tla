-------------------------- MODULE LiveWorkerProofs --------------------------
(***************************************************************************)
(* Proofs about the acquisition worker, for every clock, every threshold,  *)
(* every pattern of answers and failures and every crash.                  *)
(***************************************************************************)
EXTENDS LiveWorker, TLAPS

Products == DOMAIN Needs

LEMMA ProductNames == Products = {"mobility", "heat_air", "mobility_air"}
  BY DEF Products, Needs

LEMMA NeedsOf ==
  /\ Needs["mobility"] = {"vbb_gtfs_rt"}
  /\ Needs["heat_air"] = {"dwd_open_data", "berlin_air_quality"}
  /\ Needs["mobility_air"] = {"vbb_gtfs_rt", "berlin_air_quality"}
  BY DEF Needs

LEMMA ClassifiedType ==
  ASSUME NEW o, NEW n, NEW h
  PROVE  Classified(o, n, h) \in Freshnesses
  BY DEF Classified, Freshnesses

LEMMA CombinedType ==
  ASSUME NEW V
  PROVE  Combined(V) \in Freshnesses
  BY DEF Combined, Freshnesses

\* The inputs a record has when its sources have the observations of data.
InputIds(r, data) == {<<s, data[s]>> : s \in Needs[r]}

LEMMA BuildShape ==
  ASSUME NEW state \in RuntimeState
  PROVE  /\ DOMAIN Build(state) = Emitted(state)
         /\ Emitted(state) \subseteq Products
         /\ \A r \in Emitted(state) :
              /\ Build(state)[r].inputs = InputIds(r, state.data)
              /\ Build(state)[r].freshness \in Freshnesses
              /\ Build(state)[r].inputs \in SUBSET (LiveSources \X Times)
<1>1. DOMAIN Build(state) = Emitted(state) /\ Emitted(state) \subseteq Products
  BY DEF Build, Emitted, Products
<1>2. ASSUME NEW r \in Emitted(state)
      PROVE  /\ Build(state)[r].inputs = InputIds(r, state.data)
             /\ Build(state)[r].freshness \in Freshnesses
             /\ Build(state)[r].inputs \in SUBSET (LiveSources \X Times)
  <2>1. Build(state)[r] =
          [inputs    |-> InputIds(r, state.data),
           freshness |-> Combined({state.fresh[s] : s \in Needs[r]})]
    BY DEF Build, InputIds
  <2>2. Needs[r] \subseteq LiveSources
    BY <1>1, ProductNames, NeedsOf DEF LiveSources
  <2>3. \A s \in Needs[r] : state.data[s] \in Times
    BY <2>2 DEF Emitted, Usable, RuntimeState, Observed
  <2>4. InputIds(r, state.data) \in SUBSET (LiveSources \X Times)
    BY <2>2, <2>3 DEF InputIds
  <2> QED
    BY <2>1, <2>4, CombinedType
<1> QED
  BY <1>1, <1>2
-----------------------------------------------------------------------------
\* The records of the derived store were all built from the same observations.
SameBasis ==
  \E data \in [LiveSources -> Observed] :
    \A r \in DOMAIN derived : derived[r].inputs = InputIds(r, data)

InSleep ==
  pc = "sleep" =>
    /\ DOMAIN derived = Emitted(runtime)
    /\ \A r \in DOMAIN derived :
         /\ derived[r].inputs = Build(runtime)[r].inputs
         /\ FollowsRuntime(r) \/ r = "mobility"

Inv ==
  /\ WorkerTypeOK
  /\ ValidMeansRecent
  /\ SameBasis
  /\ InSleep
-----------------------------------------------------------------------------
Changed(previous, desired) == {r \in DOMAIN desired : desired[r] # previous[r]}
Incremental(previous, desired) ==
  Recompute(previous, desired, ChangedInputIds(Changed(previous, desired), previous))

\* The incremental refresh with stable topology.  A changed product of two
\* sources is always recomputed: heat_air because nothing else names its
\* temperature, mobility_air because either one of its inputs is named by
\* changed products only or all inputs are taken.  The mobility product can
\* be passed by, when mobility_air did not change; then its input did not.
LEMMA IncrementalRefresh ==
  ASSUME NEW previous, NEW desired,
         NEW old \in [LiveSources -> Observed],
         NEW new \in [LiveSources -> Observed],
         DOMAIN previous \subseteq Products,
         DOMAIN desired = DOMAIN previous,
         \A r \in DOMAIN previous : previous[r].inputs = InputIds(r, old),
         \A r \in DOMAIN desired : desired[r].inputs = InputIds(r, new),
         "mobility_air" \in DOMAIN previous => "mobility" \in DOMAIN previous
  PROVE  /\ DOMAIN Incremental(previous, desired) = DOMAIN desired
         /\ \A r \in DOMAIN desired :
              /\ Incremental(previous, desired)[r].inputs = desired[r].inputs
              /\ \/ Incremental(previous, desired)[r] = desired[r]
                 \/ r = "mobility"
              /\ \/ Incremental(previous, desired)[r] = desired[r]
                 \/ Incremental(previous, desired)[r] = previous[r]
<1> DEFINE result == Incremental(previous, desired)
           changed == Changed(previous, desired)
           D == DOMAIN previous
           seeds == ChangedInputIds(changed, previous)
           narrowed == InputsOf(previous, changed) \ InputsOf(previous, D \ changed)
           V == <<"vbb_gtfs_rt", old["vbb_gtfs_rt"]>>
           T == <<"dwd_open_data", old["dwd_open_data"]>>
           L == <<"berlin_air_quality", old["berlin_air_quality"]>>
<1>1. /\ DOMAIN result = D
      /\ \A r \in D : result[r] =
           IF previous[r].inputs \cap seeds # {} THEN desired[r] ELSE previous[r]
  BY DEF Recompute, Incremental
<1>0. changed = {r \in D : desired[r] # previous[r]}
  BY DEF Changed
<1> HIDE DEF result, changed
<1>2. /\ "mobility" \in D => previous["mobility"].inputs = {V}
      /\ "heat_air" \in D => previous["heat_air"].inputs = {T, L}
      /\ "mobility_air" \in D => previous["mobility_air"].inputs = {V, L}
  BY NeedsOf DEF InputIds
<1>3. V # T /\ V # L /\ T # L
  OBVIOUS
<1>4. D \subseteq {"mobility", "heat_air", "mobility_air"} /\ changed \subseteq D
  BY <1>0, ProductNames
<1>5. /\ narrowed # {} => seeds = narrowed
      /\ narrowed = {} => seeds = InputsOf(previous, changed)
  BY DEF ChangedInputIds
<1>6. \A r \in D \ changed : /\ previous[r] = desired[r]
                              /\ result[r] = desired[r]
  BY <1>0, <1>1
<1>7. ASSUME "heat_air" \in changed
      PROVE  result["heat_air"] = desired["heat_air"]
  <2>1. T \in InputsOf(previous, changed)
    BY <1>2, <1>4, <1>7 DEF InputsOf
  <2>2. T \notin InputsOf(previous, D \ changed)
    BY <1>2, <1>3, <1>4, <1>7 DEF InputsOf
  <2>3. T \in seeds
    BY <2>1, <2>2, <1>5
  <2> QED
    BY <2>3, <1>1, <1>2, <1>4, <1>7
<1>8. ASSUME "mobility_air" \in changed
      PROVE  result["mobility_air"] = desired["mobility_air"]
  <2>1. V \in InputsOf(previous, changed) /\ L \in InputsOf(previous, changed)
    BY <1>2, <1>4, <1>8 DEF InputsOf
  <2>2. V \in seeds \/ L \in seeds
    <3>1. CASE narrowed = {}
      BY <2>1, <3>1, <1>5
    <3>2. CASE "mobility" \in changed
      <4>1. V \notin InputsOf(previous, D \ changed)
        BY <1>2, <1>3, <1>4, <1>8, <3>2 DEF InputsOf
      <4> QED
        BY <4>1, <2>1, <1>5
    <3>3. CASE narrowed # {} /\ "mobility" \notin changed
      <4>1. PICK i : i \in narrowed
        BY <3>3
      <4>2. V \in InputsOf(previous, D \ changed)
        BY <1>2, <1>4, <1>8, <3>3 DEF InputsOf
      <4>3. "heat_air" \in changed \/ i = L
        BY <4>1, <4>2, <1>2, <1>4, <3>3 DEF InputsOf
      <4>4. L \notin InputsOf(previous, D \ changed)
        BY <4>1, <4>3, <1>2, <1>3, <1>4, <1>8 DEF InputsOf
      <4> QED
        BY <4>4, <2>1, <1>5
    <3> QED
      BY <3>1, <3>2, <3>3
  <2> QED
    BY <2>2, <1>1, <1>2, <1>4, <1>8
<1>9. ASSUME "mobility" \in changed
      PROVE  /\ result["mobility"].inputs = desired["mobility"].inputs
             /\ \/ result["mobility"] = desired["mobility"]
                \/ result["mobility"] = previous["mobility"]
  <2>1. CASE "mobility_air" \in D \ changed
    <3>1. previous["mobility_air"].inputs = desired["mobility_air"].inputs
      BY <2>1, <1>6
    <3>2. InputIds("mobility_air", old) = InputIds("mobility_air", new)
      BY <3>1, <2>1
    <3>3. <<"vbb_gtfs_rt", new["vbb_gtfs_rt"]>> \in InputIds("mobility_air", new)
      BY NeedsOf DEF InputIds
    <3>4. <<"vbb_gtfs_rt", new["vbb_gtfs_rt"]>> \in {V, L}
      BY <3>2, <3>3, <1>2, <2>1
    <3>5. old["vbb_gtfs_rt"] = new["vbb_gtfs_rt"]
      BY <3>4
    <3>6. InputIds("mobility", old) = InputIds("mobility", new)
      BY <3>5, NeedsOf DEF InputIds
    <3>7. previous["mobility"].inputs = desired["mobility"].inputs
      BY <3>6, <1>4, <1>9
    <3> QED
      BY <3>7, <1>1, <1>4, <1>9
  <2>2. CASE "mobility_air" \notin D \ changed
    <3>1. V \in InputsOf(previous, changed)
      BY <1>2, <1>4, <1>9 DEF InputsOf
    <3>2. V \notin InputsOf(previous, D \ changed)
      BY <1>2, <1>3, <1>4, <1>9, <2>2 DEF InputsOf
    <3>3. V \in seeds
      BY <3>1, <3>2, <1>5
    <3> QED
      BY <3>3, <1>1, <1>2, <1>4, <1>9
  <2> QED
    BY <2>1, <2>2
<1>10. ASSUME NEW r \in DOMAIN result
       PROVE  /\ result[r].inputs = desired[r].inputs
              /\ result[r] = desired[r] \/ r = "mobility"
              /\ result[r] = desired[r] \/ result[r] = previous[r]
  <2>1. CASE r \notin changed
    BY <1>1, <1>6, <2>1
  <2>2. CASE r \in changed
    <3>1. r \in {"mobility", "heat_air", "mobility_air"}
      BY <1>4, <2>2
    <3> QED
      BY <3>1, <2>2, <1>7, <1>8, <1>9
  <2> QED
    BY <2>1, <2>2
<1> QED
  BY <1>1, <1>10 DEF result

DerivedType(state) ==
  /\ DOMAIN state \subseteq Products
  /\ \A r \in DOMAIN state :
       /\ state[r].freshness \in Freshnesses
       /\ state[r].inputs \in SUBSET (LiveSources \X Times)

LEMMA RefreshedShape ==
  ASSUME runtime \in RuntimeState, DerivedType(derived), SameBasis,
         NEW result, result = RefreshedProducts(runtime, derived)
  PROVE  /\ DOMAIN result = Emitted(runtime)
         /\ DerivedType(result)
         /\ \A r \in DOMAIN result :
              /\ result[r].inputs = Build(runtime)[r].inputs
              /\ result[r] = Build(runtime)[r] \/ r = "mobility"
<1> DEFINE desired == Build(runtime)
<1>1. /\ DOMAIN desired = Emitted(runtime)
      /\ Emitted(runtime) \subseteq Products
      /\ \A r \in DOMAIN desired : /\ desired[r].inputs = InputIds(r, runtime.data)
                                   /\ desired[r].freshness \in Freshnesses
                                   /\ desired[r].inputs \in SUBSET (LiveSources \X Times)
  BY BuildShape
<1>2. CASE DOMAIN desired # DOMAIN derived
  <2>1. result = desired
    BY <1>2 DEF RefreshedProducts, TopologyChanged
  <2> QED
    BY <2>1, <1>1 DEF DerivedType
<1>3. CASE DOMAIN desired = DOMAIN derived
  <2>1. result = Incremental(derived, desired)
    BY <1>3 DEF RefreshedProducts, TopologyChanged, Incremental, Changed
  <2>2. PICK old \in [LiveSources -> Observed] :
          \A r \in DOMAIN derived : derived[r].inputs = InputIds(r, old)
    BY DEF SameBasis
  <2>3. runtime.data \in [LiveSources -> Observed]
    BY DEF RuntimeState
  <2>4. "mobility_air" \in DOMAIN derived => "mobility" \in DOMAIN derived
    <3>1. Emitted(runtime) =
            {r \in Products : \A s \in Needs[r] : Usable(runtime, s)}
      BY DEF Emitted, Products
    <3>2. "mobility_air" \in Emitted(runtime) => Usable(runtime, "vbb_gtfs_rt")
      BY <3>1, NeedsOf
    <3>3. Usable(runtime, "vbb_gtfs_rt") => "mobility" \in Emitted(runtime)
      BY <3>1, NeedsOf, ProductNames
    <3> QED
      BY <3>2, <3>3, <1>1, <1>3
  <2>5. DOMAIN derived \subseteq Products
    BY DEF DerivedType
  <2> HIDE DEF desired
  <2>7. /\ DOMAIN result = DOMAIN desired
        /\ \A r \in DOMAIN result :
             /\ result[r].inputs = desired[r].inputs
             /\ result[r] = desired[r] \/ r = "mobility"
             /\ result[r] = desired[r] \/ result[r] = derived[r]
    BY <1>1, <1>3, <2>1, <2>2, <2>3, <2>4, <2>5, IncrementalRefresh
  <2>8. DerivedType(result)
    BY <2>7, <1>1, <1>3 DEF DerivedType
  <2> QED
    BY <2>7, <2>8, <1>1 DEF desired
<1> QED
  BY <1>2, <1>3
-----------------------------------------------------------------------------
LEMMA InitInv == Init => Inv
<1> SUFFICES ASSUME Init PROVE Inv
  OBVIOUS
<1>1. 0 \in Times
  BY LiveWorkerAssumption DEF Times
<1>2. NoRuntime \in RuntimeState
  BY <1>1 DEF NoRuntime, RuntimeState, Observed, Freshnesses
<1>3. NoTraffic \in TrafficState
  BY DEF NoTraffic, TrafficState, Observed, Freshnesses
<1>4. DOMAIN derived = {}
  BY DEF Init, NoDerived
<1>5. WorkerTypeOK
  BY <1>1, <1>2, <1>3, <1>4 DEF Init, WorkerTypeOK
<1>6. ValidMeansRecent
  BY DEF Init, ValidMeansRecent, NoRuntime, NoTraffic
<1>7. SameBasis
  <2>1. [s \in LiveSources |-> NoTime] \in [LiveSources -> Observed]
    BY DEF Observed
  <2> QED
    BY <2>1, <1>4 DEF SameBasis
<1>8. InSleep
  BY DEF Init, InSleep
<1> QED
  BY <1>5, <1>6, <1>7, <1>8 DEF Inv

LEMMA TickInv == Inv /\ Tick => Inv'
<1> SUFFICES ASSUME Inv, Tick PROVE Inv'
  OBVIOUS
<1>1. clock' \in Times
  BY LiveWorkerAssumption DEF Inv, WorkerTypeOK, Tick, Times
<1> QED
  BY <1>1 DEF Inv, WorkerTypeOK, ValidMeansRecent, SameBasis, InSleep, FollowsRuntime,
              Tick, files

LEMMA BeginCycleInv == Inv /\ BeginCycle => Inv'
  BY DEF Inv, WorkerTypeOK, ValidMeansRecent, SameBasis, InSleep, BeginCycle, files

LEMMA AnswersType ==
  ASSUME WorkerTypeOK, NEW s \in Feeds
  PROVE  Answers(s) \subseteq Times \cup {Fails}
<1>1. Lag[s] \subseteq Nat
  BY LiveWorkerAssumption
<1>2. clock \in Nat /\ clock <= MaxTime /\ MaxTime \in Nat
  BY LiveWorkerAssumption DEF WorkerTypeOK, Times
<1>3. \A lag \in {l \in Lag[s] : l <= clock} : clock - lag \in Times
  BY <1>1, <1>2 DEF Times
<1> QED
  BY <1>3 DEF Answers

LEMMA SaveRuntimeInv == Inv /\ SaveRuntime => Inv'
<1> SUFFICES ASSUME Inv, SaveRuntime PROVE Inv'
  OBVIOUS
<1>1. PICK air \in Answers("berlin_air_quality"), dwd \in Answers("dwd_open_data"),
           vbb \in Answers("vbb_gtfs_rt"), trips \in BOOLEAN :
        LET answer == [berlin_air_quality |-> air, dwd_open_data |-> dwd,
                       vbb_gtfs_rt |-> vbb]
            data == [s \in LiveSources |-> Retained(s, answer[s])]
        IN runtime' =
             [at     |-> now,
              data   |-> data,
              trips  |-> IF vbb = Fails THEN runtime.trips ELSE trips,
              fresh  |-> [s \in LiveSources |-> Classified(data[s], now, Threshold[s])],
              errors |-> {s \in LiveSources : answer[s] = Fails}]
  BY DEF SaveRuntime
<1> DEFINE answer == [berlin_air_quality |-> air, dwd_open_data |-> dwd,
                      vbb_gtfs_rt |-> vbb]
           data == [s \in LiveSources |-> Retained(s, answer[s])]
           fresh == [s \in LiveSources |-> Classified(data[s], now, Threshold[s])]
<1>2. /\ runtime'.at = now /\ runtime'.data = data /\ runtime'.fresh = fresh
      /\ runtime' = [at |-> now, data |-> data,
                     trips |-> IF vbb = Fails THEN runtime.trips ELSE trips,
                     fresh |-> fresh,
                     errors |-> {s \in LiveSources : answer[s] = Fails}]
  BY <1>1
<1>3. ASSUME NEW s \in LiveSources
      PROVE  data[s] \in Observed
  <2>1. runtime.data[s] \in Observed
    BY DEF Inv, WorkerTypeOK, RuntimeState
  <2>2. answer[s] \in Times \cup {Fails}
    BY AnswersType DEF Inv, LiveSources, Feeds
  <2> QED
    BY <2>1, <2>2 DEF Retained, Observed
<1> HIDE DEF answer, data
<1>4. data \in [LiveSources -> Observed]
  BY <1>3 DEF data
<1>5. fresh \in [LiveSources -> Freshnesses]
  BY ClassifiedType
<1>6. runtime.trips \in BOOLEAN
  BY DEF Inv, WorkerTypeOK, RuntimeState
<1>7. (IF vbb = Fails THEN runtime.trips ELSE trips) \in BOOLEAN
  BY <1>6
<1>8. runtime' \in RuntimeState
  BY <1>2, <1>4, <1>5, <1>7 DEF RuntimeState, Inv, WorkerTypeOK
<1>9. UNCHANGED <<clock, now, traffic, derived>> /\ pc' = "traffic"
      /\ broken' = broken \ {"runtime"}
  BY DEF SaveRuntime
<1>10. WorkerTypeOK'
  BY <1>8, <1>9 DEF Inv, WorkerTypeOK
<1>11. ASSUME NEW s \in LiveSources, runtime'.fresh[s] = "valid"
       PROVE  runtime'.data[s] # NoTime
              /\ runtime'.at - runtime'.data[s] \in 0..Threshold[s]
  <2>1. Classified(data[s], now, Threshold[s]) = "valid"
    BY <1>2, <1>11
  <2>2. data[s] # NoTime /\ ~(data[s] > now) /\ now - data[s] <= Threshold[s]
    BY <2>1 DEF Classified
  <2>3. data[s] \in Int /\ now \in Int /\ Threshold[s] \in Nat
    BY <1>4, LiveWorkerAssumption DEF Inv, WorkerTypeOK, Observed, Times, NoTime
  <2> QED
    BY <2>2, <2>3, <1>2
<1>12. ValidMeansRecent'
  BY <1>9, <1>11 DEF Inv, ValidMeansRecent
<1>13. SameBasis' /\ InSleep'
  BY <1>9 DEF Inv, SameBasis, InSleep
<1> QED
  BY <1>10, <1>12, <1>13 DEF Inv

LEMMA RefreshTrafficInv == Inv /\ RefreshTraffic => Inv'
<1> SUFFICES ASSUME Inv, RefreshTraffic PROVE Inv'
  OBVIOUS
<1>1. pc' = "derived" /\ UNCHANGED <<clock, now, runtime, derived, broken>>
  BY DEF RefreshTraffic
<1>2. /\ traffic' \in TrafficState
      /\ traffic'.freshness = "valid" =>
           traffic'.succeeded /\ ~traffic'.error /\ traffic'.latest # NoTime
  <2>0. traffic \in TrafficState
    BY DEF Inv, WorkerTypeOK
  <2>1. CASE traffic' = TrafficKept
    BY <2>0, <2>1 DEF TrafficKept, TrafficState, Freshnesses
  <2>2. ASSUME NEW t \in Answers("traffic") \cup {NoTime}, t # Fails,
               traffic' = TrafficReplaced(t)
        PROVE  /\ traffic' \in TrafficState
               /\ traffic'.freshness = "valid" =>
                    traffic'.succeeded /\ ~traffic'.error /\ traffic'.latest # NoTime
    <3>1. t \in Observed
      BY <2>2, AnswersType DEF Inv, Feeds, Observed
    <3> QED
      BY <2>2, <3>1 DEF TrafficReplaced, TrafficState, Freshnesses
  <2> QED
    BY <2>1, <2>2 DEF RefreshTraffic
<1> QED
  BY <1>1, <1>2 DEF Inv, WorkerTypeOK, ValidMeansRecent, SameBasis, InSleep

LEMMA RefreshDerivedInv == Inv /\ RefreshDerived => Inv'
<1> SUFFICES ASSUME Inv, RefreshDerived PROVE Inv'
  OBVIOUS
<1>1. /\ pc' = "sleep" /\ UNCHANGED <<clock, now, runtime, traffic, broken>>
      /\ derived' = RefreshedProducts(runtime, derived)
  BY DEF RefreshDerived
<1>2. runtime \in RuntimeState /\ DerivedType(derived) /\ SameBasis
  BY DEF Inv, WorkerTypeOK, DerivedType, Products
<1>3. /\ DOMAIN derived' = Emitted(runtime)
      /\ DerivedType(derived')
      /\ \A r \in DOMAIN derived' :
           /\ derived'[r].inputs = Build(runtime)[r].inputs
           /\ derived'[r] = Build(runtime)[r] \/ r = "mobility"
  BY <1>1, <1>2, RefreshedShape
<1>4. WorkerTypeOK'
  BY <1>1, <1>3 DEF Inv, WorkerTypeOK, DerivedType, Products
<1>5. ValidMeansRecent'
  BY <1>1 DEF Inv, ValidMeansRecent
<1>6. SameBasis'
  <2>1. runtime.data \in [LiveSources -> Observed]
    BY <1>2 DEF RuntimeState
  <2>2. \A r \in DOMAIN derived' : derived'[r].inputs = InputIds(r, runtime.data)
    BY <1>2, <1>3, BuildShape
  <2> QED
    BY <2>1, <2>2 DEF SameBasis
<1>7. InSleep'
  BY <1>1, <1>3 DEF InSleep, FollowsRuntime
<1> QED
  BY <1>4, <1>5, <1>6, <1>7 DEF Inv

LEMMA RestartInv == Inv /\ (LoadRaises \/ Crash) => Inv'
  BY DEF Inv, WorkerTypeOK, ValidMeansRecent, SameBasis, InSleep, LoadRaises, Crash, files

LEMMA BreakInv ==
  ASSUME Inv, NEW s \in Stores, Break(s)
  PROVE  Inv'
<1>1. broken' \subseteq Stores
  BY DEF Inv, WorkerTypeOK, Break
<1> QED
  BY <1>1 DEF Inv, WorkerTypeOK, ValidMeansRecent, SameBasis, InSleep, FollowsRuntime,
              Break, files

LEMMA RemoveInv ==
  ASSUME Inv, NEW s \in Stores, Remove(s)
  PROVE  Inv'
<1>1. /\ pc' = "start" /\ UNCHANGED <<clock, now>> /\ broken' = broken \ {s}
      /\ runtime' \in {runtime, NoRuntime}
      /\ traffic' \in {traffic, NoTraffic}
      /\ derived' \in {derived, NoDerived}
  BY DEF Remove
<1>2. NoRuntime \in RuntimeState
  <2>1. 0 \in Times
    BY LiveWorkerAssumption DEF Times
  <2> QED
    BY <2>1 DEF NoRuntime, RuntimeState, Observed, Freshnesses
<1>3. NoTraffic \in TrafficState
  BY DEF NoTraffic, TrafficState, Observed, Freshnesses
<1>4. DOMAIN NoDerived = {}
  BY DEF NoDerived
<1>5. WorkerTypeOK'
  BY <1>1, <1>2, <1>3, <1>4 DEF Inv, WorkerTypeOK
<1>6. ValidMeansRecent'
  BY <1>1 DEF Inv, ValidMeansRecent, NoRuntime, NoTraffic
<1>7. SameBasis'
  BY <1>1, <1>4 DEF Inv, SameBasis
<1>8. InSleep'
  BY <1>1 DEF InSleep
<1> QED
  BY <1>5, <1>6, <1>7, <1>8 DEF Inv

LEMMA StepInv == Inv /\ [Next]_vars => Inv'
<1> SUFFICES ASSUME Inv, [Next]_vars PROVE Inv'
  OBVIOUS
<1>1. CASE Tick
  BY <1>1, TickInv
<1>2. CASE WorkerStep
  BY <1>2, BeginCycleInv, SaveRuntimeInv, RefreshTrafficInv, RefreshDerivedInv,
     RestartInv DEF WorkerStep
<1>3. CASE Crash
  BY <1>3, RestartInv
<1>4. CASE \E s \in Stores : Break(s) \/ Remove(s)
  BY <1>4, BreakInv, RemoveInv
<1>5. CASE UNCHANGED vars
  BY <1>5 DEF vars, files, Inv, WorkerTypeOK, ValidMeansRecent, SameBasis, InSleep,
              FollowsRuntime
<1> QED
  BY <1>1, <1>2, <1>3, <1>4, <1>5 DEF Next

(***************************************************************************)
(* The inductive invariant of the worker: the derived records always come  *)
(* from one set of observations, and follow the runtime state in sleep.    *)
(***************************************************************************)
THEOREM Invariance == Spec => []Inv
  BY InitInv, StepInv, PTL DEF Spec

(***************************************************************************)
(* The three stores always hold well-formed states.                        *)
(***************************************************************************)
THEOREM TypeCorrectness == Spec => []WorkerTypeOK
<1>1. Inv => WorkerTypeOK
  BY DEF Inv
<1> QED
  BY <1>1, Invariance, PTL

(***************************************************************************)
(* shared/source_status.py: valid means recent, whatever was retained.     *)
(***************************************************************************)
THEOREM Recency == Spec => []ValidMeansRecent
<1>1. Inv => ValidMeansRecent
  BY DEF Inv
<1> QED
  BY <1>1, Invariance, PTL

(***************************************************************************)
(* runtime/derived_refresh.py: after every complete cycle the derived      *)
(* products have the inputs of the runtime state, and all of them but      *)
(* mobility are exactly those built from it.                               *)
(***************************************************************************)
THEOREM Consistency == Spec => []ContextFollowsRuntime
<1>1. Inv => ContextFollowsRuntime
  BY DEF Inv, InSleep, ContextFollowsRuntime
<1> QED
  BY <1>1, Invariance, PTL

(***************************************************************************)
(* runtime/refresh.py and runtime/traffic_disruption_refresh.py: a failed  *)
(* acquisition takes nothing away.                                         *)
(***************************************************************************)
THEOREM LastKnownGoodKept == Spec => FailureTakesNothing
<1>1. ASSUME SaveRuntime, NEW s \in runtime'.errors
      PROVE  runtime'.data[s] = runtime.data[s]
  BY <1>1 DEF SaveRuntime, Retained
<1>2. ASSUME Inv, RefreshTraffic, traffic'.error
      PROVE  traffic'.latest = traffic.latest
  <2>1. traffic \in TrafficState
    BY <1>2 DEF Inv, WorkerTypeOK
  <2>2. traffic' = TrafficKept \/ \E t \in Observed \cup {Fails} : traffic' = TrafficReplaced(t)
    BY <1>2, AnswersType DEF RefreshTraffic, Feeds, Observed, Inv
  <2>3. traffic' = TrafficKept
    BY <1>2, <2>2 DEF TrafficReplaced
  <2> QED
    BY <2>1, <2>3 DEF TrafficKept, TrafficState
<1>3. Inv /\ [Next]_vars =>
        [/\ SaveRuntime =>
              \A s \in runtime'.errors : runtime'.data[s] = runtime.data[s]
         /\ RefreshTraffic /\ traffic'.error => traffic'.latest = traffic.latest]_vars
  BY <1>1, <1>2
<1> QED
  BY <1>3, Invariance, PTL DEF Spec, FailureTakesNothing
-----------------------------------------------------------------------------
\* The derived products have the inputs of the runtime state, and but for
\* mobility its freshness.
NearlyFollows ==
  /\ DOMAIN derived = Emitted(runtime)
  /\ \A r \in DOMAIN derived :
       /\ derived[r].inputs = Build(runtime)[r].inputs
       /\ FollowsRuntime(r) \/ r = "mobility"

\* How many refreshes it may take until they follow the runtime state.
Distance ==
  CASE derived = Build(runtime) -> 0
    [] derived # Build(runtime) /\ NearlyFollows -> 1
    [] OTHER -> 2

\* Where only the freshness of mobility differs, its input is the changed one.
LEMMA RefreshHeals ==
  ASSUME runtime \in RuntimeState, NearlyFollows
  PROVE  RefreshedProducts(runtime, derived) = Build(runtime)
<1> DEFINE desired == Build(runtime)
           D == DOMAIN derived
           changed == Changed(derived, desired)
           seeds == ChangedInputIds(changed, derived)
           V == <<"vbb_gtfs_rt", runtime.data["vbb_gtfs_rt"]>>
<1>1. /\ DOMAIN desired = D
      /\ desired = [r \in D |-> desired[r]]
      /\ \A r \in D : derived[r].inputs = InputIds(r, runtime.data)
      /\ \A r \in D : derived[r] = desired[r] \/ r = "mobility"
  <2>1. /\ DOMAIN desired = D
        /\ \A r \in D : derived[r].inputs = InputIds(r, runtime.data)
    BY BuildShape DEF NearlyFollows
  <2>2. desired = [r \in D |-> desired[r]]
    BY <2>1 DEF Build
  <2> QED
    BY <2>1, <2>2 DEF NearlyFollows, FollowsRuntime
<1>2. RefreshedProducts(runtime, derived) =
        [r \in D |-> IF derived[r].inputs \cap seeds # {} THEN desired[r] ELSE derived[r]]
  BY <1>1 DEF RefreshedProducts, TopologyChanged, Recompute, Changed
<1>3. changed = {r \in D : desired[r] # derived[r]}
  BY <1>1 DEF Changed
<1> HIDE DEF desired, changed
<1>4. ASSUME "mobility" \in D, desired["mobility"] # derived["mobility"]
      PROVE  V \in seeds /\ V \in derived["mobility"].inputs
  <2>1. changed = {"mobility"}
    BY <1>1, <1>3, <1>4
  <2>2. derived["mobility"].inputs = {V}
    BY <1>1, <1>4, NeedsOf DEF InputIds
  <2>3. InputsOf(derived, changed) = {V}
    BY <2>1, <2>2 DEF InputsOf
  <2>4. seeds = {V}
    BY <2>3 DEF ChangedInputIds
  <2> QED
    BY <2>2, <2>4
<1>5. ASSUME NEW r \in D
      PROVE  (IF derived[r].inputs \cap seeds # {} THEN desired[r] ELSE derived[r])
               = desired[r]
  BY <1>1, <1>4, <1>5
<1>6. RefreshedProducts(runtime, derived) = [r \in D |-> desired[r]]
  BY <1>2, <1>5
<1> QED
  BY <1>1, <1>6 DEF desired

(***************************************************************************)
(* runtime/derived_refresh.py: every refresh brings the derived products   *)
(* nearer to the runtime state, which they follow after two at the latest, *)
(* and nothing takes them away from it again but a new runtime state or    *)
(* the removal of a file: the safety half of DerivedCatchesUp.             *)
(***************************************************************************)
ComesNearer ==
  [][/\ RefreshDerived => Distance' = 0 \/ Distance' < Distance
     /\ runtime' = runtime /\ (\A s \in Stores : ~Remove(s)) => Distance' <= Distance]_vars

THEOREM RefreshesHeal == Spec => ComesNearer
<1>1. ASSUME Inv, RefreshDerived
      PROVE  Distance' = 0 \/ Distance' < Distance
  <2>1. /\ runtime' = runtime
        /\ derived' = RefreshedProducts(runtime, derived)
        /\ runtime \in RuntimeState /\ DerivedType(derived) /\ SameBasis
    BY <1>1 DEF RefreshDerived, Inv, WorkerTypeOK, DerivedType, Products
  <2>2. CASE NearlyFollows
    <3>1. derived' = Build(runtime')
      BY <2>1, <2>2, RefreshHeals
    <3> QED
      BY <3>1 DEF Distance
  <2>3. CASE derived = Build(runtime)
    <3>1. NearlyFollows
      BY <2>1, <2>3, BuildShape DEF NearlyFollows, FollowsRuntime
    <3> QED
      BY <2>2, <3>1
  <2>4. CASE ~NearlyFollows /\ derived # Build(runtime)
    <3>1. Distance = 2
      BY <2>4 DEF Distance
    <3>2. NearlyFollows'
      BY <2>1, RefreshedShape DEF NearlyFollows, FollowsRuntime
    <3>3. Distance' \in {0, 1}
      BY <3>2 DEF Distance
    <3> QED
      BY <3>1, <3>3
  <2> QED
    BY <2>2, <2>3, <2>4
<1>2. ASSUME Inv, [Next]_vars, runtime' = runtime, \A s \in Stores : ~Remove(s)
      PROVE  Distance' <= Distance
  <2>1. Distance \in 0..2 /\ Distance' \in 0..2
    BY DEF Distance
  <2>2. ASSUME derived' = derived PROVE Distance' = Distance
    BY <1>2, <2>2 DEF Distance, NearlyFollows, FollowsRuntime
  <2>3. CASE RefreshDerived
    BY <1>1, <1>2, <2>1, <2>3
  <2>4. CASE derived' = derived
    BY <2>1, <2>2, <2>4
  <2>5. RefreshDerived \/ derived' = derived
    BY <1>2 DEF Next, WorkerStep, Tick, BeginCycle, SaveRuntime, RefreshTraffic,
                LoadRaises, Crash, Break, files, vars
  <2> QED
    BY <2>3, <2>4, <2>5
<1>3. Inv /\ [Next]_vars =>
        [/\ RefreshDerived => Distance' = 0 \/ Distance' < Distance
         /\ runtime' = runtime /\ (\A s \in Stores : ~Remove(s))
              => Distance' <= Distance]_vars
  BY <1>1, <1>2
<1> QED
  BY <1>3, Invariance, PTL DEF Spec, ComesNearer
-----------------------------------------------------------------------------
\* The steps of the worker up to and with its next save of live data.
StepsToSave ==
  CASE pc = "traffic" -> 4
    [] pc = "derived" -> 3
    [] pc \in {"sleep", "start"} -> 2
    [] OTHER -> 1

(***************************************************************************)
(* The safety half of LiveDataGoesOn: as long as the file of the live      *)
(* state loads, and the worker is not killed, every step of the worker     *)
(* brings its next save of live data nearer, the death and restart over    *)
(* any other broken file included, and nobody else's step takes it away.   *)
(***************************************************************************)
SaveComesNearer ==
  [][/\ "runtime" \notin broken /\ WorkerStep =>
          SaveRuntime \/ StepsToSave' < StepsToSave
     /\ ~WorkerStep /\ ~Crash => StepsToSave' = StepsToSave
     /\ StepsToSave' > StepsToSave =>
          Crash \/ SaveRuntime]_vars

THEOREM SavesGoOn == Spec => SaveComesNearer
<1>1. ASSUME Inv, "runtime" \notin broken, WorkerStep, ~SaveRuntime
      PROVE  StepsToSave' < StepsToSave
  <2>1. CASE BeginCycle
    BY <2>1 DEF BeginCycle, StepsToSave
  <2>2. CASE RefreshTraffic
    BY <2>2 DEF RefreshTraffic, StepsToSave
  <2>3. CASE RefreshDerived
    BY <2>3 DEF RefreshDerived, StepsToSave
  <2>4. CASE LoadRaises
    <3>1. pc \in {"traffic", "derived"} /\ pc' = "start"
      BY <1>1, <2>4 DEF LoadRaises, Loads
    <3> QED
      BY <3>1 DEF StepsToSave
  <2> QED
    BY <1>1, <2>1, <2>2, <2>3, <2>4 DEF WorkerStep
<1>2. ASSUME Next, ~WorkerStep, ~Crash
      PROVE  StepsToSave' = StepsToSave
  <2>1. pc' = pc
    BY <1>2 DEF Next, Tick, Break, Remove
  <2> QED
    BY <2>1 DEF StepsToSave
<1>3. ASSUME Inv, Next, StepsToSave' > StepsToSave
      PROVE  Crash \/ SaveRuntime
  <2> SUFFICES ASSUME ~Crash, ~SaveRuntime PROVE FALSE
    OBVIOUS
  <2>1. WorkerStep
    BY <1>2, <1>3 DEF StepsToSave
  <2>2. CASE BeginCycle
    BY <1>3, <2>2 DEF BeginCycle, StepsToSave
  <2>3. CASE RefreshTraffic
    BY <1>3, <2>3 DEF RefreshTraffic, StepsToSave
  <2>4. CASE RefreshDerived
    BY <1>3, <2>4 DEF RefreshDerived, StepsToSave
  <2>5. CASE LoadRaises
    <3>1. pc \in {"sleep", "traffic", "derived"} /\ pc' = "start"
      BY <2>5 DEF LoadRaises, Loads
    <3> QED
      BY <1>3, <3>1 DEF StepsToSave
  <2> QED
    BY <2>1, <2>2, <2>3, <2>4, <2>5 DEF WorkerStep
<1>4. Inv /\ [Next]_vars =>
        [/\ "runtime" \notin broken /\ WorkerStep =>
              SaveRuntime \/ StepsToSave' < StepsToSave
         /\ ~WorkerStep /\ ~Crash => StepsToSave' = StepsToSave
         /\ StepsToSave' > StepsToSave =>
              Crash \/ SaveRuntime]_vars
  BY <1>1, <1>2, <1>3
<1> QED
  BY Invariance, <1>4, PTL DEF Spec, SaveComesNearer
=============================================================================
