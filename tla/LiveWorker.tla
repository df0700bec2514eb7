----------------------------- MODULE LiveWorker -----------------------------
(***************************************************************************)
(* scripts/refresh_live.py: the acquisition worker.  Each cycle refreshes  *)
(* the live sources (runtime/refresh.py) and saves the runtime state, then *)
(* the road disruptions (runtime/traffic_disruption_refresh.py), then the  *)
(* derived products (runtime/derived_refresh.py), each from the previous   *)
(* state of its own store.  Any exception ends the process; the compose    *)
(* service starts it again.                                                *)
(*                                                                         *)
(* The worker is the only writer of its stores, so the state it holds in   *)
(* memory between two saves is the one on disk.  Times are whole units of  *)
(* a bounded clock.  A payload is its observation time: reports with the   *)
(* same time are taken to be equal.  An absent file and the empty state    *)
(* are identified.                                                         *)
(* Definitions marked "slip" are wrong variants of the one that follows.   *)
(***************************************************************************)
EXTENDS DerivedProducts

CONSTANTS
  MaxTime,           \* bounds the clock
  Threshold,         \* Threshold[s]: freshness threshold of live source s
  TrafficThreshold,  \* content_freshness_threshold of the road disruptions
  Lag,               \* Lag[s]: how old the answers of a feed are in an instance
  Failing,           \* the feeds that may fail in an instance
  Breakable          \* the stores whose file may be broken from outside

Stores == {"runtime", "traffic", "derived"}
Feeds == LiveSources \cup {"traffic"}

ASSUME LiveWorkerAssumption ==
  /\ MaxTime \in Nat
  /\ Threshold \in [LiveSources -> Nat]
  /\ TrafficThreshold \in Nat
  /\ Lag \in [Feeds -> SUBSET Nat]
  /\ Failing \subseteq Feeds
  /\ Breakable \subseteq Stores

VARIABLES
  clock,
  pc,        \* the next step of the worker
  now,       \* what now_factory returned at the start of the cycle
  runtime,   \* state.json
  traffic,   \* traffic-disruptions.json
  derived,   \* derived.json: the records by id
  broken     \* the stores whose file does not load

files == <<runtime, traffic, derived>>
vars == <<clock, pc, now, files, broken>>

Times == 0..MaxTime
Observed == Times \cup {NoTime}
Fails == -2

RuntimeState ==
  [at     : Times,                       \* generated_at
   data   : [LiveSources -> Observed],   \* observations and mobility snapshot
   trips  : BOOLEAN,                     \* the snapshot has trip updates
   fresh  : [LiveSources -> Freshnesses],
   errors : SUBSET LiveSources]

TrafficState ==
  [latest    : Observed,   \* latest_source_update_at of the disruptions
   succeeded : BOOLEAN,    \* last_success_at is set
   error     : BOOLEAN,
   freshness : Freshnesses]

WorkerTypeOK ==
  /\ clock \in Times /\ now \in Times
  /\ pc \in {"start", "fetch", "traffic", "derived", "sleep"}
  /\ runtime \in RuntimeState
  /\ traffic \in TrafficState
  /\ DOMAIN derived \subseteq DOMAIN Needs
  /\ \A r \in DOMAIN derived :
       /\ derived[r].freshness \in Freshnesses
       /\ derived[r].inputs \in SUBSET (LiveSources \X Times)
  /\ broken \subseteq Stores

NoRuntime ==
  [at |-> 0, data |-> [s \in LiveSources |-> NoTime], trips |-> FALSE,
   fresh |-> [s \in LiveSources |-> "unknown"], errors |-> {}]
NoTraffic ==
  [latest |-> NoTime, succeeded |-> FALSE, error |-> FALSE, freshness |-> "unknown"]
NoDerived == [r \in {} |-> {}]

Init ==
  /\ clock = 0 /\ now = 0
  /\ pc = "start"
  /\ runtime = NoRuntime
  /\ traffic = NoTraffic
  /\ derived = NoDerived
  /\ broken = {}

Tick ==
  /\ clock < MaxTime
  /\ clock' = clock + 1
  /\ UNCHANGED <<pc, now, files, broken>>
-----------------------------------------------------------------------------
\* refresh_once: the previous state is loaded and the time is taken; the
\* sources are asked after that.
BeginCycle ==
  /\ pc \in {"start", "sleep"}
  /\ "runtime" \notin broken
  /\ now' = clock
  /\ pc' = "fetch"
  /\ UNCHANGED <<clock, files, broken>>

\* What a feed may answer, and that it may not.
Answers(s) ==
  {clock - lag : lag \in {l \in Lag[s] : l <= clock}}
    \cup (IF s \in Failing THEN {Fails} ELSE {})

\* slip: the refresh starts without the observations of the previous state
OnlyFetched(s, answer) == IF answer = Fails THEN NoTime ELSE answer
\* A source that answers replaces its agent's data, one that fails keeps it.
Retained(s, answer) == IF answer = Fails THEN runtime.data[s] ELSE answer

\* RefreshCoordinator.refresh and the save: every source on its own.
SaveRuntime ==
  /\ pc = "fetch"
  /\ \E air \in Answers("berlin_air_quality"), dwd \in Answers("dwd_open_data"),
        vbb \in Answers("vbb_gtfs_rt"), trips \in BOOLEAN :
       LET answer == [berlin_air_quality |-> air, dwd_open_data |-> dwd,
                      vbb_gtfs_rt |-> vbb]
           data == [s \in LiveSources |-> Retained(s, answer[s])]
       IN
       runtime' =
         [at     |-> now,
          data   |-> data,
          trips  |-> IF vbb = Fails THEN runtime.trips ELSE trips,
          fresh  |-> [s \in LiveSources |-> Classified(data[s], now, Threshold[s])],
          errors |-> {s \in LiveSources : answer[s] = Fails}]
  /\ broken' = broken \ {"runtime"}
  /\ pc' = "traffic"
  /\ UNCHANGED <<clock, now, traffic, derived>>
-----------------------------------------------------------------------------
\* The acquisition of the road disruptions fails: they are kept, not current.
TrafficKept ==
  [traffic EXCEPT !.error = TRUE,
                  !.freshness = IF traffic.succeeded THEN "stale" ELSE "unavailable"]

\* It succeeds: a publisher's time a little ahead of now is tolerated, which
\* is less than a unit of the clock.
TrafficReplaced(latest) ==
  [latest |-> latest, succeeded |-> TRUE, error |-> FALSE,
   freshness |-> CASE latest = NoTime -> "unknown"
                   [] latest # NoTime /\ clock - latest <= TrafficThreshold -> "valid"
                   [] OTHER -> "stale"]

RefreshTraffic ==
  /\ pc = "traffic"
  /\ "traffic" \notin broken
  /\ \/ \E t \in Answers("traffic") \cup {NoTime} :
          t # Fails /\ traffic' = TrafficReplaced(t)
     \/ "traffic" \in Failing /\ traffic' = TrafficKept
  /\ pc' = "derived"
  /\ UNCHANGED <<clock, now, runtime, derived, broken>>

RefreshDerived ==
  /\ pc = "derived"
  /\ "derived" \notin broken
  /\ derived' = RefreshedProducts(runtime, derived)
  /\ pc' = "sleep"
  /\ UNCHANGED <<clock, now, runtime, traffic, broken>>
-----------------------------------------------------------------------------
\* The load at the head of the next refresh raises, and the process ends.
Loads == [start |-> "runtime", sleep |-> "runtime",
          traffic |-> "traffic", derived |-> "derived"]

\* slip: the worker waits for the file
LoadWaits ==
  /\ pc \in DOMAIN Loads /\ Loads[pc] \in broken
  /\ UNCHANGED vars
LoadRaises ==
  /\ pc \in DOMAIN Loads \ {"start"}
  /\ Loads[pc] \in broken
  /\ pc' = "start"
  /\ UNCHANGED <<clock, now, files, broken>>

\* Killed, or a save failed.
Crash ==
  /\ pc # "start"
  /\ pc' = "start"
  /\ UNCHANGED <<clock, now, files, broken>>

\* A file is edited, or is left from another schema version.
Break(s) ==
  /\ s \in Breakable \ broken
  /\ broken' = broken \cup {s}
  /\ UNCHANGED <<clock, pc, now, files>>

\* The operator stops the worker and removes it.
Remove(s) ==
  /\ pc = "start"
  /\ s \in broken
  /\ broken' = broken \ {s}
  /\ runtime' = IF s = "runtime" THEN NoRuntime ELSE runtime
  /\ traffic' = IF s = "traffic" THEN NoTraffic ELSE traffic
  /\ derived' = IF s = "derived" THEN NoDerived ELSE derived
  /\ UNCHANGED <<clock, pc, now>>

WorkerStep ==
  \/ BeginCycle
  \/ SaveRuntime
  \/ RefreshTraffic
  \/ RefreshDerived
  \/ LoadRaises

Next ==
  \/ Tick
  \/ WorkerStep
  \/ Crash
  \/ \E s \in Stores : Break(s) \/ Remove(s)

Spec == Init /\ [][Next]_vars

\* The loop runs on and `restart: unless-stopped` starts it again.
FairSpec == Spec /\ WF_vars(WorkerStep)
-----------------------------------------------------------------------------
(***************************************************************************)
(* Whatever is retained through failures of its source, crashes and        *)
(* restarts, "valid" means recent: a live source is reported valid only    *)
(* with an observation within its threshold at the time of the report,     *)
(* road disruptions only if the last acquisition succeeded.                *)
(***************************************************************************)
ValidMeansRecent ==
  /\ \A s \in LiveSources : runtime.fresh[s] = "valid" =>
       runtime.data[s] # NoTime /\ runtime.at - runtime.data[s] \in 0..Threshold[s]
  /\ traffic.freshness = "valid" =>
       traffic.succeeded /\ ~traffic.error /\ traffic.latest # NoTime

(***************************************************************************)
(* runtime/refresh.py: "a failure in one source ... does not turn another  *)
(* domain's valid observation into missing data", and neither its own: a   *)
(* save takes nothing away from a source that it records as failed.        *)
(***************************************************************************)
FailureTakesNothing ==
  [][/\ SaveRuntime =>
          \A s \in runtime'.errors : runtime'.data[s] = runtime.data[s]
     /\ RefreshTraffic /\ traffic'.error => traffic'.latest = traffic.latest]_vars

FollowsRuntime(r) == derived[r] = Build(runtime)[r]

(***************************************************************************)
(* After every complete cycle, whatever crashed or was removed before it,  *)
(* the derived products are exactly those of the runtime state, with its   *)
(* inputs, and the products of two sources are in full agreement with it.  *)
(* What the incremental refresh may leave behind is the freshness of the   *)
(* product of one source.                                                  *)
(***************************************************************************)
ContextFollowsRuntime ==
  pc = "sleep" /\ broken = {} =>
    /\ DOMAIN derived = Emitted(runtime)
    /\ \A r \in DOMAIN derived :
         /\ derived[r].inputs = Build(runtime)[r].inputs
         /\ FollowsRuntime(r) \/ r = "mobility"

UndisturbedAtLast == <>[][~Crash]_vars /\ <>[](broken = {})

(***************************************************************************)
(* The incremental refresh heals: once the runtime state stays the same,   *)
(* every derived product comes to agree with it and stays so.              *)
(***************************************************************************)
DerivedCatchesUp ==
  UndisturbedAtLast /\ <>[][UNCHANGED runtime]_runtime =>
    <>[](derived = Build(runtime))

(***************************************************************************)
(* A broken disruption or derived file makes the worker die in every cycle *)
(* but, with its restarts, does not stop the acquisition of live data.     *)
(***************************************************************************)
LiveDataGoesOn ==
  <>[][~Crash]_vars /\ <>[]("runtime" \notin broken) => []<><<SaveRuntime>>_vars

(***************************************************************************)
(* runtime/derived_refresh.py: the fallback is there "so a real change is  *)
(* never silently suppressed": after a complete cycle every derived        *)
(* product is that of the runtime state.                                   *)
(***************************************************************************)
DerivedFollowsRuntime ==
  pc = "sleep" /\ broken = {} => derived = Build(runtime)
=============================================================================
