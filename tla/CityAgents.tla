----------------------------- MODULE CityAgents -----------------------------
(***************************************************************************)
(* The domain agents behind the API (agents/), which are rebuilt when a    *)
(* store changes, and what is asked of them: agents/health, which passes   *)
(* through the shared live-state agent, the workflows of the orchestrator, *)
(* comparisons and accessibility under a scenario, and the assessment of   *)
(* several domains; and scripts/evaluate_energy.py, which writes one of    *)
(* the stores.                                                             *)
(*                                                                         *)
(* Reading the stores and assigning the fields is one step here: modules   *)
(* SnapshotReload and ApiController are about that.  Only agents/health    *)
(* writes shared memory, so only its requests are interleaved; the others  *)
(* are single steps, taken while none of them is under way.  Of the DWD    *)
(* record all observations have one time; its 2 m temperature may be       *)
(* missing, of a quality that is not used (invalid, stale), or foreign: in *)
(* another unit than Celsius or no number.  A reference state whose nodes  *)
(* are not all placed is served only if no critical routes are built from  *)
(* it (ApiController).                                                     *)
(* Definitions marked "slip" are wrong variants of the one that follows.   *)
(***************************************************************************)
EXTENDS EnergyForecast, ScenarioRouting

CONSTANTS
  Runtimes,     \* runtime states: records of air, heat, temperature, vbb, trips
  References,   \* reference states: records of edges, nodes, placed and node
  Loads, Scores,             \* published loads; scores of the models
  Scenarios, Budgets,
  AirThreshold, HeatThreshold, MobilityThreshold,
  Threads,      \* of agents/health
  FirstTime, MaxTime,        \* bound the clock
  MaxReloads    \* bounds the rebuilds of the agents

\* What None is not.
Domains == {"mobility", "exposure", "heat", "energy", "resilience"}
Questions == {"compare", "access", "workflow", "assess"}
AnswersByDimension == UNION {[D -> {"result", "unavailable"}] : D \in SUBSET Domains}

ASSUME CityAssumption ==
  /\ IsFiniteSet(Nodes) /\ MaxPenalty \in Nat
  /\ FirstTime \in Nat /\ MaxTime \in Nat /\ FirstTime <= MaxTime
  /\ MaxReloads \in Nat
  /\ AirThreshold \in Nat /\ HeatThreshold \in Nat /\ MobilityThreshold \in Nat
  /\ \A r \in Runtimes :
       /\ \A at \in {r.air, r.heat, r.vbb} : at # None => at \in Int
       /\ r.temperature \in {"missing", "unused", "celsius", "foreign"}
       /\ r.trips \in BOOLEAN
  /\ \A ref \in References :
       /\ ref.nodes \subseteq Nodes /\ ref.placed \in BOOLEAN
       /\ \A e \in ref.edges :
            e \in [id : {e.id}, source : ref.nodes, target : ref.nodes,
                  both : BOOLEAN, time : Nat]
       /\ \A f \in DOMAIN ref.node : ref.node[f] \in ref.nodes \cup {Far}
  /\ \A load \in Loads :
       load.format \in {"annual", "local", "aware"} /\ load.labels \in Seq(Int)
  /\ \A scores \in Scores : scores \in [1..4 -> [mae : Nat, rmse : Nat]]
  /\ Budgets \subseteq Nat
  /\ None \notin Questions \cup AnswersByDimension

VARIABLES
  clock,
  energyFile,  \* energy.json
  served,      \* the runtime, reference and energy state of the agents
  roads,       \* the graph of the resilience agent
  generation,  \* which agents app.state has
  summary,     \* summary[g]: _last of the live-state agent of generation g
  request,     \* request[t]: the agents/health request of thread t
  answer       \* the last answer of another endpoint, and to what; the result
               \* is None if the request was refused or failed

vars == <<clock, energyFile, served, roads, generation, summary, request, answer>>

Idle == [pc |-> "idle"]
NoAnswer == [asked |-> None]

Init ==
  /\ clock = FirstTime
  /\ energyFile = None
  /\ served \in [runtime : Runtimes, reference : References, energy : {None}]
  /\ roads = served.reference.edges
  /\ generation = 0
  /\ summary = [g \in 0..MaxReloads |-> None]
  /\ request = [t \in Threads |-> Idle]
  /\ answer = NoAnswer

Tick ==
  /\ clock < MaxTime
  /\ clock' = clock + 1
  /\ answer' = NoAnswer
  /\ UNCHANGED <<energyFile, served, roads, generation, summary, request>>

\* evaluate_energy.main: a load that is refused raises before the save.  The
\* value is what the model says, and may be negative.
Results ==
  {EnergyStateOf(q[1], q[2], q[3]) :
     q \in {x \in Loads \X Scores \X BOOLEAN : Evaluated(x[1], x[2])}}

EvaluateEnergy ==
  /\ generation < MaxReloads   \* else no agent would be built from it
  /\ energyFile' \in Results
  /\ answer' = NoAnswer
  /\ UNCHANGED <<clock, served, roads, generation, summary, request>>

\* _apply and _build_agents: all agents are new, the live-state agent too.
Rebuild ==
  /\ generation < MaxReloads
  /\ generation' = generation + 1
  /\ \E runtime \in Runtimes, reference \in References :
       /\ served' = [runtime |-> runtime, reference |-> reference, energy |-> energyFile]
       /\ roads' = reference.edges
  /\ answer' = NoAnswer
  /\ UNCHANGED <<clock, energyFile, summary, request>>
-----------------------------------------------------------------------------
\* The health of each agent: its status and the freshness of what it has.
Health(status, freshness) == [status |-> status, freshness |-> freshness]
Unavailable == Health("unavailable", "unavailable")

\* classify_freshness: what is ahead of now is neither.
Freshness(at, threshold) ==
  CASE at > clock -> "unknown"
    [] at <= clock /\ clock - at <= threshold -> "valid"
    [] OTHER -> "stale"

Observing(at, threshold) ==
  Health(IF Freshness(at, threshold) = "valid" THEN "available" ELSE "degraded",
         Freshness(at, threshold))

ExposureHealth(state) ==
  IF state.runtime.air = None THEN Unavailable
  ELSE Observing(state.runtime.air, AirThreshold)

HeatHealth(state) ==
  IF state.runtime.heat = None THEN Unavailable
  ELSE Observing(state.runtime.heat, HeatThreshold)

\* A feed without trip updates is no evidence of normal operation.
MobilityHealth(state) ==
  IF state.runtime.vbb = None THEN Unavailable
  ELSE IF state.runtime.trips THEN Observing(state.runtime.vbb, MobilityThreshold)
  ELSE Health("degraded", Freshness(state.runtime.vbb, MobilityThreshold))

\* A forecast keeps the agent available after its time, with that freshness.
EnergyHealth(state) ==
  IF state.energy = None THEN Unavailable
  ELSE Health("available", IF state.energy.valid >= clock THEN "valid" ELSE "stale")

ResilienceHealth(state) ==
  IF state.reference.edges = {} THEN Unavailable ELSE Health("available", "unknown")

DomainHealth(state) ==
  [mobility |-> MobilityHealth(state), exposure |-> ExposureHealth(state),
   heat |-> HeatHealth(state), energy |-> EnergyHealth(state),
   resilience |-> ResilienceHealth(state)]

\* LiveStateAgent.snapshot and Orchestrator.execute.
Overall(statuses) ==
  CASE statuses = {} -> "unknown"
    [] statuses = {"available"} -> "available"
    [] "available" \in statuses /\ statuses # {"available"} -> "degraded"
    [] "available" \notin statuses /\ "degraded" \in statuses -> "degraded"
    [] OTHER -> "unavailable"
OverallOf(health) == Overall({health[a].status : a \in DOMAIN health})
-----------------------------------------------------------------------------
\* agents/health: it takes the agents of the moment, asks those of the domains,
\* has the live-state agent summarise their answers and then asks it.  History:
\* what requests that overlap this one were answered by the domains.
Active(t) == request[t].pc # "idle"
Collected(t) == request[t].pc \in {"summarise", "answer", "answered"}

TakeAgents(t) ==
  /\ ~Active(t)
  /\ request' = [request EXCEPT ![t] =
       [pc |-> "collect", of |-> generation, agents |-> served,
        others |-> {OverallOf(request[u].health) : u \in {v \in Threads : Collected(v)}}]]
  /\ answer' = NoAnswer
  /\ UNCHANGED <<clock, energyFile, served, roads, generation, summary>>

CollectHealth(t) ==
  /\ request[t].pc = "collect"
  /\ LET health == DomainHealth(request[t].agents) IN
     request' =
       [u \in Threads |->
          IF u = t
          THEN [pc |-> "summarise", of |-> request[t].of, health |-> health,
                others |-> request[t].others]
          ELSE IF Active(u)
               THEN [request[u] EXCEPT !.others = @ \cup {OverallOf(health)}]
               ELSE request[u]]
  /\ UNCHANGED <<clock, energyFile, served, roads, generation, summary, answer>>

Summarise(t) ==
  /\ request[t].pc = "summarise"
  /\ summary' = [summary EXCEPT ![request[t].of] = OverallOf(request[t].health)]
  /\ request' = [request EXCEPT ![t].pc = "answer"]
  /\ UNCHANGED <<clock, energyFile, served, roads, generation, answer>>

\* slip: the live-state agent is asked before it has summarised
AnswerEarly(t) ==
  /\ request[t].pc = "summarise"
  /\ request' = [request EXCEPT ![t] =
       [pc |-> "answered", of |-> @.of, health |-> @.health, others |-> @.others,
        live |-> summary[@.of]]]
  /\ UNCHANGED <<clock, energyFile, served, roads, generation, summary, answer>>
\* LiveStateAgent.health reads what the last snapshot left.
AnswerHealth(t) ==
  /\ request[t].pc = "answer"
  /\ request' = [request EXCEPT ![t] =
       [pc |-> "answered", of |-> @.of, health |-> @.health, others |-> @.others,
        live |-> summary[@.of]]]
  /\ UNCHANGED <<clock, energyFile, served, roads, generation, summary, answer>>

Leave(t) ==
  /\ request[t].pc = "answered"
  /\ request' = [request EXCEPT ![t] = Idle]
  /\ UNCHANGED <<clock, energyFile, served, roads, generation, summary, answer>>
-----------------------------------------------------------------------------
\* The other endpoints read the agents and the reference state; a client reads
\* the answer before the next one is given.
Quiet == \A t \in Threads : ~Active(t)

Answered(asked) ==
  /\ Quiet /\ answer = NoAnswer
  /\ answer' = asked
  /\ UNCHANGED <<clock, energyFile, served, generation, summary, request>>

ReadAnswer ==
  /\ answer # NoAnswer
  /\ answer' = NoAnswer
  /\ UNCHANGED <<clock, energyFile, served, roads, generation, summary, request>>

\* slip: the scenario is applied to the graph of the agent
GraphShared(s) == ScenarioEdges(roads, s)
\* _scenario_graph works on a copy of it.
GraphKept(s) == roads

Ref == served.reference

\* routes/compare: what the agent refuses is an unprocessable request.
Compare ==
  \E o, d \in Nodes, s \in Scenarios :
    /\ Answered([asked |-> "compare", from |-> o, to |-> d, scenario |-> s,
                 result |-> IF Comparable(roads, o, d, s)
                            THEN Comparison(roads, o, d, s) ELSE None])
    /\ roads' = IF Accepts(s) THEN GraphKept(s) ELSE roads

\* accessibility: nodes and facilities are needed, all nodes' places for the
\* snapping, and the origin's roads.
Routable(ref) == ref.nodes # {} /\ DOMAIN ref.node # {}

Accessibility(o, budget, s) ==
  CASE ~Routable(Ref) \/ ~Ref.placed \/ ~Accepts(s) \/ ~InGraph(roads, o) -> None
    [] OTHER -> Access(Ref, roads, o, budget, s)

AskAccess ==
  \E o \in Nodes, budget \in Budgets, s \in Scenarios :
    /\ Answered([asked |-> "access", from |-> o, budget |-> budget, scenario |-> s,
                 result |-> Accessibility(o, budget, s)])
    /\ roads' = IF Accepts(s) THEN GraphKept(s) ELSE roads

\* The workflows of the orchestrator and the agents that provide for them.
Workflows ==
  [urban_snapshot          |-> {"mobility", "exposure", "heat", "energy"},
   heat_energy             |-> {"heat", "energy"},
   mobility_exposure       |-> {"mobility", "exposure"},
   mobility_resilience     |-> {"mobility", "resilience"},
   heat_mobility_resilience |-> {"heat", "mobility", "resilience"}]

WorkflowStatus(w) == Overall({DomainHealth(served)[a].status : a \in Workflows[w]})

Orchestrate ==
  \E w \in DOMAIN Workflows :
    /\ Answered([asked |-> "workflow", workflow |-> w, result |-> WorkflowStatus(w)])
    /\ UNCHANGED roads
-----------------------------------------------------------------------------
\* IntegratedAssessmentService.assess: every dimension on its own.
NetworkKinds == {"network_disruption", "infrastructure_degradation"}

\* slip: the newest observation is the baseline, however old
AnyBaseline(runtime) == runtime.heat # None /\ runtime.temperature \in {"celsius", "foreign"}
HasBaseline(runtime) ==
  /\ runtime.heat # None /\ runtime.temperature \in {"celsius", "foreign"}
  /\ clock - runtime.heat \in 0..HeatThreshold

\* apply_temperature_delta raises for what is not a number in Celsius.
HeatDimension ==
  CASE ~HasBaseline(served.runtime) -> "unavailable"
    [] HasBaseline(served.runtime) /\ served.runtime.temperature = "foreign" -> "raises"
    [] OTHER -> "result"

HasForecast(energy) == energy # None /\ clock \in energy.issued..energy.valid

\* apply_energy_demand_delta raises for a negative forecast.
EnergyDimension ==
  CASE ~HasForecast(served.energy) -> "unavailable"
    [] HasForecast(served.energy) /\ served.energy.negative -> "raises"
    [] OTHER -> "result"

\* slip: what the snapping raises is not caught
SnappingEscapes(o, budget, s) ==
  CASE ~Routable(Ref) -> "unavailable"
    [] Routable(Ref) /\ (~Ref.placed \/ ~InGraph(roads, o)) -> "raises"
    [] OTHER -> "result"
\* The ValueError of the snapping is caught and named (DERIVATION_FAILED); that
\* an origin has no road is raised after it, and not caught.
ResilienceDimension(o, budget, s) ==
  CASE ~Routable(Ref) \/ ~Ref.placed -> "unavailable"
    [] Routable(Ref) /\ Ref.placed /\ ~InGraph(roads, o) -> "raises"
    [] OTHER -> "result"

DimensionsOf(s) ==
  (IF "extreme_heat" \in s.kinds THEN {"heat"} ELSE {})
    \cup (IF "energy_demand" \in s.kinds THEN {"energy"} ELSE {})
    \cup (IF s.kinds \cap NetworkKinds # {} THEN {"resilience"} ELSE {})

EachDimension(o, budget, s) ==
  [d \in DimensionsOf(s) |->
     CASE d = "heat"   -> HeatDimension
       [] d = "energy" -> EnergyDimension
       [] OTHER        -> ResilienceDimension(o, budget, s)]

Assessment(o, budget, s) ==
  LET each == EachDimension(o, budget, s)
  IN  IF \E d \in DOMAIN each : each[d] = "raises" THEN None ELSE each

Assess ==
  \E o \in Nodes \cup {None}, budget \in Budgets, s \in Scenarios :
    /\ Accepts(s) /\ (s.kinds \cap NetworkKinds # {} => o # None)
    /\ Answered([asked |-> "assess", from |-> o, scenario |-> s,
                 result |-> Assessment(o, budget, s)])
    /\ roads' = GraphKept(s)

Next ==
  \/ Tick
  \/ EvaluateEnergy
  \/ Rebuild
  \/ \E t \in Threads :
       \/ TakeAgents(t)
       \/ CollectHealth(t)
       \/ Summarise(t)
       \/ AnswerHealth(t)
       \/ Leave(t)
  \/ Compare
  \/ AskAccess
  \/ Orchestrate
  \/ Assess
  \/ ReadAnswer

Spec == Init /\ [][Next]_vars
-----------------------------------------------------------------------------
(***************************************************************************)
(* The live-state agent is shared between requests on several threads      *)
(* without a lock (api/app.py, agent_health).  Its entry in an answer is a *)
(* summary of the domain healths of this request or of one that overlaps   *)
(* it, so without overlap it agrees with the entries beside it, whatever   *)
(* requests and rebuilds went before.                                      *)
(***************************************************************************)
SummaryOfOverlapping ==
  \A t \in Threads :
    request[t].pc = "answered" =>
      request[t].live \in {OverallOf(request[t].health)} \cup request[t].others

(***************************************************************************)
(* docs/integration.md: "persisted baseline + explicit Scenario": a        *)
(* comparison starts from the roads of the loaded reference state, however *)
(* many scenarios were asked before, no scenario makes a route faster, and *)
(* one that leaves some fastest path alone delays it by nothing.           *)
(***************************************************************************)
ScenarioNeverFaster ==
  answer.asked = "compare" /\ answer.result # None =>
    LET s     == answer.scenario
        paths == Paths(Ref.edges, answer.from, answer.to)
        hit   == {e \in Ref.edges : e.id \in s.closed \cup DOMAIN s.penalties}
    IN  /\ \E p \in Fastest(Ref.edges, paths) : answer.result.baseline = Time(Ref.edges, p)
        /\ answer.result.scenario >= answer.result.baseline
        /\ (\E p \in Fastest(Ref.edges, paths) :
              \A e \in hit : {e.source, e.target} \notin SegmentsOf(p))
           => answer.result.scenario = answer.result.baseline

(***************************************************************************)
(* The two searches agree: accessibility, a search from the origin that is *)
(* cut off at the budget, reaches exactly the facilities in service whose  *)
(* fastest route under the scenario is within it, and each facility is     *)
(* reached, not reached or not on the network.                             *)
(***************************************************************************)
AccessAgreesWithRoutes ==
  answer.asked = "access" /\ answer.result # None =>
    LET s     == answer.scenario
        times(f) == PathTimes(ScenarioEdges(Ref.edges, s), answer.from, Ref.node[f])
    IN  /\ answer.result.reachable =
             {f \in SnappedTo(Ref) \ s.unavailable :
                \E time \in times(f) : time <= answer.budget}
        /\ answer.result.reachable \cup answer.result.unreachable
              \cup answer.result.unsnapped = DOMAIN Ref.node
        /\ answer.result.reachable \cap answer.result.unreachable = {}

(***************************************************************************)
(* The assessment has its own idea of what is current: whenever it gives a *)
(* result for a dimension, the agent of that domain is available, with a   *)
(* fresh baseline where it has one, and a workflow of just these domains   *)
(* is available as a whole.                                                *)
(***************************************************************************)
AssessedOnlyIfHealthy ==
  answer.asked = "assess" /\ answer.result # None =>
    LET given == {d \in DOMAIN answer.result : answer.result[d] = "result"} IN
    /\ \A d \in given :
         /\ DomainHealth(served)[d].status = "available"
         /\ DomainHealth(served)[d].freshness \in {"valid", "unknown"}
         /\ d # "resilience" => DomainHealth(served)[d].freshness = "valid"
    /\ \A w \in DOMAIN Workflows : Workflows[w] \subseteq given =>
         WorkflowStatus(w) = "available"

(***************************************************************************)
(* orchestrator/assessment.py: "Dimensions are intentionally reported      *)
(* independently": each one that was asked for is answered or named as     *)
(* unavailable, whatever is missing or broken in the others, also when the *)
(* snapping of the facilities raises.  Excepted is what the code lets fail *)
(* the assessment as a whole: a current temperature that is not a number   *)
(* in Celsius, a current forecast that is negative, and, on a network that *)
(* facilities can be snapped to, an origin without a road.                 *)
(***************************************************************************)
FailsAsAWhole(o, s) ==
  \/ /\ "heat" \in DimensionsOf(s) /\ served.runtime.temperature = "foreign"
     /\ HeatHealth(served).freshness = "valid"
  \/ /\ "energy" \in DimensionsOf(s) /\ served.energy # None
     /\ served.energy.negative /\ EnergyHealth(served).freshness = "valid"
     /\ served.energy.issued <= clock
  \/ /\ "resilience" \in DimensionsOf(s) /\ Routable(Ref) /\ Ref.placed
     /\ ~InGraph(Ref.edges, o)

DimensionsIndependent ==
  answer.asked = "assess" =>
    LET s == answer.scenario IN
    IF FailsAsAWhole(answer.from, s)
    THEN answer.result = None
    ELSE /\ answer.result # None
         /\ DOMAIN answer.result = DimensionsOf(s)
         /\ \A d \in DOMAIN answer.result : answer.result[d] # "raises"

(***************************************************************************)
(* energy/pipeline.py: "using only information available before each       *)
(* target time".  No evaluated row uses itself or a later one, what is     *)
(* held out is later than what was trained on, and the forecast is of a    *)
(* time after everything it uses.                                          *)
(***************************************************************************)
NoLookAhead ==
  energyFile # None =>
    LET times == energyFile.times IN
    /\ \A i \in UsableRows(Len(times)), f \in FeatureNames :
         \A j \in FeatureRows(f, i) : times[j] < times[i]
    /\ \A t \in energyFile.trained : t < energyFile.evaluation[1]
    /\ \A f \in FeatureNames : \A t \in energyFile.inputs[f] : t < energyFile.valid
    /\ energyFile.evaluation[2] = energyFile.issued

(***************************************************************************)
(* The times of a saved load are those that its publisher meant by the     *)
(* labels, across the changes of the clocks: adapters/stromnetz_berlin.py  *)
(* refuses every file it would otherwise misread, although rows may be     *)
(* missing and an hour is labelled twice.  Provided the rows are in order, *)
(* those of an annual file are labelled in some known way (not always the  *)
(* same) and its year ends with the offset it began with, and those of a   *)
(* table have the local time or one that does not exist, and the clocks go *)
(* back once.                                                              *)
(***************************************************************************)
\* The local time; that of the interval before; that of the winter.
Labels(t) ==
  {t + Offset[t], t + Offset[IF t = 0 THEN 0 ELSE t - 1], t + Offset[0]}

KnownLabel(format, label, t) ==
  CASE format = "annual" -> label \in Labels(t)
    [] format = "local"  -> label = t + Offset[t] \/ Candidates(label) = {}
    [] format = "aware"  -> label = t

LabelledAsKnown ==
  \A load \in Loads :
    /\ load.times \in Seq(0..Rows) /\ Len(load.labels) = Len(load.times)
    /\ \A i, j \in 1..Len(load.times) : i < j => load.times[i] < load.times[j]
    /\ \A i \in 1..Len(load.times) : KnownLabel(load.format, load.labels[i], load.times[i])

YearEndsAsItBegan == \A t \in {Rows - 2, Rows - 1, Rows} : Offset[t] = Offset[0]

ClocksGoBackOnce ==
  \E back \in 0..Rows : \A t, u \in 0..Rows :
    t < u /\ (u < back \/ back <= t) => Offset[t] <= Offset[u]

TimesAsPublished ==
  energyFile # None => energyFile.times = energyFile.load.times

(***************************************************************************)
(* A saved forecast is what its evaluation speaks of: its features look    *)
(* back as far as those the models were trained and scored with, its model *)
(* is at least as good as the baselines, and a more complex model is       *)
(* preferred only if it is better.                                         *)
(***************************************************************************)
ForecastFollowsEvaluation ==
  energyFile # None =>
    LET times == energyFile.times
        scores == energyFile.scores
    IN
    /\ \A f \in FeatureNames, i \in UsableRows(Len(times)) :
         {energyFile.valid - t : t \in energyFile.inputs[f]} =
           {times[i] - times[j] : j \in FeatureRows(f, i)}
    /\ \A m \in DOMAIN Models :
         /\ ~Better(scores[m], scores[energyFile.model])
         /\ m < energyFile.model => Better(scores[energyFile.model], scores[m])
=============================================================================
