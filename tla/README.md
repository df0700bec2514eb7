# Berlin Urban Intelligence: TLA+ models, checks and proofs

The system acquires live urban data (air quality, weather, public transport,
road disruptions), keeps the last known good state of every source in JSON
files, derives combined products from it, and serves state, routes and
assessments over an HTTP API to a dashboard that polls it. What makes it hard is not any one
computation but staying honest and whole while sources fail, files are replaced
under readers, processes die between two saves, and requests overlap. The
modules here model that part. Paths below are relative to
`src/berlin_urban_intelligence/` of the repository unless they start with
`scripts/`, `frontend/` or `docs/`.

## 1. The system

| Part | State it keeps | Operations | Talks to | What is hard | Correct when |
|---|---|---|---|---|---|
| Atomic replacement (`runtime/atomic.py`) | a target file, its `.tmp` sibling | `atomic_write_text` | every store's `save` and `load` | kill and host failure between write, fsync, rename, directory fsync; shared temporary name | target is always one whole, durable text |
| Reloading snapshots (`runtime/reload.py`) | value, signature, known-missing flag, diagnostic, per store | `refresh` | the files; the API controller | the file changes between stat and load; a passing load error | last known good is kept, status is honest, reloads stop when files do |
| API controller (`api/app.py`) | `app.state` fields, cached critical routes | `initialize`, `refresh`, `_apply` | the five snapshots; endpoints on threads | field-by-field publication without a lock; exceptions in the middle | what is served is what is loaded; nothing goes back |
| API endpoints (`api/app.py`, `api/derived.py`) | none of their own | reads of `app.state`, agents' computations | controller's fields | several unlocked reads per request | one answer describes one state |
| Acquisition worker (`scripts/refresh_live.py`, `runtime/worker.py`, `runtime/refresh.py`) | runtime, traffic and derived files | one cycle: load, acquire, save, three times | providers; the files | each source fails on its own; crash between saves; clock moves during acquisition | failure takes nothing; "valid" means recent |
| Source status (`shared/source_status.py`, `shared/temporal.py`) | per source: last observation, failure | record, classify | worker, live-state agent | boundary and future times | classification follows the age |
| Derived products (`runtime/derived_products.py`, `runtime/derived_refresh.py`) | derived records with inputs and freshness | build, narrow the change, recompute | runtime state; executor | inferring what changed from outputs | products agree with the runtime state |
| Derivation executor (`knowledge/execution.py`, `shared/dependencies.py`) | working copy of the records | `recompute` | derived store | blocked, failing and missing handlers, order | nothing current rests on something that is not |
| Critical-route monitor (`runtime/critical_routes.py`) | the cached snapshot of routes | `build` | reference and traffic state | stale disruptions, disconnected origins, closures that begin and end under a cached snapshot | a route is never reported through a closed edge |
| Resilience agent, scenario engine (`agents/resilience.py`, `scenario_engine/`) | a road graph, copied for each scenario | shortest paths, comparison, accessibility | endpoints, assessment | two searches over one graph must agree; a scenario must not stay | a scenario never makes a route faster, and leaves the graph alone |
| Orchestrator, registry, live-state agent (`orchestrator/`, `agents/`) | agents, rebuilt on a change; the last summary of the live-state agent | workflows, assessment, health | endpoints on threads | shared summary written from threads; partial results; data that expire while served | a result only where the domain is healthy; dimensions independent |
| Reference refresh (`runtime/reference_*.py`, `adapters/berlin_wfs.py`, `scripts/refresh_reference.py`) | the reference file | one run: discover layers, read pages, keep or replace per source, save | WFS servers, archives | layers of many pages; a source that fails after some of its layers; servers that do not page properly | new as a whole or as it was, and reported |
| Energy pipeline (`energy/`, `adapters/stromnetz_berlin.py`, `scripts/evaluate_energy.py`) | the energy file | parse, evaluate, select, forecast | energy file, energy agent | time-ordered splits, shifted windows, changes of the clocks | no row of a split sees the value it predicts; the forecast uses the rows the training would |
| Dashboard (`frontend/src`) | React state, polling token, viewport | poll, mount anew, load, move the map | API | answers out of order, snapshots replaced under a load, remounts | a newer answer is not overwritten by an older one; a change comes through |
| Live adapters, knowledge graph, contracts, observability, tools | none across calls | conversion, projection, logging | providers, files | | |

The backend process and the worker are separate containers; they share nothing
but the files of one volume. Docs exclude several backends sharing consistent
in-memory state (`docs/deployment.md:37`), so one backend is modelled.
`PROJECT.json` lists each part with its status and each hazard with its line.

## 2. Modules

| Module | Models | Kind |
|---|---|---|
| `DurableRegister` | what `atomic_write_text` promises | abstract specification |
| `AtomicFile` | `runtime/atomic.py` and the stores' `load`, on a file system with a page cache | component |
| `LastKnownGood` | what the API expects of a persisted store | abstract specification |
| `SnapshotReload` | `ReloadingSnapshot` against files changed by others | component |
| `ApiController` | `_ApiStateController` over five `SnapshotReload` stores, plus an endpoint on a thread | composition (EXTENDS `SnapshotReload`) |
| `DerivedProducts` | freshness, derived products, incremental refresh, as operators | pure functions |
| `LiveWorker` | the acquisition cycle over its three stores | component (EXTENDS `DerivedProducts`) |
| `DerivationExecutor` | `DerivationExecutor.recompute` over any acyclic graph, the save around it | component |
| `RoadNetwork` | a road network and the fastest paths in it | pure functions |
| `CriticalRoutes` | the cached route snapshot (`CriticalRouteMonitor.build`) and the route endpoint that answers from the same states | component (EXTENDS `RoadNetwork`) |
| `ScenarioRouting` | scenarios: their validation, comparison of routes, accessibility | pure functions (EXTENDS `RoadNetwork`) |
| `EnergyForecast` | the load curve, the rows of features, split and forecast, the selection of a model | pure functions |
| `CityAgents` | the domain agents behind the API, as they are rebuilt, age and are asked: `agents/health`, workflows, comparisons, accessibility, assessments | composition (EXTENDS `ScenarioRouting`, `EnergyForecast`) |
| `ReferenceRefresh` | runs of `scripts/refresh_reference.py` over layers that change, page by page | component |
| `MapReference` | what the map is given for a viewport | pure functions |
| `Dashboard` | polling, remounting, loading and viewport requests in the browser, against an API whose snapshots are replaced | composition (EXTENDS `MapReference`) |
| `MC*` | constants of the instances | model checking |
| `*Proofs` | theorems and proofs | proof |

Definitions whose comment says *slip* are wrong variants of the definition that
follows them: each is a plausible mistake in that place, and substituting it
makes the property it is paired with in `PROJECT.json` fail in its run.

### How state and actions correspond to the code

**AtomicFile.** `dir` and `data` are what processes see, `disk` and `dirs` what a
host failure may fall back to. `OpenTemp` is `open("w")` of the temporary,
`WriteBlock` the write and flush, `SyncFile` the `fsync`, `Replace` the
`os.replace`, `SyncDirectory` the best-effort fsync of the directory, `Cleanup`
the `finally` clause; `StepFails` is an exception of any of the calls, `Kill` a
process death at any point, `HostFailure` a power loss that keeps any subset of
the unsynced blocks and any directory state since the last commit. Renames
within one directory are taken to reach the disk in order.

**SnapshotReload.** A publication is numbered; its number stands for content and
for the signature `(st_mtime_ns, st_size, st_ino)`. `Publish`, `Withdraw` and
`Restore` are what others do to the file, and may happen between `StatChanged`
and the load that ends in `LoadValid`, `LoadRaises` or `LoadFindsNone`.
`LoadRaises` needs no bad content: reading may fail for a passing reason.

**ApiController.** `op` and `at` walk through `initialize` or `refresh`: stores in
the order of the code, then `_apply` one assignment at a time. `app[f][s]` says
which publication of store `s` field `f` was built from. `RefreshStatRaises`,
`BuildRaises` and `AgentsRaise` leave the operation by an exception, `missed` is
a history variable of the changes such an operation had been told of. The two
last come from a state of kind "unusable", which its schema lets pass: a node
without coordinates or a traffic event without a geometry (the build of the
routes), a forecast outside its bounds (`EnergyAgent.register_forecast`, called
when six fields are assigned already, which keep what they got). `Dispatch`,
`ReadField` and `Respond` run one endpoint function on a threadpool thread while
later refreshes go on; only the reads of `app.state` in program order are kept.

**DerivedProducts / LiveWorker.** A payload is its observation time: reports with
the same time are taken to be equal. `BeginCycle` takes `now` before the
sources are asked, as `RefreshCoordinator.refresh` does, so an answer may be
ahead of `now`. `SaveRuntime`, `RefreshTraffic` and `RefreshDerived` are whole
handlers ending in a save; `LoadRaises` and `Crash` end the process between
them. The five minutes by which a publisher's time may be ahead are less than a
unit of the clock. An absent file and the empty state are identified (every
load uses the empty state for an absent file). The worker is the only writer of
its files; a broken file is removed with the worker stopped. A feed may return a
snapshot without trip updates (`trips`).

**DerivationExecutor.** A record keeps the two things that decide how it is
presented, status and freshness. `InOrder` picks any affected record with no
affected input left, which is what a topological order allows. The graph
between records is a constant: the handlers of this program keep the inputs of
a record that are themselves records.

**CriticalRoutes.** A road is a straight segment between two nodes, so geometry
comes down to which segments a disruption lies on (what closes a road) and
which it is near (what disturbs a route); the first implies the second. This
assumes that the ends of every road are among the nodes and that every
disruption has a geometry. The importers see to it (`osm_network.py:66-98`
makes the nodes of every edge it makes, `viz_road_disruptions.py:161-165`
refuses an event without geometry), the schemas do not, so what the code
does otherwise is left out: an edge without geometry is never closed
(`critical_routes.py:325-327`), a detour without one counts as blocked
(`:438-447`), a path through an unknown node makes its facility unreachable
(`:635-638`). Where facilities are snapped is part of the reference state, `Far`
when no node is close enough; whether every node has coordinates is `placed`,
without which snapping raises. `Built` is the set of snapshots `build` may
return, empty when it raises: shortest paths by a reference definition (no path
over these roads is faster), with any choice among equally fast paths and among
facilities at one node. `ReplaceReference`
and `ReplaceTraffic` are the two changes on which the API rebuilds; `Tick` lets
disruptions begin and end under a snapshot that stays. `Answers` is what the
route endpoint may say at the present time. That a request may mix fields of two
states is the subject of `ApiController`, so here it reads one.

**ReferenceRefresh.** A layer is the sequence of its features; `Publish` and
`Advertise` let its publisher change it between any two requests. `Begin` fixes
the sources of the run, `Discover` finds the layers of the current one,
`ReadPage` is one turn of the loop of `fetch_all_geojson` and, at its end, what
the agents make of the features (`Normalized`); `ReadWhole` is a source that
comes in one piece. `SourceFails` is every `except` clause: the source is named
in the errors and keeps what the file had. `Save` writes the file at the end,
`Crash` ends a run anywhere. A server either pages as asked, ignores
`startIndex`, or returns fewer features than asked for (`server`).

**EnergyForecast.** Values are left out. A feature is the set of rows it is
computed from, so that looking ahead is a matter of sets; the scores of the
four models are inputs. A published curve is its true times and its labels, in
one of three formats. Of an annual one `WallTime` is the label the parser
expects of a row; the times are counted from the first. The local labels of a
table are localized as `tz_localize(ambiguous="infer", nonexistent="raise")`
does it: `Candidates` are the times a label may stand for, `RunOf` the
neighbouring ambiguous rows and `Repeats` where their labels begin anew, without
which, or with more than one of which, the file is refused (`Localizable`);
`LocalTime` is the result. Labels that tell their offset stand for their times.
`Offset` is the time zone's rule, which changes within the curve.

**ScenarioRouting, CityAgents.** `Rebuild` is `_apply` with `_build_agents`:
every agent is new, the live-state agent too, and a request under way keeps the
agents it took (`generation`). The steps of `agents/health` are separate
because it alone writes memory that requests share: `TakeAgents`,
`CollectHealth`, `Summarise`, `AnswerHealth`. Comparison, accessibility,
workflows and assessment are single steps, whose answer is held in `answer`
until it is read. `roads` is the graph the resilience agent holds: what a
scenario does to it is part of those steps. `EvaluateEnergy` is
`scripts/evaluate_energy.py` and writes `energyFile`, which a `Rebuild` takes
over. Time passes between all of them, so what was fresh when it was loaded
ages. Snapping facilities to nodes is given by its result, or raises where not
all nodes are `placed`; the assessment catches that, and not what a temperature
that is no number in Celsius (`"foreign"`) or a negative forecast raises.

**Dashboard, MapReference.** The API is its version; `Replace` is the end of a
refresh that changed something. A poll or viewport request is a slot that is
sent, handled by the API and answered, in any order between slots, or fails.
`WatchToken` is `checkForSnapshotChange`: the first token is taken over, a
different one mounts the App anew (`Mount`), which drops its state and the
requests under way. `Loaded` is the end of `Promise.all`. The generation number
of the request tracker is kept as `latest`. `FeatureCollection` is computed for
the viewport and version of the answer. An object is its place in a layer, which
is a sequence, so that two equal ones stay two; `IsViewport` is what `MapBounds`
lets through.

## 3. Runs

| Run | Result | What it shows | Bounds, and why they are enough |
|---|---|---|---|
| `atomic_file` | holds | with one writing process the target is whole in memory and on disk after every failure; readers see one text; refines `DurableRegister` | 2 blocks (torn = first block without second), 2 texts (mixture), 3 inodes (target, temporary, an unlinked file a reader still holds), 1 reader. Section 4 proves it for all |
| `atomic_file_two_writers` | **violated** | two processes saving one store share the temporary | 2 writers, no reader needed |
| `snapshot_reload` | holds | status is honest; a valid file is served or reported as not; reloads quiesce; refines `LastKnownGood` | 2 stores, 2 publications each: one remembered and one newer |
| `api_controller` | holds | between operations everything served is what is loaded, except what a raising operation had seen; no field goes back; agents never lead the reference; the API converges | all five stores in the refresh order; up to three publications (`ThreeSaves`), of reference and energy at most two each, so that one that cannot be used may be replaced, and of traffic one: what does and what does not concern the routes may change in one operation; the traffic file may be taken away and put back |
| `api_one_snapshot` | **violated** | one request reads fields of two states | one save of reference |
| `live_worker` | holds | failure takes nothing; valid means recent; products follow the runtime state up to the mobility freshness, and catch up; a broken file does not stop live data | clock 0..2 with thresholds 0 and 1, so an observation can be on either side of its threshold, at it, and ahead of `now`; air quality may lag; air, transit and traffic may fail; the derived file may break |
| `live_worker_follows` | **violated** | the narrowing of changed inputs can pass over the mobility product | nothing breaks |
| `derivation_executor` | holds | nothing saved as current rests on something that is not; dependency order; termination | a diamond with a tail of five records and two sources: shared inputs, depth 3, a record without handler |
| `critical_routes` | holds | every facility gets its nearest route or is reported for cause; monitor and endpoint respect all closures and agree on delay and blockage while the same disruptions are active; stale traffic alters nothing | 4 nodes, 6 roads (one-way, parallel, ties, fewest roads not fastest) and two networks with roads missing; 4 placements of 3 facilities (shared node, off the network) and one with a single facility; 2 maps with a node without coordinates, one of which can be served and one not; 2 full closures and 1 other restriction with different times, clock 0..2, so every subset may be active |
| `reference_refresh` | holds | a save replaces what the file has of a source as a whole or not at all; the errors name exactly the sources of the run whose data are old; an accepted layer is complete; a run ends | 5 sources, of which the climate analysis has 2 layers (so a source can fail half-way); one layer changes among 5 contents: none, a full page, more than a page with a blank or a bad feature, more than `MaxFeatures`; pages of 2; all 3 kinds of server; requests of 3 sources may fail; 2 runs, so that there is something to keep |
| `city_agents` | holds | the eight properties of the agents (below) | 2 concurrent health requests (symmetric), 1 rebuild under them; 3 runtime states (fresh, partly missing, with a temperature in another unit), 3 reference states (roads with a parallel and a one-way one, an isolated node and an unsnapped facility; nodes without coordinates; and none at all); 6 scenarios, of which 2 are refused; forecasts also negative; 12 load curves in a year of ten rows with both changes of the clocks: 6 annual ones (in each convention, mixed, with a row missing), 5 tables of local labels (the repeated hour once, twice, at the beginning, a gap, a label that does not exist) and one that tells its offset; the clock runs over every threshold and past the forecast |
| `dashboard` | holds | the map is of the viewport unless one is awaited; an object in the viewport is shown or its layer reported truncated; nothing shown is older than the token that is watched; the dashboard comes to show the latest snapshots | 2 replacements (one during a load, one after), 2 polls and 2 viewport requests under way (an older and a newer one), 2 parts of a load, 1 failure, 2 viewports, 3 reference states with points, an area larger than a viewport, one across a border, no geometry, and other coordinates; limit 1 |

The eight properties of `city_agents`: the live-state entry of a health answer
is a summary of this request or of one that overlaps it (`SummaryOfOverlapping`);
a comparison starts from the loaded roads, and no scenario makes it faster
(`ScenarioNeverFaster`); a facility is reachable exactly if the route search
finds a way within the budget (`AccessAgreesWithRoutes`); an assessment gives a
result only for a domain that its health does not report as degraded or stale
(`AssessedOnlyIfHealthy`), and a dimension whose data are missing or stale, or
whose failure is caught, takes none of the others away
(`DimensionsIndependent`); no evaluated row and no forecast uses a
value at or after the one it predicts (`NoLookAhead`); the features of a saved
forecast look back exactly as far as those of every evaluated row, and its model
is the first of the best (`ForecastFollowsEvaluation`); and the times of a saved
load are those its publisher meant by the labels, across changes of the clocks,
in annual files and in tables (`TimesAsPublished`).

`CHECK_DEADLOCK FALSE` is set in all runs but `dashboard`, whose polling never
rests: the other instances bound something (publications, runs, the clock), and
a program with nothing left to do may rest; that it does not get stuck where it
must go on is what the liveness properties say. Bounds by name:
`MaxPublications`, `Saves`, `Movable`, `MaxTime`, `Blocks`, `Inodes`, `MaxRuns`,
`MaxReloads`, `MaxVersion`, `MaxFailures`, `PollSlots`, `MapSlots`.

### Fairness

* `SnapshotReload`: weak fairness of the refresh of each store. The container's
  health check requests `/health` every 15 seconds, and the middleware refreshes
  every store before any request. Nothing is assumed of the files.
* `ApiController`: weak fairness of the controller's steps, for the same reason
  and because the event loop runs a synchronous refresh to its end. None for
  `Start` (the backend has no restart policy) or for endpoints.
* `LiveWorker`: weak fairness of the worker's steps: `run_forever` loops, and
  `restart: unless-stopped` starts the container again.
* `DerivationExecutor`: weak fairness of the loop and the save after it.
* `ReferenceRefresh`: weak fairness of the steps of a run other than failures:
  every request has a timeout, so it is answered or fails. `Begin`, `Crash`,
  failures and the publishers are not fair.
* `Dashboard`: weak fairness of the poll timer, of the API's answers and of
  their delivery, and of the end of a load. Failures are not fair, and bounded
  by `MaxFailures`: with requests that fail for ever nothing can be promised.
* `CriticalRoutes`, `CityAgents`: none; they have no liveness property.

### Disagreements between code and documents

The three violated runs each check one statement of a document or docstring;
the `findings` of `PROJECT.json` quote it.

1. `runtime/atomic.py`: "atomically replace the target" does not hold for two
   processes (the service and a manual `refresh_live.py`, which the top-level
   README suggests): the temporary's name depends on the target alone.
2. `docs/architecture.md:42`, "atomically rebuild": not for a request whose
   thread reads `app.state` while a later request's refresh assigns it. What
   does hold is `AgentsTrailReference`.
3. `runtime/derived_refresh.py:62`, "never silently suppressed": when transit
   goes stale while the mobility context's freshness does not change and the
   heat context changes too, the narrowed input set is non-empty and misses
   the mobility product, which is saved as valid. What does hold is
   `ContextFollowsRuntime` and `DerivedCatchesUp`.

### Known limits

Where a property says "unless", the exception is what the code does, often less
than a document says:

* `VisibleOrReported`: a valid file whose first load failed for a passing reason
  is not loaded again, because its signature is remembered before the load
  (`docs/deployment.md:35` says "a valid replacement becomes visible"). It is
  reported.
* `ServedUnlessMissed`: when the build of the critical routes or of the agents
  raises, the snapshots already hold the new state and report it as current, and
  the old one is served until the next change. In the latter case it is served
  in part: the fields before the agents are new, the agents old.
* `NearestOrReported`: a facility at the node of one of another category gets no
  route (`docs/critical-route-monitoring.md:7` promises one for every facility
  that can be snapped). It is reported.
* `CompleteUnlessChanged`: `fetch_all_geojson` takes a short page for the last
  one, so a server that caps its pages below the page size yields a part of the
  layer, as does a layer that changes between two pages; its docstring speaks
  of a complete layer.
* `OldContentReported` says nothing of a source that the run left out: its old
  error is dropped while its old data stay.
* `CatchesUp`: a change between the first load and the first poll goes
  unnoticed, because the first token is taken for that of the load; and a load
  that failed stays so until the next change. `docs/usage/troubleshooting.md:104`
  still tells to restart the backend, where `docs/architecture.md:44` says that
  polling makes this unnecessary.
* `DimensionsIndependent`: an assessment fails as a whole if its origin has no
  road, because networkx's `NodeNotFound` is neither of the exceptions that are
  caught, and if a current temperature is no number in Celsius or a current
  forecast negative, because `assessment.py:104` and `:117` are in no `try`.
* `TimesAsPublished` is about files labelled as its comment says; of a table,
  that labels are the local time or one that does not exist. A publisher who
  labels the rows of a table otherwise is not found out.

## 4. Proofs

All proofs are for every value of the constants that satisfies the `ASSUME` of
the module. Beside finiteness and types the assumptions say what the code or
geometry guarantees before the modelled part runs: that the graph of products is
acyclic (`add_derivation`), that a viewport is not empty (`MapBounds`), that roads end at
known nodes, that a disruption is near whatever it lies on. That a penalty slows a road down is no
assumption but what `Accepts` checks. Numbers are whole: travel times, scores and
coordinates are only compared, added and multiplied by penalties. Every invariant
and every action property that a run checks is proved. One theorem,
`TimesAreMeant`, has hypotheses of its own, on the published files and the time
zone; they are named definitions, and the instance of `city_agents` asserts that
its curves satisfy them.

* `AtomicFileProofs`, under `SingleWriter` (any two writers are the same; run
  `atomic_file_two_writers` shows it is needed): `NeverTorn`, `OneText`, and
  `Refinement` to `DurableRegister`. The invariant `Inv` says beside
  `TargetNeverTorn` that the inode under the temporary's name is no target, now
  or after a host failure, nor any reader's file (`NamesApart`,
  `ReaderProgress`), and how far the writer's text has got (`WriterProgress`).
  Without the first the in-place truncation of the temporary could tear a
  target; without the last `Replace` could install a partial text.
* `ApiControllerProofs`, for any number of publications of every store. First of
  a store alone (`SnapshotReload`): `TypeCorrectness`, `Honesty`, and
  `Refinement` to `LastKnownGood`. `Inv` orders signature, value and
  publication: a finished refresh read something at least as new as the
  signature it had seen. Then of the controller: `OnlyMissedIsHidden`
  (`ServedUnlessMissed`), `AgentsNotAhead` (`AgentsTrailReference`) and
  `NothingGoesBack` (`NoFieldGoesBack`). `ApiInv` extends the invariant of
  `SnapshotReload` by how far an operation has brought the fields (`Progress`:
  before `_apply` every field is current but for the stores that changed or were
  missed, in it the fields already assigned are) and by an order (`ShownOrder`:
  shown is not newer than kept, kept not newer than loaded, the agents not newer
  than the reference state). `AgentsNotAhead` rests on two orders of the code
  that nothing ties together: `_apply` assigns the reference state before the
  agents, and the endpoints read them the other way round. `OnlyMissedIsHidden`
  holds although two steps of `_apply` may raise: the build of the routes comes
  before every assignment, so its exception changes nothing that is shown and
  loses at most what this operation had been told of; that of the agents comes
  after six assignments, of which `Progress` says that they show what is loaded
  (`RoutesShown`: the routes too), so only the agents and the orchestrator are
  behind, and only by stores that are then in `missed` (`AgentsRaiseInv`).
  `ControllerRefines`: the controller with its stores still implements
  `LastKnownGood`, forced refreshes of the reference state and of a freshly
  started process included, as long as the process runs. Four theorems are the
  safety halves of liveness properties. `VisibleWhenIdle`: where a refresh has
  nothing to do, a valid file is held or its diagnostic says otherwise.
  `ReloadsEnd`: every step that is no change of a file lowers the work of one
  store, which a change of its file raises to at most three. `OperationsEnd` and
  `CurrentFilesServed`: an operation comes nearer to its end with every step of
  the controller, and between operations a store reported current for the
  signature of its file is served everywhere (unless an operation that had seen
  a change raised). `LoadInvariant` adds to `ApiInv` that
  only the store the operation is at is being loaded.
* `LiveWorkerProofs`: `TypeCorrectness`, `Recency`, `LastKnownGoodKept` (an
  action property) and `Consistency` (`ContextFollowsRuntime`). The argument of
  the last: whatever the previous derived file was, provided it is what an
  earlier refresh wrote, one refresh yields the right inputs everywhere and the
  right freshness for products of two sources (`IncrementalRefresh`,
  `RefreshedShape`); `SameBasis` says what earlier refreshes leave behind.
  `RefreshesHeal`: each refresh of an unchanged runtime state brings the derived
  products nearer to it and two are enough, since where only the freshness of
  mobility differs the narrowed set of changed inputs names its input.
  `SavesGoOn`: while the file of the live state itself loads, every step of the
  worker brings its next save nearer, and the only thing that puts it off is the
  death of the process by anything but a broken file.
* `DerivationExecutorProofs`: `Honesty`, `DependencyOrder`, `LoopNeverStuck`
  (some affected record may always go next, the safety part of termination) and
  `FlatGraph` (where products have external inputs only, as the worker's have,
  recomputation reaches exactly the products that name a changed input: the
  form in which `DerivedProducts` uses the executor). `Inv` adds that records
  behind the loop are honest in the working copy already. The assumption that
  the graph is acyclic is what `add_derivation` enforces.
  `AnyOrder`: of two affected records that may both go next neither has the
  other as an input, and computing one leaves the other what it would have been,
  so it makes no difference which topological order networkx returns.
* `CriticalRoutesProofs`, for every road network, placement and set of
  disruptions: `TypeCorrect`, `FacilitiesAccountedFor` (`NearestOrReported`),
  `RoutesRespectClosures` (`ClosuresRespected`), `StaleTrafficAltersNothing`,
  `DelaysForced` (`DelayIsForced`) and `RequestsAgree` (`RequestAgrees`). The
  invariant is that the cached snapshot is one `build` could have made of the
  loaded states at the time it is stamped with (`SnapshotOfLoaded`); everything
  else follows from what `build` makes. Its heart is `LeastDelay`: whatever the
  monitor (`AppliedLeast`) or the endpoint (`AnswersLeast`) says of a way is
  either that all are blocked, or a fastest way over the open roads. The step
  that is not obvious is that this holds of the ways that are not searched
  again: a baseline that no disruption is near has no closed road
  (`ClosedIsMatched`), so it is a way over the open roads (`OpenPath`), takes
  there the time it takes without closures (`OpenTime`: closures lie on
  segments, so parallel roads close together), and is still a fastest one
  (`FastestStays`). Two answers of this form have the same delay (`SameDelay`).
  The answers exist: `BuildSucceeds` (`build` makes a snapshot, whatever the
  traffic state and the time, exactly if the network is incomplete or all its
  nodes are placed: nothing but the snapping can raise), `WaysAreAnswered` (the endpoint answers
  exactly if the network has a way) and `MonitoredAnswered` (so `RequestsAgree`
  compares two answers). Without them `ClosuresRespected` or `RequestAgrees`
  could hold because there is nothing to speak of.
* `ReferenceRefreshProofs`, for any layers, contents, servers and sizes:
  `Honesty` (`OldContentReported`), `NeverMixed` (`WholeOrKept`) and
  `LayersComplete` (`CompleteUnlessChanged`). `Inv` says of a run under way that
  a source it has not come to is as it was saved and without error, that one it
  has dealt with is old and reported or new as a whole (`SoFar`), and that
  nothing in the file is newer than the file (`FileIsOlder`), without which a
  kept source could pass for a new one. `PagesInv` adds that the pages read so
  far are the beginning of the layer; for a server that ignores `startIndex`
  they are its first page, and the next is refused because it is the same.
  `RunsShrink`: every step of a run brings its end nearer, and a failing request
  too: sources and layers become fewer, and a page that does not end its layer
  adds `PageSize` features, of which there may be `MaxFeatures`. So no server
  can keep a run going, whatever it returns.
* `DashboardProofs`: `MapIsOfView` (`MapOfView`) for any viewports and number of
  requests, and `NothingHidden` (`VisibleOrTruncated`) for any geometries and
  limit. The latter is about one answer: the bounding box of an object in the
  viewport intersects it, and the first `Limit` of those that match are all of
  them unless there are more. The invariant for the former says that the request
  that counts is one for the current viewport, and that there is neither map nor
  request before the data are there: without the latter a viewport that moves
  during a load would leave an older map. `NothingOlderThanToken`
  (`AsNewAsToken`) and `MapOnlyGoesForward` are about time instead of place.
  `OrderInv` says that everything in the browser was once a version of the API
  and a load that is ready is complete (`WatchedOK`), viewport requests follow the load they come from
  (`RequestsFollowLoad`), the map follows it too (`MapFollowsLoad`), and the
  answer that may still replace the map is not older than it (`LatestIsNewer`).
  `MapNeverGoesBack` is proved without a run of its own.
* `CityAgentsProofs`, for any number of threads and rebuilds, any network,
  scenario, budget and load curve. The invariant has four parts: the agents are
  those of one of the states (`AgentsOK`); a saved energy state is that of a
  load that could be evaluated (`EnergyFileOK`); an answer that was not read yet
  is one that would be given now (`AnswerOfNow`), since time passes, stores
  change and health is asked for only after it was read; and `RequestsInv`.
  - `SummariesOverlap` (`SummaryOfOverlapping`) needs that a request under way
    has noted what every other one under way has collected (`OthersNoted`), and
    that the entry of the shared agent is, from its own summary on, its own or
    one of those (`SummaryNoted`).
  - `ResultsAreHealthy` (`AssessedOnlyIfHealthy`) and `DimensionsAreIndependent`
    (`DimensionsIndependent`) go through the dimensions of `Assessment` one by
    one (`DimensionAnswers`). What the assessment takes for current is what the
    health calls fresh (`CurrentMeansFresh`), and it fails exactly when one of
    its dimensions raises (`FailsWhenOneRaises`).
  - `NothingLooksAhead` (`NoLookAhead`): usable rows are an end of the curve
    (`LaterIsUsable`), accepted times go up (`TimesGoUp`), and the split cuts
    the usable rows in order, with neither part empty (`SplitIsChronological`).
  - `ForecastsAsEvaluated` (`ForecastFollowsEvaluation`): in regular times rows
    that are as far apart are as far apart in time (`RegularSpans`), so it is
    enough to count rows (`RowsLookBack`).
  - `ScenariosOnlyDelay` (`ScenarioNeverFaster`): a way under a scenario is one
    without it and no faster (`ScenarioPath`), for times are only multiplied by
    at least one and roads only taken away; and one that it does not touch is as
    fast as before (`UntouchedPath`).
  - `SearchesAgree` (`AccessAgreesWithRoutes`) relates the two searches of the
    resilience agent. A route within the budget is followed node by node
    (`RouteReached`), as no part of it is longer than the whole (`PrefixTotal`).
    The other way round every node reached has a route (`ReachedWitnessed`): the
    route to the node before goes on (`LongerPath`) or, if it met the node
    already, is cut there (`CutPath`).
  - `WalksHavePaths` justifies `Paths`, over which everything above is least: it
    has only ways of as many nodes as there are, but no walk over the roads, of
    any length, is faster than all of them.
  - `TimesAreMeant` (`TimesAsPublished`) assumes that the rows of a file are in
    order, that each row of an annual one is labelled in one of the conventions
    known (`Labels`: local time, that of the interval before, or winter time
    throughout, even mixed) and each of a table with its local time or one that
    does not exist, that the year ends with the offset it began with, and that
    the clocks go back once (`ClocksGoBackOnce`). Of an annual file, what
    `WellPublished` looks at is enough: as many rows as the year has intervals
    leave no room for a missing one (`RowsLeaveRoom`) once the last label shows
    that the file ends where the year does (`LastLabel`). No label in between has
    to be resolved, the ambiguous ones of the hour that occurs twice included.
    Of a table they have to be (`LocalTimesMeant`): wherever labels do not go
    up with time the clocks went back in between (`BackBetween`). So a label
    stands for at most one time on each side of that change, and the one place
    in a run where the labels begin anew is the change itself.

Type invariants are proved and not checked by a run of their own: the properties
of the runs would fail to evaluate long before.

Sums along a path and the rounds of a search are recursive functions. What they
return is proved without an induction rule: the numbers at which a statement
fails would have a least one (`LeastElement`, from the well-foundedness of `<`),
and there it follows from the number before. A recursive function is chosen to
satisfy its equation, which means something only if such a function exists: the
least length without one would be one more than a length that has one, and that
one can be extended (`SumsExist`, `StepsExist`).

Model-checked only is liveness, which the proof system cannot reach under
fairness. What is proved of each property is its safety half, that the steps
which are fair bring about, or come nearer to, what must happen:

| Liveness property (run) | Safety half (theorem) |
|---|---|
| `VisibleOrReported`, `Quiesces` (`snapshot_reload`) | `VisibleWhenIdle`, `ReloadsEnd` |
| `Converges` (`api_controller`) | `OperationsEnd`, `CurrentFilesServed` |
| `DerivedCatchesUp`, `LiveDataGoesOn` (`live_worker`) | `RefreshesHeal`, `SavesGoOn` |
| `Terminates` (`derivation_executor`) | `LoopNeverStuck` |
| `RunEnds` (`reference_refresh`) | `RunsShrink` |
| `CatchesUp` (`dashboard`) | `NothingOlderThanToken` |

That these steps remain possible until then, and with fairness happen, is what
the runs show.

## 5. Plan

Written: the modules above, in the order of section 2: the file, what reads it,
what serves it, what writes it, what is computed from it, what asks for it. To
come: two acquisition workers at the level of stores.

## 6. Not modelled

* The RDF exports at the end of a cycle and of a reference run: written without
  atomic replacement, but no part of the program reads them.
* The live adapters' parsing, the agents' conversion of records, the
  knowledge-graph projection, contracts, logging, readiness reports, the
  benchmark and acceptance tools: no state that outlives a call.
* Numerical content: fitting and scores of energy models, derived values, heat
  and demand projections of a scenario. Only that a projection raises is kept.
* In the dashboard the route planner, scenario form, search and inspectors: their
  requests have no generation, so a slower older answer may overwrite a newer
  one, and no document says otherwise.
* Two acquisition workers at the level of whole stores (only `AtomicFile` has
  two writers): the composition runs one.
* Persisted freshness that ages while no worker runs: the API shows what was
  classified at the last cycle, and no document says otherwise. What the agents
  report (`agents/health`) is classified anew and is in `CityAgents`.
