--------------------------- MODULE ApiController ---------------------------
(***************************************************************************)
(* api/app.py: _ApiStateController, which refreshes the five snapshots on  *)
(* the event loop before every request and publishes them field by field   *)
(* in app.state, and the endpoint functions, which read those fields one   *)
(* by one on threadpool threads without the controller's lock.             *)
(*                                                                         *)
(* A state of kind "unusable" passes its store's schema and is loaded, but *)
(* _apply cannot work with it: a reference state (a NetworkNode without    *)
(* coordinates) makes CriticalRouteMonitor.build raise, traffic (an event  *)
(* without a geometry) does so while the event is active and looked at,    *)
(* and an energy state (a forecast outside its bounds) makes               *)
(* EnergyAgent.register_forecast raise, after six fields are assigned.     *)
(***************************************************************************)
EXTENDS SnapshotReload, Sequences

CONSTANTS
  Saves,       \* how often the stores may be published in an instance
  Movable,     \* the stores whose file may be taken away in an instance
  Endpoints,   \* the endpoint functions that run in an instance
  StatErrors   \* whether stat may raise an OSError that is not FileNotFoundError

StoreOrder == <<"runtime", "reference", "energy", "derived", "traffic">>

\* The order of the assignments of _apply.
FieldOrder == <<"runtime", "reference", "energy_state", "derived",
                "traffic_disruptions", "critical_routes", "agents", "orchestrator">>

Fields == {FieldOrder[i] : i \in 1..Len(FieldOrder)}

\* The stores each field of app.state is built from.
Feeds == [f \in Fields |->
  CASE f = "energy_state" -> {"energy"}
    [] f = "traffic_disruptions" -> {"traffic"}
    [] f = "critical_routes" -> {"reference", "traffic"}
    [] f \in {"agents", "orchestrator"} -> {"runtime", "reference", "energy"}
    [] OTHER -> {f}]

\* The reads of app.state of some endpoints, in program order.
Reads ==
  [route  |-> <<"agents", "reference", "traffic_disruptions">>,
   graph  |-> <<"agents", "runtime", "reference", "derived">>,
   assess |-> <<"reference", "agents", "agents", "agents">>]

ASSUME ApiControllerAssumption ==
  /\ Stores = {StoreOrder[i] : i \in 1..Len(StoreOrder)}
  /\ Loadable = {"valid", "unusable"}
  /\ Saves \subseteq [Stores -> 0..MaxPublications]
  /\ Movable \subseteq Stores
  /\ Endpoints \subseteq DOMAIN Reads
  /\ StatErrors \in BOOLEAN

VARIABLES
  op,       \* what the controller does: down, initialize, idle, refresh
  at,       \* the next step of it: a store to refresh, then _apply
  changed,  \* the stores whose refresh returned True in this operation
  routes,   \* self._critical_routes
  app,      \* app.state: for each field, what it was built from
  missed,   \* history: changes reported to an operation that raised
  handler   \* one endpoint function on its threadpool thread

controller == <<op, at, changed>>
apiVars == <<vars, op, at, changed, routes, app, missed, handler>>

Content == [n : 0..MaxPublications, kind : Loadable \cup {"none"}]
NoRoutes == [s \in {} |-> Nothing]
EmptyApp == [f \in Fields |-> [s \in Feeds[f] |-> Nothing]]
NoHandler == [endpoint |-> "none", seen |-> <<>>]

ApplyStep == Len(StoreOrder) + 1
FirstField == ApplyStep + 1
LastField == ApplyStep + Len(FieldOrder)

ApiInit ==
  /\ Init
  /\ op = "down" /\ at = 1 /\ changed = {}
  /\ routes = NoRoutes
  /\ app = EmptyApp
  /\ missed = {}
  /\ handler = NoHandler
-----------------------------------------------------------------------------
Environment(s) ==
  /\ \/ /\ Publish(s)
        /\ [t \in Stores |-> published'[t].n] \in Saves
        /\ published'[s].kind = "unusable" => s \in {"reference", "traffic", "energy"}
     \/ s \in Movable /\ (Withdraw(s) \/ Restore(s))
  /\ UNCHANGED <<controller, routes, app, missed, handler>>
-----------------------------------------------------------------------------
Begin(o) == op' = o /\ at' = 1 /\ changed' = {}

\* The process is started and its lifespan initializes the controller.
Start ==
  /\ op = "down"
  /\ Begin("initialize")
  /\ UNCHANGED <<vars, routes, app, missed, handler>>

\* The middleware, before the request is dispatched.
BeginRefresh ==
  /\ op = "idle"
  /\ Begin("refresh")
  /\ UNCHANGED <<vars, routes, app, missed, handler>>

\* The process ends, and all that it held is gone.
ToDown ==
  /\ Begin("down")
  /\ value' = [s \in Stores |-> Nothing]
  /\ signature' = [s \in Stores |-> 0]
  /\ knownMissing' = [s \in Stores |-> FALSE]
  /\ status' = [s \in Stores |-> "missing"]
  /\ loading' = [s \in Stores |-> FALSE]
  /\ UNCHANGED files
  /\ routes' = NoRoutes
  /\ app' = EmptyApp
  /\ missed' = {}
  /\ handler' = NoHandler

Crash ==
  /\ op # "down"
  /\ ToDown

\* An exception ends the operation: the lifespan fails, or the request is
\* answered 500.  What the refreshes had reported is forgotten.
Raise ==
  \/ /\ op = "initialize"
     /\ ToDown
  \/ /\ op = "refresh"
     /\ Begin("idle")
     /\ missed' = missed \cup changed
     /\ UNCHANGED <<vars, routes, app, handler>>
-----------------------------------------------------------------------------
Store == StoreOrder[at]
Forced == op = "initialize"
AtStore == op \in {"initialize", "refresh"} /\ at < ApplyStep

\* refresh() of the current store returns.
Return(result) ==
  /\ at' = at + 1
  /\ changed' = IF result THEN changed \cup {Store} ELSE changed
  /\ UNCHANGED <<op, routes, app, missed, handler>>

RefreshUnchanged ==
  /\ AtStore
  /\ EarlyReturn(Store, Forced)
  /\ UNCHANGED vars
  /\ Return(FALSE)

RefreshMissing ==
  /\ AtStore
  /\ StatMissing(Store, Forced)
  /\ Return(FALSE)

RefreshStat ==
  /\ AtStore
  /\ StatChanged(Store, Forced)
  /\ UNCHANGED <<controller, routes, app, missed, handler>>

RefreshLoadValid ==
  /\ AtStore
  /\ LoadValid(Store)
  /\ Return(TRUE)

RefreshLoadFails ==
  /\ AtStore
  /\ LoadRaises(Store) \/ LoadFindsNone(Store)
  /\ Return(FALSE)

RefreshStatRaises ==
  /\ StatErrors
  /\ AtStore /\ ~loading[Store]
  /\ Raise
-----------------------------------------------------------------------------
NothingChanged ==
  /\ op = "refresh" /\ at = ApplyStep
  /\ changed = {}
  /\ Begin("idle")
  /\ UNCHANGED <<vars, routes, app, missed, handler>>

AtApply == at = ApplyStep /\ (op = "initialize" \/ changed # {})

\* slip: new traffic does not recompute the critical routes
RebuildOnReferenceOnly ==
  op = "initialize" \/ "reference" \in changed \/ routes = NoRoutes
RebuildDue ==
  op = "initialize" \/ changed \cap {"reference", "traffic"} # {} \/ routes = NoRoutes

BuildRoutes ==
  /\ AtApply
  /\ RebuildDue
  /\ value["reference"].kind # "unusable"
  /\ routes' = [s \in Feeds["critical_routes"] |-> value[s]]
  /\ at' = FirstField
  /\ UNCHANGED <<vars, op, changed, app, missed, handler>>

KeepRoutes ==
  /\ AtApply
  /\ ~RebuildDue
  /\ at' = FirstField
  /\ UNCHANGED <<vars, op, changed, routes, app, missed, handler>>

\* Traffic that is unusable is not always looked at: the clock decides.
BuildRaises ==
  /\ AtApply
  /\ RebuildDue
  /\ \E s \in Feeds["critical_routes"] : value[s].kind = "unusable"
  /\ Raise

\* slip: the agents are assigned before what they are built from
AgentsFirst(i) == FieldOrder[Len(FieldOrder) + 1 - i]
FieldAt(i) == FieldOrder[i]

\* slip: the recomputed routes are cached but not assigned
AssignedWithoutRoutes(f) ==
  CASE f = "critical_routes" -> app[f]
    [] f = "orchestrator" -> app["agents"]
    [] OTHER -> [s \in Feeds[f] |-> value[s]]
Assigned(f) ==
  CASE f = "critical_routes" -> routes
    [] f = "orchestrator" -> app["agents"]
    [] OTHER -> [s \in Feeds[f] |-> value[s]]

AtField == at >= FirstField
Field == FieldAt(at - ApplyStep)

\* _build_agents constructs every agent before app.state.agents is assigned.
AgentsFail == Field = "agents" /\ value["energy"].kind = "unusable"

\* One assignment of _apply; the last one ends the operation, and hides no
\* longer what an earlier one had lost, unless it kept older routes.
AssignField ==
  /\ AtField /\ ~AgentsFail
  /\ app' = [app EXCEPT ![Field] = Assigned(Field)]
  /\ IF at < LastField
     THEN at' = at + 1 /\ UNCHANGED <<op, changed, missed>>
     ELSE /\ Begin("idle")
          /\ missed' = {s \in missed \cap Feeds["critical_routes"] : routes[s] # value[s]}
  /\ UNCHANGED <<vars, routes, handler>>

\* The fields before the agents keep what they were just assigned.
AgentsRaise ==
  /\ AtField /\ AgentsFail
  /\ Raise

ControllerStep ==
  \/ BeginRefresh
  \/ RefreshUnchanged
  \/ RefreshMissing
  \/ RefreshStat
  \/ RefreshLoadValid
  \/ RefreshLoadFails
  \/ RefreshStatRaises
  \/ NothingChanged
  \/ BuildRoutes
  \/ KeepRoutes
  \/ BuildRaises
  \/ AssignField
  \/ AgentsRaise
-----------------------------------------------------------------------------
\* An endpoint function runs once its own request's refresh is over; refreshes
\* of later requests may run at the same time.
Dispatch(e) ==
  /\ op \in {"idle", "refresh"}
  /\ handler = NoHandler
  /\ handler' = [endpoint |-> e, seen |-> <<>>]
  /\ UNCHANGED <<vars, controller, routes, app, missed>>

Running == handler.endpoint # "none"
ToRead == Reads[handler.endpoint]

ReadField ==
  /\ Running
  /\ Len(handler.seen) < Len(ToRead)
  /\ handler' = [handler EXCEPT !.seen = Append(@, app[ToRead[Len(@) + 1]])]
  /\ UNCHANGED <<vars, controller, routes, app, missed>>

Respond ==
  /\ Running
  /\ Len(handler.seen) = Len(ToRead)
  /\ handler' = NoHandler
  /\ UNCHANGED <<vars, controller, routes, app, missed>>

ApiNext ==
  \/ \E s \in Stores : Environment(s)
  \/ Start
  \/ Crash
  \/ ControllerStep
  \/ \E e \in Endpoints : Dispatch(e)
  \/ ReadField
  \/ Respond

ApiSpec == ApiInit /\ [][ApiNext]_apiVars

\* Requests keep coming and the event loop runs what it started.
ApiFairSpec == ApiSpec /\ WF_apiVars(ControllerStep)
-----------------------------------------------------------------------------
(***************************************************************************)
(* Between operations, every field of app.state shows the active value of  *)
(* every store it is built from, except for changes that were reported to  *)
(* an operation that raised, in a stat, in the build of the routes or, with *)
(* six fields assigned already, in that of the agents: only those get lost. *)
(***************************************************************************)
ServedUnlessMissed ==
  op = "idle" =>
    \A f \in Fields : \A s \in Feeds[f] : app[f][s] = value[s] \/ s \in missed

(***************************************************************************)
(* Within one process no field ever goes back to older content, whichever  *)
(* refreshes and builds fail on the way.                                   *)
(***************************************************************************)
NoFieldGoesBack ==
  [][op # "down" /\ op' # "down" =>
       \A f \in Fields : \A s \in Feeds[f] : app[f][s].n <= app'[f][s].n]_apiVars

(***************************************************************************)
(* Endpoints that take the agents first (a route, the graph) never see     *)
(* agents newer than the reference state they combine them with: a route   *)
(* over a new network is never drawn with the old nodes.                   *)
(***************************************************************************)
AgentsTrailReference ==
  handler.endpoint \in {"route", "graph"} =>
    \A i, j \in 1..Len(handler.seen) :
      ToRead[i] = "agents" /\ ToRead[j] = "reference" =>
        handler.seen[i]["reference"].n <= handler.seen[j]["reference"].n

(***************************************************************************)
(* Once the files are settled and every store's diagnostic is current, the *)
(* API serves exactly those files, unless an operation that had seen a     *)
(* change raised, or stat keeps raising (for any one store: it hides the   *)
(* stores after it).                                                       *)
(***************************************************************************)
UpToDate ==
  /\ op # "down" /\ missed = {}
  /\ \A s \in Stores : published[s] # Nothing => Settled(s) /\ status[s] = "current"

Converges ==
  <>[]UpToDate /\ <>[][~RefreshStatRaises]_apiVars =>
    <>[](\A f \in Fields : \A s \in Feeds[f] : app[f][s] = published[s])

(***************************************************************************)
(* docs/architecture.md: "successfully validated replacements atomically   *)
(* rebuild the affected in-process state/agents/orchestrator", so all that *)
(* one request reads of app.state is built from the same snapshots.        *)
(***************************************************************************)
RequestSeesOneSnapshot ==
  \A i, j \in 1..Len(handler.seen) :
    \A s \in DOMAIN handler.seen[i] \cap DOMAIN handler.seen[j] :
      handler.seen[i][s] = handler.seen[j][s]
=============================================================================
