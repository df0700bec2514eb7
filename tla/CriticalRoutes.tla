--------------------------- MODULE CriticalRoutes ---------------------------
(***************************************************************************)
(* runtime/critical_routes.py: CriticalRouteMonitor, which routes every    *)
(* snapped facility to its nearest facility of another category and        *)
(* applies the active road disruptions, kept until the reference or the    *)
(* traffic state changes; and the route endpoint of api/app.py, which does *)
(* the like for two nodes when it is asked.                                *)
(*                                                                         *)
(* A road is a straight segment between its nodes, so geometry is reduced  *)
(* to which segments a disruption lies on (the edge rule) and which it is  *)
(* near (the route rule); what it lies on it is near.  This assumes that   *)
(* the ends of every road are listed among the nodes and that every        *)
(* disruption has a geometry, as the importers see to; what the code does  *)
(* with a road or a detour that has none is not here.  Of equally fast     *)
(* paths, and of the facilities at one node, any may be taken.             *)
(* Definitions marked "slip" are wrong variants of the one that follows.   *)
(***************************************************************************)
EXTENDS RoadNetwork

CONSTANTS
  Roads,        \* edges: records of id, source, target, both, time
  Category,     \* Category[f]: the category of facility f
  Far,          \* stands for a facility that no node is close enough to
  Disruptions,  \* records of id, full, on, near, from, to
  References,   \* reference states: records of edges, node, and whether all nodes are placed
  MaxTime       \* bounds the clock

Facilities == DOMAIN Category
Segments == SUBSET Nodes

ASSUME CriticalRoutesAssumption ==
  /\ IsFiniteSet(Nodes) /\ Far \notin Nodes
  /\ \A e \in Roads :
       /\ e.source \in Nodes /\ e.target \in Nodes
       /\ e.both \in BOOLEAN /\ e.time \in Nat \ {0}
  /\ \A d \in Disruptions :
       /\ d.full \in BOOLEAN /\ d.on \subseteq d.near /\ d.near \subseteq Segments
       /\ d.from \in Int /\ d.to \in Int
  /\ \A r \in References :
       /\ r.edges \subseteq Roads /\ r.placed \in BOOLEAN
       /\ DOMAIN r.node \subseteq Facilities
       /\ \A f \in DOMAIN r.node : r.node[f] \in Nodes \cup {Far}
  /\ MaxTime \in Nat

VARIABLES
  clock,
  reference,   \* the edges, and the node each facility is snapped to
  traffic,     \* the road-disruption state
  monitor      \* the cached snapshot: when it was computed, and its routes

vars == <<clock, reference, traffic, monitor>>
-----------------------------------------------------------------------------
\* slip: the persisted state is used whatever its freshness
UsableOnceAcquired(state) == state.succeeded
\* _active_disruptions: only a valid state has any.
Usable(state) == state.succeeded /\ state.freshness = "valid"

Active(state, t) ==
  IF Usable(state) THEN {d \in state.disruptions : t \in d.from .. d.to} ELSE {}

\* _closed_edge_ids: only full closures close.
Closed(edges, active) ==
  {e \in edges : \E d \in active : d.full /\ {e.source, e.target} \in d.on}

Matched(p, active) == {d \in active : d.near \cap SegmentsOf(p) # {}}

OnRoute(p, closed) == {e \in closed : {e.source, e.target} \in SegmentsOf(p)}

\* slip: only the closures of this route are avoided, not those of the network
AvoidingOwn(edges, closed, p) == edges \ OnRoute(p, closed)
\* _remove_closed_edges
Avoiding(edges, closed, p) == edges \ closed

Outcome(kind, effective) == [state |-> kind, effective |-> effective]

\* _apply_disruptions: the outcomes for a baseline path.
Applied(edges, state, t, p) ==
  LET active == Active(state, t)
      closed == Closed(edges, active)
      open   == Avoiding(edges, closed, p)
      ways   == Paths(open, p[1], p[Len(p)])
  IN  CASE ~state.succeeded -> {Outcome("baseline", <<>>)}
        [] state.succeeded /\ Matched(p, active) = {} -> {Outcome("baseline", p)}
        [] Matched(p, active) # {} /\ OnRoute(p, closed) = {} ->
             {Outcome("disrupted", p)}
        [] OnRoute(p, closed) # {} /\ ways = {} -> {Outcome("blocked", <<>>)}
        [] OTHER -> {Outcome("rerouted", q) : q \in Fastest(open, ways)}
-----------------------------------------------------------------------------
Snapped(ref) == {f \in DOMAIN ref.node : ref.node[f] # Far}

\* slip: any other facility is a target, whatever its category
AnyTarget(ref, f) == {g \in Snapped(ref) : g # f}
Targets(ref, f) == {g \in Snapped(ref) : Category[g] # Category[f]}

TargetNodes(ref, f) == {ref.node[g] : g \in Targets(ref, f)}

\* What the multi-source search on the reversed graph finds, read forwards.  An
\* origin at the node of a target gets the path of one node, which is no route.
Ways(ref, f) ==
  IF ref.node[f] \in TargetNodes(ref, f) THEN {}
  ELSE UNION {Paths(ref.edges, ref.node[f], n) : n \in TargetNodes(ref, f)}

Routed(ref) == {f \in Snapped(ref) : Ways(ref, f) # {}}

\* The routes a build may find for f at time t.
RoutesOf(ref, state, t, f) ==
  UNION {{[destination |-> g, path |-> p, state |-> o.state, effective |-> o.effective] :
            g \in {h \in Targets(ref, f) : ref.node[h] = p[Len(p)]},
            o \in Applied(ref.edges, state, t, p)} :
         p \in Fastest(ref.edges, Ways(ref, f))}

\* build: unavailable without a network or with less than two facilities.
Complete(ref) == ref.edges # {} /\ Cardinality(DOMAIN ref.node) >= 2

Unavailable(t) ==
  [at |-> t, routes |-> [f \in {} |-> <<>>], unsnapped |-> {}, unreachable |-> {}]

\* The functions that take a member of each set of a table.
OneOfEach(table) ==
  {pick \in [DOMAIN table -> UNION {table[f] : f \in DOMAIN table}] :
     \A f \in DOMAIN table : pick[f] \in table[f]}

\* The snapshots of a build, none if it raises: snapping needs every node placed.
Built(ref, state, t) ==
  CASE ~Complete(ref) -> {Unavailable(t)}
    [] Complete(ref) /\ ~ref.placed -> {}
    [] OTHER ->
         UNION {{[at          |-> t,
                  routes      |-> found,
                  unsnapped   |-> DOMAIN ref.node \ Snapped(ref),
                  unreachable |-> Snapped(ref) \ Routed(ref)] :
                 found \in OneOfEach(table)} :
                table \in {[f \in Routed(ref) |-> RoutesOf(ref, state, t, f)]}}
-----------------------------------------------------------------------------
\* slip: the detour avoids the closed edges of the baseline route only
OpenForDetour(edges, closed, p) == AvoidingOwn(edges, closed, p)
\* shortest_path_avoiding_edges is given every closed edge of the network.
OpenToRequest(edges, closed, p) == edges \ closed

\* The route endpoint, asked at time t for a route between two nodes.
Answers(edges, state, t, o, d) ==
  LET active  == Active(state, t)
      closed  == Closed(edges, active)
      open(p) == OpenToRequest(edges, closed, p)
      answer(p) ==
        CASE Matched(p, active) = {} -> {Outcome("baseline", p)}
          [] Matched(p, active) # {} /\ OnRoute(p, closed) = {} ->
               {Outcome("disrupted", p)}
          [] OnRoute(p, closed) # {} /\ Paths(open(p), o, d) = {} ->
               {Outcome("blocked", <<>>)}
          [] OTHER -> {Outcome("rerouted", q) :
                         q \in Fastest(open(p), Paths(open(p), o, d))}
  IN  UNION {answer(p) : p \in Fastest(edges, Paths(edges, o, d))}
-----------------------------------------------------------------------------
Freshnesses == {"valid", "stale", "unknown", "unavailable"}
NoTraffic == [succeeded |-> FALSE, freshness |-> "unavailable", disruptions |-> {}]

Init ==
  /\ clock = 0
  /\ reference \in References
  /\ traffic = NoTraffic
  /\ monitor \in Built(reference, traffic, clock)

Tick ==
  /\ clock < MaxTime
  /\ clock' = clock + 1
  /\ UNCHANGED <<reference, traffic, monitor>>

\* The API loads another reference state and rebuilds the snapshot.  If the build
\* raises, nothing is assigned: what is served stays (ApiController).
ReplaceReference ==
  /\ reference' \in References
  /\ monitor' \in Built(reference', traffic, clock)
  /\ UNCHANGED <<clock, traffic>>

\* It loads another traffic state: of a successful acquisition, whose content
\* is unknown in age when there is none, or of a failed one, which keeps what
\* there was.
Acquired ==
  {[succeeded |-> TRUE, freshness |-> "unknown", disruptions |-> {}]}
  \cup {[succeeded |-> TRUE, freshness |-> fresh, disruptions |-> found] :
          fresh \in {"valid", "stale"}, found \in (SUBSET Disruptions) \ {{}}}
Kept ==
  [traffic EXCEPT !.freshness = IF traffic.succeeded THEN "stale" ELSE "unavailable"]

ReplaceTraffic ==
  /\ traffic' \in Acquired \cup {Kept}
  /\ monitor' \in Built(reference, traffic', clock)
  /\ UNCHANGED <<clock, reference>>

Next == Tick \/ ReplaceReference \/ ReplaceTraffic

Spec == Init /\ [][Next]_vars
-----------------------------------------------------------------------------
OutcomeKinds == {"baseline", "disrupted", "rerouted", "blocked"}

RoutesTypeOK ==
  /\ clock \in 0..MaxTime
  /\ reference \in References
  /\ traffic.succeeded \in BOOLEAN
  /\ traffic.freshness \in Freshnesses
  /\ traffic.disruptions \subseteq Disruptions
  /\ monitor.at \in 0..clock
  /\ DOMAIN monitor.routes \subseteq DOMAIN reference.node
  /\ \A f \in DOMAIN monitor.routes : monitor.routes[f].state \in OutcomeKinds

\* The edges that were closed when the snapshot was computed.
ClosedThen == Closed(reference.edges, Active(traffic, monitor.at))

(***************************************************************************)
(* docs/critical-route-monitoring.md: every facility is monitored to its   *)
(* nearest facility of another category, by any path, or reported: off the *)
(* network, or unreachable when no such facility can be reached (or one is *)
(* at the same node, which makes no route).                                *)
(***************************************************************************)
NearestOrReported ==
  Complete(reference) =>
    \A f \in DOMAIN reference.node :
      LET node == reference.node
          others == {g \in DOMAIN node : Category[g] # Category[f] /\ node[g] # Far}
          ways(g) == Paths(reference.edges, node[f], node[g])
      IN  CASE f \in monitor.unsnapped -> node[f] = Far
            [] f \in monitor.unreachable ->
                 \/ \A g \in others : ways(g) = {}
                 \/ \E g \in others : node[g] = node[f]
            [] OTHER ->
                 LET found == monitor.routes[f] IN
                 /\ found.destination \in others
                 /\ found.path \in ways(found.destination)
                 /\ \A g \in others : \A p \in ways(g) :
                      Time(reference.edges, found.path) <= Time(reference.edges, p)

(***************************************************************************)
(* "Only severity=Vollsperrung removes matched road edges", and all of     *)
(* them: a route is blocked exactly when every way between its ends uses a *)
(* road that was closed at the time, and the way it is said to take        *)
(* otherwise uses none.                                                    *)
(***************************************************************************)
ClosuresRespected ==
  \A f \in DOMAIN monitor.routes :
    LET found == monitor.routes[f]
        open  == reference.edges \ ClosedThen
        ways  == Paths(open, found.path[1], found.path[Len(found.path)])
    IN  traffic.succeeded =>
          /\ found.state = "blocked" <=> ways = {}
          /\ found.state # "blocked" => found.effective \in ways

(***************************************************************************)
(* The delay a route shows is no more than the closures force: the way it  *)
(* takes is a fastest one over the roads that were open, so the delay is   *)
(* never negative, and is none unless a closed road is on the baseline.    *)
(***************************************************************************)
DelayIsForced ==
  \A f \in DOMAIN monitor.routes :
    LET found == monitor.routes[f]
        open  == reference.edges \ ClosedThen
        ways  == Paths(open, found.path[1], found.path[Len(found.path)])
        taken == Time(open, found.effective)
    IN  traffic.succeeded /\ found.state # "blocked" =>
          /\ \A p \in ways : taken <= Time(open, p)
          /\ Time(reference.edges, found.path) <= taken
          /\ found.state # "rerouted" => taken = Time(reference.edges, found.path)

(***************************************************************************)
(* "A stale last-known-good disruption snapshot remains inspectable but is *)
(* not allowed to alter routing": unless the last acquisition succeeded    *)
(* with recent content, every monitored route is its baseline.             *)
(***************************************************************************)
UnusableAltersNothing ==
  ~traffic.succeeded \/ traffic.freshness # "valid" =>
    \A f \in DOMAIN monitor.routes :
      /\ monitor.routes[f].state = "baseline"
      /\ monitor.routes[f].effective \in {<<>>, monitor.routes[f].path}

(***************************************************************************)
(* The map's monitor and its route planner do not contradict one another:  *)
(* while the same disruptions are active as when the snapshot was made, a  *)
(* request between the ends of a monitored route is blocked exactly when   *)
(* the monitor says so, and takes the same time, although equally fast     *)
(* baselines may differ in what disturbs them.                             *)
(***************************************************************************)
RequestAgrees ==
  traffic.succeeded /\ Active(traffic, clock) = Active(traffic, monitor.at) =>
    \A f \in DOMAIN monitor.routes :
      LET found == monitor.routes[f] IN
      \A a \in Answers(reference.edges, traffic, clock,
                       found.path[1], found.path[Len(found.path)]) :
        /\ a.state = "blocked" <=> found.state = "blocked"
        /\ a.state # "blocked" =>
             Time(reference.edges, a.effective) = Time(reference.edges, found.effective)
=============================================================================
