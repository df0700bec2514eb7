-------------------------- MODULE ScenarioRouting --------------------------
(***************************************************************************)
(* What agents/resilience.py computes under a hypothetical scenario        *)
(* (scenario_engine/models.py): the comparison of a route with and without *)
(* the scenario, and the facilities that can be reached within a budget.   *)
(*                                                                         *)
(* A scenario is a record of its kinds, the changes of temperature and of  *)
(* energy demand (None if there is none), the ids of closed roads, the     *)
(* penalties of roads by id, and the facilities out of service.  A         *)
(* reference state has the edges, the nodes, and for each facility the     *)
(* node it is snapped to, or Far.                                          *)
(* Definitions marked "slip" are wrong variants of the one that follows.   *)
(***************************************************************************)
EXTENDS RoadNetwork

CONSTANTS
  Far,          \* stands for a facility that no node is close enough to
  None,         \* no change, no value
  MaxPenalty    \* the greatest factor a road may be slowed down by

PenaltyInRange(s) == \A id \in DOMAIN s.penalties : s.penalties[id] \in 1..MaxPenalty

\* Scenario.validate_scenario: changes need their kind, and some kinds a change.
Accepts(s) ==
  /\ s.kinds # {}
  /\ "extreme_heat" \in s.kinds <=> s.temperature # None
  /\ "energy_demand" \in s.kinds <=> s.demand # None
  /\ s.closed # {} \/ DOMAIN s.penalties # {} => "network_disruption" \in s.kinds
  /\ s.unavailable # {} => "infrastructure_degradation" \in s.kinds
  /\ PenaltyInRange(s)

\* _scenario_graph: closed roads are removed, the time of slow ones multiplied.
Slowed(e, s) ==
  IF e.id \in DOMAIN s.penalties THEN [e EXCEPT !.time = @ * s.penalties[e.id]] ELSE e
ScenarioEdges(edges, s) == {Slowed(e, s) : e \in {x \in edges : x.id \notin s.closed}}

\* The nodes of the graph are those with a road, closed or not.
InGraph(edges, n) == \E e \in edges : n \in {e.source, e.target}

\* shortest_path and its travel time; it raises without a path.
PathTimes(edges, o, d) ==
  IF o = d THEN {0} ELSE {Time(edges, p) : p \in Paths(edges, o, d)}

\* compare_route: refused where a path is missing or has no length.
Comparable(edges, o, d, s) ==
  /\ Accepts(s)
  /\ InGraph(edges, o) /\ InGraph(edges, d) /\ o # d
  /\ PathTimes(edges, o, d) # {}
  /\ PathTimes(ScenarioEdges(edges, s), o, d) # {}

Comparison(edges, o, d, s) ==
  [baseline |-> Min(PathTimes(edges, o, d)),
   scenario |-> Min(PathTimes(ScenarioEdges(edges, s), o, d))]

\* single_source_dijkstra_path_length with a cutoff: the pairs of a node and
\* a time in which it is reached, over ever more roads.
\* slip: a node reached just in time is left out
LessThan(cutoff) == 0..(cutoff - 1)
Within(cutoff) == 0..cutoff

Reached(edges, o, cutoff) ==
  LET by[k \in 0..(Cardinality(Nodes) - 1)] ==
        IF k = 0 THEN {<<o, 0>>}
        ELSE LET before == by[k - 1]
                 onward == UNION {{<<n, q[2] + e.time>> : e \in Hop(edges, q[1], n)} :
                                    q \in before, n \in Nodes}
             IN  before \cup {r \in onward : r[2] \in Within(cutoff)}
  IN  {r[1] : r \in by[Cardinality(Nodes) - 1]}

\* accessibility_links: facilities snapped to the network are reachable or
\* not, the others are listed as such.
SnappedTo(ref) == {f \in DOMAIN ref.node : ref.node[f] # Far}

Access(ref, edges, o, budget, s) ==
  LET near == Reached(ScenarioEdges(edges, s), o, budget)
      reachable == {f \in SnappedTo(ref) : f \notin s.unavailable /\ ref.node[f] \in near}
  IN  [reachable   |-> reachable,
       unreachable |-> SnappedTo(ref) \ reachable,
       unsnapped   |-> DOMAIN ref.node \ SnappedTo(ref)]
=============================================================================
