---------------------------- MODULE RoadNetwork ----------------------------
(***************************************************************************)
(* A road network as runtime/critical_routes.py and agents/resilience.py   *)
(* search it: roads between nodes, one-way or both ways, possibly several  *)
(* in parallel, and the fastest paths along them.  A road is a record of   *)
(* id, source, target, both and time.  Of equally fast paths any may be    *)
(* taken.                                                                  *)
(* Definitions marked "slip" are wrong variants of the one that follows.   *)
(***************************************************************************)
EXTENDS FiniteSetsExt, Integers, Sequences

CONSTANT Nodes

\* _build_graph: the edges by which one can go from u to v.
Hop(edges, u, v) ==
  {e \in edges : \/ e.source = u /\ e.target = v
                 \/ e.both /\ e.source = v /\ e.target = u}

\* _path_edges takes the fastest of parallel edges.
HopTime(edges, u, v) == Min({e.time : e \in Hop(edges, u, v)})

Total(times) ==
  LET upTo[i \in 0..Len(times)] == IF i = 0 THEN 0 ELSE upTo[i - 1] + times[i]
  IN  upTo[Len(times)]

Time(edges, p) == Total([i \in 1..(Len(p) - 1) |-> HopTime(edges, p[i], p[i + 1])])

\* Node paths from o to another node d; a fastest one meets no node twice.
Between(o, d) ==
  {<<o>> \o via \o <<d>> :
     via \in UNION {[1..k -> Nodes \ {o, d}] : k \in 0..(Cardinality(Nodes) - 2)}}

Paths(edges, o, d) ==
  {p \in Between(o, d) :
     \A i \in 1..(Len(p) - 1) : Hop(edges, p[i], p[i + 1]) # {}}

\* slip: the search is not given the weight, so it counts roads
FewestRoads(edges, paths) == {p \in paths : \A q \in paths : Len(p) <= Len(q)}
Fastest(edges, paths) ==
  {p \in paths : \A q \in paths : Time(edges, p) <= Time(edges, q)}

SegmentsOf(p) == {{p[i], p[i + 1]} : i \in 1..(Len(p) - 1)}
=============================================================================
