-------------------------- MODULE MCCriticalRoutes --------------------------
(***************************************************************************)
(* Four crossings with a one-way street, a pair of parallel roads, two     *)
(* equally fast ways from a to d, of one road and of three, and a faster   *)
(* way from d to a than the road between them.  Two maps have a node       *)
(* without coordinates: one of them can be served, the other not.          *)
(***************************************************************************)
EXTENDS CriticalRoutes

Road(id, u, v, both, time) ==
  [id |-> id, source |-> u, target |-> v, both |-> both, time |-> time]

Network ==
  {Road(1, "a", "b", TRUE, 1), Road(2, "b", "c", TRUE, 2), Road(3, "b", "c", TRUE, 1),
   Road(4, "c", "a", FALSE, 1), Road(5, "a", "d", TRUE, 3), Road(6, "d", "c", TRUE, 1)}

Kind == [h1 |-> "hospital", h2 |-> "hospital", f1 |-> "fire_station"]

Disruption(id, full, on, near, from, to) ==
  [id |-> id, full |-> full, on |-> on, near |-> near, from |-> from, to |-> to]

Works ==
  {Disruption(1, TRUE, {{"a", "b"}}, {{"a", "b"}, {"b", "c"}}, 0, 1),
   Disruption(2, TRUE, {{"c", "d"}}, {{"c", "d"}}, 1, 1),
   Disruption(3, FALSE, {{"a", "d"}}, {{"a", "d"}}, 0, 2)}

Placements ==
  {[h1 |-> "a", h2 |-> "d", f1 |-> "c"], [h1 |-> "c", h2 |-> "c", f1 |-> "a"],
   [h1 |-> "d", h2 |-> "nowhere", f1 |-> "a"], [h1 |-> "a", h2 |-> "c", f1 |-> "a"]}

Maps ==
  {[edges |-> edges, node |-> node, placed |-> TRUE] :
     edges \in {Network, {e \in Network : e.id # 6}, {e \in Network : e.id < 5}},
     node \in Placements}
  \cup {[edges |-> Network, node |-> node, placed |-> FALSE] :
            node \in {[f1 |-> "a"], [h1 |-> "a", f1 |-> "c"]}}
=============================================================================
