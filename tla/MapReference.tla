---------------------------- MODULE MapReference ----------------------------
(***************************************************************************)
(* api/map_reference.py: what the map of the dashboard is given of a       *)
(* reference state for a viewport, at most Limit objects of each layer.    *)
(*                                                                         *)
(* A geometry is the set of its coordinate pairs (of those of its parts,   *)
(* if it is a collection), wgs84 says whether they are WGS84 coordinates.  *)
(* A reference state is a sequence of objects for each layer.              *)
(* Definitions marked "slip" are wrong variants of the one that follows.   *)
(***************************************************************************)
EXTENDS FiniteSetsExt, Integers, Sequences

CONSTANT Limit

ASSUME LimitAssumption == Limit \in Nat \ {0}

Layers == {"facilities", "stops", "climate"}

Box(west, south, east, north) ==
  [west |-> west, south |-> south, east |-> east, north |-> north]

\* MapBounds refuses an empty viewport.
IsViewport(view) ==
  /\ {view.west, view.south, view.east, view.north} \subseteq Int
  /\ view.west < view.east /\ view.south < view.north

IsObject(item) ==
  /\ item.wgs84 \in BOOLEAN
  /\ IsFiniteSet(item.points) /\ item.points \subseteq Int \X Int

\* geometry_bounds
BoundsOf(points) ==
  Box(Min({p[1] : p \in points}), Min({p[2] : p \in points}),
      Max({p[1] : p \in points}), Max({p[2] : p \in points}))

\* slip: an object larger than the viewport has no corner in it
CornerInside(view, box) ==
  \E x \in {box.west, box.east}, y \in {box.south, box.north} :
    x \in view.west..view.east /\ y \in view.south..view.north
\* MapBounds.intersects
Intersects(view, box) ==
  ~(\/ box.east < view.west \/ box.west > view.east
    \/ box.north < view.south \/ box.south > view.north)

\* _mappable
Mappable(item, view) ==
  item.wgs84 /\ item.points # {} /\ Intersects(view, BoundsOf(item.points))

\* reference_feature_collection: the first ones, and whether there are more.
\* An object is its place in the layer.
Selected(items, view) ==
  LET matched  == {i \in 1..Len(items) : Mappable(items[i], view)}
      count(i) == Cardinality({j \in matched : j <= i})
  IN  [features  |-> {i \in matched : count(i) <= Limit},
       truncated |-> Cardinality(matched) > Limit]

FeatureCollection(reference, view) ==
  [layer \in Layers |-> Selected(reference[layer], view)]
=============================================================================
