---------------------------- MODULE MCDashboard -----------------------------
(***************************************************************************)
(* Instance of Dashboard: two replacements, two polls and two viewport     *)
(* requests under way, two parts of a load.  Of the objects some are       *)
(* points, one covers a whole viewport, one has no geometry and one is not *)
(* in WGS84; a layer holds more than the limit of one viewport.            *)
(***************************************************************************)
EXTENDS Dashboard, TLC

CONSTANTS p1, p2, m1, m2

Object(wgs84, points) == [wgs84 |-> wgs84, points |-> points]

School  == Object(TRUE, {<<1, 1>>})
Station == Object(TRUE, {<<2, 1>>})
Clinic  == Object(TRUE, {<<4, 4>>})
Vault   == Object(FALSE, {<<1, 1>>})
Nowhere == Object(TRUE, {})
Forest  == Object(TRUE, {<<0, 0>>, <<5, 0>>, <<5, 5>>})
Square  == Object(TRUE, {<<2, 2>>, <<3, 3>>})

City(facilities, climate) ==
  [layer \in Layers |->
     CASE layer = "facilities" -> facilities
       [] layer = "climate"    -> climate
       [] OTHER                -> <<>>]
MCReferences ==
  (0 :> City(<<>>, <<>>)) @@
  (1 :> City(<<Nowhere, Clinic, School, Vault>>, <<Forest>>)) @@
  (2 :> City(<<School, Station, Clinic>>, <<Square, Forest>>))

Near == Box(1, 1, 2, 2)
Far  == Box(3, 3, 4, 4)
MCViews == {Near, Far}
=============================================================================
