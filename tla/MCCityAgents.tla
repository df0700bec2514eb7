---------------------------- MODULE MCCityAgents ----------------------------
(***************************************************************************)
(* Instance of CityAgents.  A year has ten rows with two changes of the    *)
(* offset.  Among the published files are an annual one, ones with labels  *)
(* in local and in winter time, the latter with a row missing, one without *)
(* a row of the hour that is labelled twice; and tables with regular and   *)
(* irregular times, with that hour once and twice, a label that does not   *)
(* exist, and labels that tell their offset.  The network has parallel     *)
(* roads, a one-way road and a node without a road; another one has nodes  *)
(* without coordinates, and one facility.  In time, forecasts are not yet  *)
(* issued, current and expired, observations ahead, fresh and stale.       *)
(***************************************************************************)
EXTENDS CityAgents, TLC

CONSTANTS n1, n2, n3, n4

MCOffset == [t \in 0..10 |-> IF t \in 2..7 THEN 2 ELSE 1]

Curve(format, times, labels, consistent) ==
  [format |-> format, times |-> times, labels |-> labels, consistent |-> consistent]
Year == <<0, 1, 2, 3, 4, 5, 6, 7, 8, 9>>
MCLoads == {
  Curve("annual", Year, <<1, 2, 3, 5, 6, 7, 8, 9, 10, 10>>, TRUE),
  Curve("annual", Year, <<1, 2, 3, 5, 6, 7, 8, 9, 10, 10>>, FALSE),
  Curve("annual", Year, <<1, 2, 4, 5, 6, 7, 8, 9, 9, 10>>, TRUE),
  Curve("annual", <<0, 1, 2, 4, 5, 6, 7, 8, 9, 10>>, <<1, 2, 3, 5, 6, 7, 8, 9, 10, 11>>, TRUE),
  Curve("annual", <<0, 1, 2, 3, 4, 5, 6, 7, 9, 10>>, <<1, 2, 3, 5, 6, 7, 8, 9, 10, 11>>, TRUE),
  Curve("annual", <<0, 1, 2, 3, 4, 5, 6, 7, 8>>, <<1, 2, 3, 5, 6, 7, 8, 9, 10>>, TRUE),
  Curve("local", <<1, 2, 3, 4, 5, 6, 7, 8>>, <<2, 4, 5, 6, 7, 8, 9, 9>>, TRUE),
  Curve("local", <<1, 2, 3, 4, 5, 6, 8>>, <<2, 4, 5, 6, 7, 8, 9>>, TRUE),
  Curve("local", <<0, 1, 2, 3, 4, 5, 6>>, <<1, 2, 3, 5, 6, 7, 8>>, TRUE),
  Curve("local", <<0, 1, 2, 4, 5, 6, 7, 8>>, <<1, 2, 4, 6, 7, 8, 9, 9>>, TRUE),
  Curve("local", <<6, 7, 8>>, <<8, 9, 9>>, TRUE),
  Curve("aware", <<2, 3, 4, 5, 6, 7, 8>>, <<2, 3, 4, 5, 6, 7, 8>>, TRUE)}

Score(mae, rmse) == [mae |-> mae, rmse |-> rmse]
MCScores == {
  <<Score(2, 2), Score(1, 1), Score(1, 1), Score(1, 2)>>,
  <<Score(2, 2), Score(2, 1), Score(1, 1), Score(1, 1)>>}

MCRuntimes == {
  [air |-> 7, heat |-> 8, temperature |-> "celsius", vbb |-> 8, trips |-> TRUE],
  [air |-> None, heat |-> 9, temperature |-> "unused", vbb |-> 9, trips |-> FALSE],
  [air |-> None, heat |-> 9, temperature |-> "foreign", vbb |-> None, trips |-> FALSE]}

Road(id, source, target, both, time) ==
  [id |-> id, source |-> source, target |-> target, both |-> both, time |-> time]
MCReferences == {
  [edges |-> {Road("a", n1, n2, TRUE, 1), Road("b", n2, n3, FALSE, 1),
              Road("c", n1, n3, TRUE, 3), Road("d", n1, n2, TRUE, 2)},
   nodes |-> {n1, n2, n3, n4}, placed |-> TRUE,
   node  |-> ("school" :> n3 @@ "station" :> n2 @@ "island" :> Far)],
  [edges |-> {Road("a", n1, n2, TRUE, 1)}, nodes |-> {n1, n2}, placed |-> FALSE,
   node  |-> ("school" :> Far)],
  [edges |-> {}, nodes |-> {}, placed |-> TRUE, node |-> <<>>]}

Change(kinds, temperature, demand, closed, penalties, unavailable) ==
  [kinds |-> kinds, temperature |-> temperature, demand |-> demand,
   closed |-> closed, penalties |-> penalties, unavailable |-> unavailable]
MCScenarios == {
  Change({"network_disruption"}, None, None, {"a"}, <<>>, {}),
  Change({"network_disruption", "extreme_heat"}, "hotter", None, {}, ("b" :> 3), {}),
  Change({"infrastructure_degradation", "energy_demand"}, None, "more", {}, <<>>, {"school"}),
  Change({"extreme_heat", "energy_demand"}, "hotter", "more", {}, <<>>, {}),
  Change({"network_disruption"}, None, None, {}, ("b" :> 0), {}),
  Change({"extreme_heat"}, "hotter", None, {"a"}, <<>>, {})}

ASSUME FilesAreKnown == LabelledAsKnown /\ YearEndsAsItBegan /\ ClocksGoBackOnce

ThreadSymmetry == Permutations(Threads)
=============================================================================
