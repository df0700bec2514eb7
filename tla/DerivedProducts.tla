-------------------------- MODULE DerivedProducts --------------------------
(***************************************************************************)
(* The functions the acquisition worker computes with: the freshness of a  *)
(* retained observation (shared/source_status.py, shared/temporal.py), the *)
(* derived products of a runtime state (runtime/derived_products.py) and   *)
(* their incremental refresh (runtime/derived_refresh.py).                 *)
(*                                                                         *)
(* A derived record is what tells two of them apart: its input ids, which  *)
(* carry the observation times, and its freshness.  Its other payload is a *)
(* function of the inputs.                                                 *)
(* Definitions marked "slip" are wrong variants of the one that follows.   *)
(***************************************************************************)
EXTENDS Integers

LiveSources == {"berlin_air_quality", "dwd_open_data", "vbb_gtfs_rt"}

Freshnesses == {"valid", "stale", "unknown", "unavailable"}

NoTime == -1   \* no observation is retained

\* slip: an observation ahead of the clock is recent
AheadIsRecent(observed, now, threshold) ==
  IF observed # NoTime
  THEN IF now - observed <= threshold THEN "valid" ELSE "stale"
  ELSE "unknown"
\* SourceStatusStore.get and classify_freshness.
Classified(observed, now, threshold) ==
  CASE observed = NoTime \/ observed > now -> "unknown"
    [] OTHER -> IF now - observed <= threshold THEN "valid" ELSE "stale"
-----------------------------------------------------------------------------
\* The sources of each derived record.
Needs ==
  [mobility     |-> {"vbb_gtfs_rt"},
   heat_air     |-> {"dwd_open_data", "berlin_air_quality"},
   mobility_air |-> {"vbb_gtfs_rt", "berlin_air_quality"}]

DerivedRecord == [inputs : SUBSET (LiveSources \X Int), freshness : Freshnesses]

\* _freshness: the worst of the sources' freshness.
Combined(values) ==
  CASE "unavailable" \in values -> "unavailable"
    [] "unavailable" \notin values /\ "stale" \in values -> "stale"
    [] {"unavailable", "stale"} \cap values = {} /\ "unknown" \in values -> "unknown"
    [] OTHER -> "valid"

\* A record is built only from what exists; a feed without trip updates is no
\* mobility input.
Usable(state, s) ==
  state.data[s] # NoTime /\ (s = "vbb_gtfs_rt" => state.trips)

Emitted(state) == {r \in DOMAIN Needs : \A s \in Needs[r] : Usable(state, s)}

\* DerivedProductBuilder.build
Build(state) ==
  [r \in Emitted(state) |->
     [inputs    |-> {<<s, state.data[s]>> : s \in Needs[r]},
      freshness |-> Combined({state.fresh[s] : s \in Needs[r]})]]
-----------------------------------------------------------------------------
InputsOf(previous, ids) == UNION {previous[r].inputs : r \in ids}

\* _changed_input_ids
\* slip: nothing to fall back to when every input is shared
NarrowedOnly(changed, previous) ==
  InputsOf(previous, changed) \ InputsOf(previous, DOMAIN previous \ changed)
ChangedInputIds(changed, previous) ==
  LET narrowed == InputsOf(previous, changed)
                    \ InputsOf(previous, DOMAIN previous \ changed)
  IN  IF narrowed # {} THEN narrowed ELSE InputsOf(previous, changed)

\* slip: a recomputed record keeps the freshness it had
RecomputePayload(previous, desired, inputs) ==
  [r \in DOMAIN previous |->
     IF previous[r].inputs \cap inputs # {}
     THEN [desired[r] EXCEPT !.freshness = previous[r].freshness] ELSE previous[r]]
\* recompute: the inputs of these records are no records, so the affected
\* ones are those that name a changed input, none is blocked, and the handler
\* returns the desired record.
Recompute(previous, desired, inputs) ==
  [r \in DOMAIN previous |->
     IF previous[r].inputs \cap inputs # {} THEN desired[r] ELSE previous[r]]

TopologyChanged(desired, previous) == DOMAIN desired # DOMAIN previous

\* DerivedRefreshCoordinator._refresh
RefreshedProducts(state, previous) ==
  LET desired == Build(state)
      changed == {r \in DOMAIN desired : desired[r] # previous[r]}
  IN  IF TopologyChanged(desired, previous)
      THEN desired
      ELSE Recompute(previous, desired, ChangedInputIds(changed, previous))
=============================================================================
