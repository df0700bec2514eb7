-------------------------- MODULE ReferenceRefresh --------------------------
(***************************************************************************)
(* scripts/refresh_reference.py: one run acquires the reference layers     *)
(* source by source (runtime/reference_acquisition.py and                  *)
(* runtime/reference_refresh.py, through adapters/berlin_wfs.py,           *)
(* vbb_static.py and osm_network.py) and saves reference.json at its end.  *)
(* A source that raises keeps what the previous state had of it.           *)
(*                                                                         *)
(* A layer is the sequence of its published features; a publisher may      *)
(* replace it, or stop to advertise it, at any time, also between two      *)
(* pages of one acquisition.  Blank features have no geometry or no id,    *)
(* Bad ones do not pass the validation of a contract.  The stops archive   *)
(* and the road graph are layers of their own.  Contents are compared as   *)
(* published: the final sort by id is left out.  The run is the only       *)
(* writer of the file.                                                     *)
(* Definitions marked "slip" are wrong variants of the one that follows.   *)
(***************************************************************************)
EXTENDS Naturals, Sequences

CONSTANTS
  Provides,     \* Provides[s]: the layers source s looks for
  Contents,     \* what a publisher may put into a layer
  Steady,       \* what the other layers have
  Blank, Bad,   \* features without a geometry or id; invalid features
  Changing,     \* the layers whose publisher changes them in an instance
  Failing,      \* the sources whose requests may fail in an instance
  Servers,      \* the kinds of WFS server of an instance
  ServerCap,    \* the most features a capping server returns at once
  PageSize, MaxFeatures,   \* parameters of fetch_all_geojson
  MaxRuns       \* bounds the runs of the script

Facilities == {"berlin_hospitals", "berlin_fire_stations"}
Climate == "berlin_climate_analysis_2022"
Optional == {"vbb_gtfs_static", "osm_berlin"}
Wfs == Facilities \cup {Climate}
Sources == Wfs \cup Optional
SourceOrder ==
  [berlin_hospitals |-> 1, berlin_fire_stations |-> 2,
   berlin_climate_analysis_2022 |-> 3, vbb_gtfs_static |-> 4, osm_berlin |-> 5]

Layers == UNION {Provides[s] : s \in Sources}
Features == UNION {{c[i] : i \in DOMAIN c} : c \in Contents \cup {Steady}}

ASSUME ReferenceAssumption ==
  /\ DOMAIN Provides = Sources
  /\ \A s \in Sources : Provides[s] # {}
  /\ Contents \cup {Steady} \subseteq Seq(Features)
  /\ Changing \subseteq Layers /\ Failing \subseteq Sources
  /\ Servers \subseteq {"standard", "ignores_start", "caps"}
  /\ PageSize \in Nat \ {0} /\ MaxFeatures \in Nat /\ PageSize <= MaxFeatures
  /\ ServerCap \in 1..PageSize
  /\ MaxRuns \in Nat

VARIABLES
  upstream,     \* the features of each layer now
  advertised,   \* the layers in the capabilities documents
  server,       \* how the WFS servers answer a request for a page
  pc,           \* "idle" between two runs
  run,          \* the runs begun: the time of retrieval
  included,     \* the sources of this run
  queue,        \* the sources still to be acquired, with the current one
  todo,         \* the layers of the current source still to be read
  pages,        \* what has been read of the current one
  last,         \* its previous page
  got,          \* the normalized layers of the current source
  acquired,     \* the state under construction, by source
  errors,       \* its errors
  saved,        \* reference.json
  changed,      \* history: the layer changed while it was being read
  selected      \* history: the layers a source was found to have

world == <<upstream, advertised, server>>
reading == <<todo, pages, last, got>>
vars == <<world, pc, run, included, queue, reading, acquired, errors, saved,
          changed, selected>>

Nothing == << >>   \* no layers, no features, no errors
NoContent == [run |-> 0, layers |-> Nothing]

Init ==
  /\ \E contents \in [Changing -> Contents] :
       upstream = [l \in Layers |-> IF l \in Changing THEN contents[l] ELSE Steady]
  /\ advertised = Layers
  /\ server \in Servers
  /\ pc = "idle" /\ run = 0 /\ included = {}
  /\ queue = {}
  /\ todo = {} /\ pages = << >> /\ last = << >> /\ got = Nothing
  /\ acquired = [s \in Sources |-> NoContent]
  /\ errors = Nothing
  /\ saved = [at |-> 0, included |-> {}, errors |-> Nothing,
              content |-> [s \in Sources |-> NoContent]]
  /\ changed = FALSE
  /\ selected = [s \in Sources |-> {}]
\* The source whose turn it is, and the layer it reads: the layers of a source
\* are sorted by name, which comes down to some order.
Source == CHOOSE s \in queue : \A r \in queue : SourceOrder[s] <= SourceOrder[r]
Layer == CHOOSE l \in todo : TRUE
-----------------------------------------------------------------------------
\* The publishers.
Publish(l) ==
  /\ \E c \in Contents \ {upstream[l]} : upstream' = [upstream EXCEPT ![l] = c]
  /\ changed' = (changed \/ (pages # << >> /\ l = Layer))
  /\ UNCHANGED <<advertised, server, pc, run, included, queue, reading, acquired,
                 errors, saved, selected>>

Advertise(l) ==
  /\ advertised' = IF l \in advertised THEN advertised \ {l} ELSE advertised \cup {l}
  /\ UNCHANGED <<upstream, server, pc, run, included, queue, reading, acquired,
                 errors, saved, changed, selected>>
-----------------------------------------------------------------------------
\* main: the previous state is loaded and the sources of the run are fixed:
\* the WFS layers always, the stops unless skipped, the roads if asked for.
Begin ==
  /\ pc = "idle" /\ run < MaxRuns
  /\ run' = run + 1
  /\ \E options \in SUBSET Optional :
       /\ included' = Wfs \cup options
       /\ queue' = included'
  /\ acquired' = saved.content
  /\ pc' = "discover"
  /\ UNCHANGED <<world, reading, errors, saved, changed, selected>>

NextSource ==
  /\ queue' = queue \ {Source}
  /\ pc' = IF queue = {Source} THEN "save" ELSE "discover"
  /\ todo' = {} /\ pages' = << >> /\ last' = << >> /\ got' = Nothing
  /\ changed' = FALSE
  /\ UNCHANGED <<world, run, included, saved>>

With(f, x, v) == [y \in DOMAIN f \cup {x} |-> IF y = x THEN v ELSE f[y]]

\* slip: the error stays away while there is something to show
ReportedIfEmpty(s, error) ==
  IF acquired[s] = NoContent THEN With(errors, s, error) ELSE errors
\* The source is named with the kind of its failure.
Reported(s, error) == With(errors, s, error)

\* slip: a failed source keeps what it has of the layers it did not get to
Mixed(s) == [acquired EXCEPT ![s] = [run |-> saved.content[s].run,
    layers |-> LET old == saved.content[s].layers
               IN  [l \in DOMAIN old \cup DOMAIN got |->
                      IF l \in DOMAIN got THEN got[l] ELSE old[l]]]]
\* A failed source keeps what the previous state had.
Kept(s) == [acquired EXCEPT ![s] = saved.content[s]]

SourceFails(error) ==
  /\ errors' = Reported(Source, error)
  /\ acquired' = Kept(Source)
  /\ UNCHANGED selected
  /\ NextSource

FacilityLayers(s) == Provides[s] \cap advertised
ClimateLayers ==
  IF Provides[Climate] \subseteq advertised THEN Provides[Climate] ELSE {}

LayersToRead(s) ==
  CASE s \in Facilities -> FacilityLayers(s)
    [] s = Climate      -> ClimateLayers
    [] s \in Optional   -> Provides[s]

Discover ==
  /\ pc = "discover"
  /\ LET layers == LayersToRead(Source) IN
     \/ /\ layers # {}
        /\ todo' = layers
        /\ selected' = [selected EXCEPT ![Source] = layers]
        /\ pc' = "read"
        /\ UNCHANGED <<world, run, included, queue, pages, last, got, acquired,
                       errors, saved, changed>>
     \/ layers = {} /\ SourceFails("SCHEMA_CHANGED")

\* A request fails: the capabilities, a page, the archive or the road graph.
RequestFails ==
  /\ pc \in {"discover", "read"} /\ Source \in Failing
  /\ SourceFails("SOURCE_UNAVAILABLE")
-----------------------------------------------------------------------------
\* What the agents and adapters make of the features of a layer: they drop
\* the blank ones and raise for a bad one.
Proper(features) == SelectSeq(features, LAMBDA x : x \notin Blank)
Has(features, S) == \E i \in DOMAIN features : features[i] \in S
Raises(features) == Has(features, Bad)

FacilitiesOf(features) == [ok |-> ~Raises(Proper(features)), value |-> Proper(features)]
ClimateOf(features) == [ok |-> ~Raises(Proper(features)), value |-> Proper(features)]
StopsOf(features) == [ok |-> ~Raises(Proper(features)), value |-> Proper(features)]
\* No node or edge is left out: one that lacks an attribute raises as well.
RoadsOf(features) ==
  [ok |-> ~Has(features, Bad \cup Blank), value |-> features]

Normalized(s, features) ==
  CASE s \in Facilities        -> FacilitiesOf(features)
    [] s = Climate             -> ClimateOf(features)
    [] s = "vbb_gtfs_static"   -> StopsOf(features)
    [] s = "osm_berlin"        -> RoadsOf(features)

\* A source is replaced when its last layer has been read.
Accepted(layers) ==
  IF todo = {Layer} THEN [acquired EXCEPT ![Source] = [run |-> run, layers |-> layers]]
                   ELSE acquired

LayerRead(features) ==
  LET normal == Normalized(Source, features)
      layers == With(got, Layer, normal.value)
  IN
  \/ ~normal.ok /\ SourceFails("SCHEMA_CHANGED")
  \/ /\ normal.ok
     /\ acquired' = Accepted(layers)
     /\ UNCHANGED <<errors, selected>>
     /\ \/ todo = {Layer} /\ NextSource
        \/ /\ todo # {Layer}
           /\ todo' = todo \ {Layer}
           /\ got' = layers
           /\ pages' = << >> /\ last' = << >> /\ changed' = FALSE
           /\ UNCHANGED <<world, pc, run, included, queue, saved>>
-----------------------------------------------------------------------------
Lesser(a, b) == IF a <= b THEN a ELSE b

\* GetFeature with count and startIndex.  A server may not know startIndex,
\* or return fewer features than asked for.
PageOf(features) ==
  LET start == IF server = "ignores_start" THEN 0 ELSE Len(pages)
      count == IF server = "caps" THEN ServerCap ELSE PageSize
  IN SubSeq(features, start + 1, Lesser(start + count, Len(features)))

\* slip: a full page is taken for the last one
FullIsLast(page) == page = << >> \/ Len(page) <= PageSize
\* slip: an empty page is not the last one
ShortIsLast(page) == page # << >> /\ Len(page) < PageSize
EndsLayer(page) == page = << >> \/ Len(page) < PageSize

\* The server does not advance, or the layer is too large.
Refused(page) == page = last \/ Len(pages \o page) > MaxFeatures

\* One turn of the loop of fetch_all_geojson.
ReadPage ==
  /\ pc = "read" /\ Source \in Wfs
  /\ LET page == PageOf(upstream[Layer]) IN
     \/ page # << >> /\ Refused(page) /\ SourceFails("SCHEMA_CHANGED")
     \/ /\ page = << >> \/ ~Refused(page)
        /\ EndsLayer(page)
        /\ LayerRead(pages \o page)
     \/ /\ ~Refused(page) /\ ~EndsLayer(page)
        /\ pages' = pages \o page
        /\ last' = page
        /\ UNCHANGED <<world, pc, run, included, queue, todo, got, acquired, errors,
                       saved, changed, selected>>

\* The archive of stops and the road graph come in one piece.
ReadWhole ==
  /\ pc = "read" /\ Source \in Optional
  /\ LayerRead(upstream[Layer])

\* The memory of the process is gone.
Finish ==
  /\ pc' = "idle" /\ included' = {}
  /\ acquired' = [s \in Sources |-> NoContent]
  /\ errors' = Nothing
  /\ selected' = [s \in Sources |-> {}]

\* store.save, then the RDF export, which nothing reads back.
Save ==
  /\ pc = "save"
  /\ saved' = [at |-> run, included |-> included, errors |-> errors,
               content |-> acquired]
  /\ Finish
  /\ UNCHANGED <<world, run, queue, reading, changed>>

\* The script is killed, or its save fails.
Crash ==
  /\ pc # "idle"
  /\ Finish
  /\ queue' = {}
  /\ todo' = {} /\ pages' = << >> /\ last' = << >> /\ got' = Nothing
  /\ changed' = FALSE
  /\ UNCHANGED <<world, run, saved>>

RunStep == Discover \/ ReadPage \/ ReadWhole \/ Save

Next ==
  \/ Begin
  \/ RunStep
  \/ RequestFails
  \/ Crash
  \/ \E l \in Changing : Publish(l) \/ Advertise(l)

\* Every request is answered or fails by its timeout, so a run goes on; that
\* one fails is not relied upon.
Spec == Init /\ [][Next]_vars /\ WF_vars(RunStep)
-----------------------------------------------------------------------------
(***************************************************************************)
(* docs/integration.md: the acquisition "retains last-known-good data by   *)
(* source/category rather than writing a partially mixed snapshot".  A     *)
(* save replaces what the file has of a source only by all layers that     *)
(* were found for it, read in the same run, and without an error.          *)
(***************************************************************************)
WholeOrKept ==
  [][\A s \in Sources :
       \/ saved'.content[s] = saved.content[s]
       \/ /\ s \notin DOMAIN saved'.errors
          /\ saved'.content[s].run = saved'.at
          /\ DOMAIN saved'.content[s].layers = selected[s]]_saved

(***************************************************************************)
(* The file tells the sources of its run apart: exactly those whose data   *)
(* are older than the file, or absent, are named among its errors.  (It    *)
(* says nothing of a source that the run left out.)                        *)
(***************************************************************************)
OldContentReported ==
  \A s \in saved.included :
    s \in DOMAIN saved.errors <=> saved.content[s].run # saved.at

(***************************************************************************)
(* fetch_all_geojson promises a complete layer or none: whatever the       *)
(* length of the layer and of the pages, a layer that is accepted is the   *)
(* published one, also from a server that ignores startIndex.  Excepted    *)
(* are a layer that changes between two pages and a server that returns    *)
(* fewer features than asked for, which the loop takes for the end.        *)
(***************************************************************************)
CompleteUnlessChanged ==
  [][pc = "read" /\ ~changed =>
       LET l == Layer
           read == IF acquired'[Source].run = run THEN acquired'[Source].layers ELSE got'
       IN  l \in DOMAIN read /\ (server # "caps" \/ Source \in Optional)
             => read[l] = Normalized(Source, upstream[l]).value]_<<got, acquired>>

(***************************************************************************)
(* A run ends, whatever the servers return and however often their layers  *)
(* change under it: the bound on the features ends the paging.             *)
(***************************************************************************)
RunEnds == pc # "idle" ~> pc = "idle"
=============================================================================
