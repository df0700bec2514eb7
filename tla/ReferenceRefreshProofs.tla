----------------------- MODULE ReferenceRefreshProofs -----------------------
(***************************************************************************)
(* Proofs about ReferenceRefresh, for any layers of each source, contents, *)
(* servers, failing sources and numbers of features and runs.              *)
(***************************************************************************)
EXTENDS ReferenceRefresh, SequenceTheorems, TLAPS

\* A source the run has not come to is as it was saved.
Waiting(s) == s \notin DOMAIN errors /\ acquired[s] = saved.content[s]

\* One it has dealt with failed and is as it was saved, or is new as a whole.
DealtWith(s) ==
  \/ s \in DOMAIN errors /\ acquired[s] = saved.content[s]
  \/ /\ s \notin DOMAIN errors
     /\ acquired[s].run = run
     /\ DOMAIN acquired[s].layers = selected[s]

Shape ==
  /\ run \in Nat
  /\ included \subseteq Sources /\ queue \subseteq included
  /\ acquired = [s \in Sources |-> acquired[s]]
  /\ selected = [s \in Sources |-> selected[s]]
  /\ pc \in {"idle", "discover", "read", "save"}

\* The file is of an earlier run, and no content is newer than the file.
FileIsOlder ==
  /\ saved.at \in Nat /\ saved.at <= run
  /\ pc # "idle" => saved.at < run
  /\ saved.included \subseteq Sources
  /\ saved.content = [s \in Sources |-> saved.content[s]]
  /\ \A s \in Sources : saved.content[s].run \in Nat /\ saved.content[s].run <= saved.at

\* Where the run is: the layers of the current source are read or to be read.
Progress ==
  /\ pc \in {"discover", "read"} <=> queue # {}
  /\ pc = "idle" => errors = Nothing
  /\ pc = "read" => todo # {} /\ DOMAIN got \cup todo = selected[Source]
  /\ pc # "read" => got = Nothing

SoFar ==
  pc # "idle" =>
    /\ \A s \in (Sources \ included) \cup queue : Waiting(s)
    /\ \A s \in included \ queue : DealtWith(s)

Inv == Shape /\ FileIsOlder /\ Progress /\ SoFar /\ OldContentReported
-----------------------------------------------------------------------------
\* Of the sources of a run one has its turn.
LEMMA SourceInQueue ==
  ASSUME queue \subseteq Sources, queue # {}
  PROVE  Source \in queue
<1>1. \E s \in queue : \A r \in queue : SourceOrder[s] <= SourceOrder[r]
  <2>1. CASE "berlin_hospitals" \in queue
    BY <2>1 DEF SourceOrder, Sources, Wfs, Facilities, Climate, Optional
  <2>2. CASE "berlin_hospitals" \notin queue /\ "berlin_fire_stations" \in queue
    BY <2>2 DEF SourceOrder, Sources, Wfs, Facilities, Climate, Optional
  <2>3. CASE /\ "berlin_hospitals" \notin queue /\ "berlin_fire_stations" \notin queue
             /\ Climate \in queue
    BY <2>3 DEF SourceOrder, Sources, Wfs, Facilities, Climate, Optional
  <2>4. CASE /\ "berlin_hospitals" \notin queue /\ "berlin_fire_stations" \notin queue
             /\ Climate \notin queue /\ "vbb_gtfs_static" \in queue
    BY <2>4 DEF SourceOrder, Sources, Wfs, Facilities, Climate, Optional
  <2>5. CASE queue = {"osm_berlin"}
    BY <2>5 DEF SourceOrder
  <2> QED
    BY <2>1, <2>2, <2>3, <2>4, <2>5 DEF Sources, Wfs, Facilities, Climate, Optional
<1> QED
  BY <1>1 DEF Source

LEMMA LayerInTodo ==
  ASSUME todo # {}
  PROVE  Layer \in todo
BY DEF Layer

LEMMA NothingIsEmpty == DOMAIN Nothing = {}
BY DEF Nothing

LEMMA WithDomain ==
  ASSUME NEW f, NEW x, NEW v
  PROVE  DOMAIN With(f, x, v) = DOMAIN f \cup {x}
BY DEF With

LEMMA InitInv == Init => Inv
<1> SUFFICES ASSUME Init PROVE Inv
  OBVIOUS
<1>1. Shape
  BY DEF Init, Shape
<1>2. FileIsOlder
  BY DEF Init, FileIsOlder, NoContent
<1>3. Progress
  BY DEF Init, Progress
<1>4. SoFar /\ OldContentReported
  BY DEF Init, SoFar, OldContentReported
<1> QED
  BY <1>1, <1>2, <1>3, <1>4 DEF Inv

\* A run begins with everything as it was saved, and nothing dealt with.
LEMMA BeginInv ==
  ASSUME Inv, Begin
  PROVE  Inv'
<1>1. PICK options \in SUBSET Optional : included' = Wfs \cup options /\ queue' = included'
  BY DEF Begin
<1>2. included' \subseteq Sources /\ queue' # {}
  BY <1>1 DEF Sources, Wfs
<1>3. /\ pc = "idle" /\ pc' = "discover" /\ run' = run + 1 /\ acquired' = saved.content
      /\ UNCHANGED <<saved, errors, got, todo, selected>>
  BY DEF Begin, reading
<1>4. Shape'
  BY <1>1, <1>2, <1>3 DEF Inv, Shape, FileIsOlder
<1>5. FileIsOlder'
  BY <1>3 DEF Inv, Shape, FileIsOlder
<1>6. Progress'
  BY <1>2, <1>3 DEF Inv, Progress
<1>7. SoFar'
  BY <1>1, <1>3, NothingIsEmpty DEF Inv, Progress, SoFar, Waiting
<1>8. OldContentReported'
  BY <1>3 DEF Inv, OldContentReported
<1> QED
  BY <1>4, <1>5, <1>6, <1>7, <1>8 DEF Inv

\* The current source q is left behind with a result that is whole or reported.
LEMMA NextSourceInv ==
  ASSUME Inv, NEW q \in Sources, q = Source,
         pc \in {"discover", "read"}, NextSource,
         acquired' = [acquired EXCEPT ![q] = acquired'[q]],
         DOMAIN errors' \ {q} = DOMAIN errors \ {q},
         selected' = selected, DealtWith(q)'
  PROVE  Inv'
<1>1. q \in queue /\ queue \subseteq included /\ included \subseteq Sources
  BY SourceInQueue DEF Inv, Shape, Progress
<1>2. /\ queue' = queue \ {q}
      /\ pc' = IF queue = {q} THEN "save" ELSE "discover"
      /\ got' = Nothing /\ UNCHANGED <<run, included, saved>>
  BY DEF NextSource
<1>3. Shape'
  BY <1>1, <1>2 DEF Inv, Shape
<1>4. FileIsOlder' /\ OldContentReported'
  BY <1>2 DEF Inv, FileIsOlder, OldContentReported
<1>5. Progress'
  BY <1>1, <1>2 DEF Inv, Progress
<1>6. SoFar'
  <2>1. \A s \in Sources \ {q} : acquired'[s] = acquired[s]
    BY <1>1 DEF Inv, Shape
  <2>2. ASSUME NEW s \in (Sources \ included) \cup queue'
        PROVE  Waiting(s)'
    BY <1>1, <1>2, <2>1, <2>2 DEF Inv, SoFar, Waiting
  <2>3. ASSUME NEW s \in included' \ queue'
        PROVE  DealtWith(s)'
    <3>1. CASE s = q
      BY <3>1
    <3>2. CASE s # q
      <4>1. s \in included \ queue /\ s \in Sources
        BY <1>1, <1>2, <2>3, <3>2
      <4>2. DealtWith(s)
        BY <4>1 DEF Inv, SoFar
      <4>3. s \in DOMAIN errors' <=> s \in DOMAIN errors
        BY <3>2
      <4> QED
        BY <1>2, <2>1, <3>2, <4>1, <4>2, <4>3 DEF DealtWith
    <3> QED
      BY <3>1, <3>2
  <2> QED
    BY <1>2, <2>2, <2>3 DEF SoFar
<1> QED
  BY <1>3, <1>4, <1>5, <1>6 DEF Inv

\* A source fails: it keeps what it had, and is reported.
LEMMA SourceFailsInv ==
  ASSUME Inv, pc \in {"discover", "read"}, NEW error, SourceFails(error)
  PROVE  Inv'
<1>1. Source \in Sources
  BY SourceInQueue DEF Inv, Shape, Progress
<1>2. PICK q \in Sources : q = Source
  BY <1>1
<1>3. /\ DOMAIN errors' = DOMAIN errors \cup {q}
      /\ acquired' = [acquired EXCEPT ![q] = saved.content[q]]
      /\ selected' = selected /\ NextSource
  BY <1>2, WithDomain DEF SourceFails, Reported, Kept
<1>4. acquired'[q] = saved.content[q] /\ saved' = saved
  BY <1>3 DEF Inv, Shape, NextSource
<1>5. DealtWith(q)'
  BY <1>3, <1>4 DEF DealtWith
<1>6. acquired' = [acquired EXCEPT ![q] = acquired'[q]]
  BY <1>3, <1>4
<1> QED
  BY <1>2, <1>3, <1>5, <1>6, NextSourceInv

\* A layer is read: the source fails, goes on, or is replaced as a whole.
LEMMA LayerReadInv ==
  ASSUME Inv, pc = "read", NEW features, LayerRead(features)
  PROVE  Inv'
<1> DEFINE normal == Normalized(Source, features)
           layers == With(got, Layer, normal.value)
<1>1. CASE SourceFails("SCHEMA_CHANGED")
  BY <1>1, SourceFailsInv
<1>2. Source \in queue /\ Layer \in todo /\ queue \subseteq Sources
  BY SourceInQueue, LayerInTodo DEF Inv, Shape, Progress
<1>3. DOMAIN layers = DOMAIN got \cup {Layer}
  BY WithDomain
<1>4. CASE todo = {Layer} /\ NextSource /\ acquired' = Accepted(layers)
           /\ UNCHANGED <<errors, selected>>
  <2>1. PICK q \in Sources : q = Source
    BY <1>2
  <2>2. acquired' = [acquired EXCEPT ![q] = [run |-> run, layers |-> layers]]
    BY <1>4, <2>1 DEF Accepted
  <2>3. acquired'[q] = [run |-> run, layers |-> layers]
    BY <2>2 DEF Inv, Shape
  <2>4. DOMAIN layers = selected[q]
    BY <1>3, <1>4, <2>1 DEF Inv, Progress
  <2>5. q \notin DOMAIN errors
    BY <1>2, <2>1 DEF Inv, SoFar, Waiting
  <2>6. DealtWith(q)'
    <3>1. run' = run
      BY <1>4 DEF NextSource
    <3> HIDE DEF layers
    <3> QED
      BY <1>4, <2>3, <2>4, <2>5, <3>1 DEF DealtWith
  <2>7. acquired' = [acquired EXCEPT ![q] = acquired'[q]]
    BY <2>2, <2>3
  <2> HIDE DEF layers
  <2> QED
    BY <1>4, <2>1, <2>6, <2>7, NextSourceInv
<1>5. CASE /\ todo # {Layer} /\ acquired' = Accepted(layers)
           /\ todo' = todo \ {Layer} /\ got' = layers
           /\ UNCHANGED <<pc, run, included, queue, saved, errors, selected>>
  <2>1. acquired' = acquired
    BY <1>5 DEF Accepted
  <2>2. Source' = Source
    BY <1>5 DEF Source
  <2>3. Shape' /\ FileIsOlder' /\ OldContentReported' /\ SoFar'
    BY <1>5, <2>1 DEF Inv, Shape, FileIsOlder, OldContentReported, SoFar, Waiting, DealtWith
  <2>4. Progress'
    <3> HIDE DEF layers
    <3> QED
      BY <1>2, <1>3, <1>5, <2>2 DEF Inv, Progress
  <2> QED
    BY <2>3, <2>4 DEF Inv
<1> QED
  BY <1>1, <1>4, <1>5 DEF LayerRead

\* What is left alone by everything but the steps of a run.
LEMMA ApartInv ==
  ASSUME Inv,
         UNCHANGED <<pc, run, included, queue, todo, got, acquired, errors, saved, selected>>
  PROVE  Inv'
<1>1. Source' = Source
  BY DEF Source
<1> QED
  BY <1>1 DEF Inv, Shape, FileIsOlder, Progress, SoFar, Waiting, DealtWith,
              OldContentReported

LEMMA DiscoverInv ==
  ASSUME Inv, Discover
  PROVE  Inv'
<1> DEFINE layers == LayersToRead(Source)
<1>1. CASE SourceFails("SCHEMA_CHANGED")
  BY <1>1, SourceFailsInv DEF Discover
<1>2. CASE /\ layers # {} /\ todo' = layers
           /\ selected' = [selected EXCEPT ![Source] = layers]
           /\ pc' = "read"
           /\ UNCHANGED <<run, included, queue, got, acquired, errors, saved>>
  <2>1. Source \in queue /\ queue \subseteq included /\ included \subseteq Sources
    BY SourceInQueue DEF Inv, Shape, Progress, Discover
  <2>2. pc = "discover" /\ got = Nothing /\ Source' = Source
    BY <1>2 DEF Discover, Inv, Progress, Source
  <2>3. Shape' /\ FileIsOlder' /\ OldContentReported'
    BY <1>2, <2>1, <2>2 DEF Inv, Shape, FileIsOlder, OldContentReported
  <2>4. selected'[Source] = layers
    BY <1>2, <2>1 DEF Inv, Shape
  <2>5. Progress'
    <3> HIDE DEF layers
    <3> QED
      BY <1>2, <2>1, <2>2, <2>4, NothingIsEmpty DEF Inv, Progress
  <2>6. SoFar'
    <3>1. \A s \in included \ queue : selected'[s] = selected[s]
      BY <1>2, <2>1 DEF Inv, Shape
    <3> QED
      BY <1>2, <2>2, <3>1 DEF Inv, SoFar, Waiting, DealtWith
  <2> QED
    BY <2>3, <2>5, <2>6 DEF Inv
<1> QED
  BY <1>1, <1>2 DEF Discover

LEMMA ReadInv ==
  ASSUME Inv, ReadPage \/ ReadWhole
  PROVE  Inv'
<1> DEFINE page == PageOf(upstream[Layer])
<1>1. CASE SourceFails("SCHEMA_CHANGED")
  BY <1>1, SourceFailsInv DEF ReadPage, ReadWhole
<1>2. CASE LayerRead(pages \o page) \/ LayerRead(upstream[Layer])
  BY <1>2, LayerReadInv DEF ReadPage, ReadWhole
<1>3. CASE UNCHANGED <<pc, run, included, queue, todo, got, acquired, errors, saved, selected>>
  BY <1>3, ApartInv
<1> QED
  BY <1>1, <1>2, <1>3 DEF ReadPage, ReadWhole

\* The file is written: its sources are new or reported, because what was
\* kept is of an earlier run.
LEMMA SaveInv ==
  ASSUME Inv, Save
  PROVE  Inv'
<1>1. /\ pc = "save" /\ queue = {} /\ got = Nothing
      /\ included \subseteq Sources /\ run \in Nat
  BY DEF Save, Inv, Shape, Progress
<1>2. /\ saved' = [at |-> run, included |-> included, errors |-> errors,
                   content |-> acquired]
      /\ pc' = "idle" /\ included' = {} /\ errors' = Nothing
      /\ acquired' = [s \in Sources |-> NoContent]
      /\ selected' = [s \in Sources |-> {}]
      /\ UNCHANGED <<run, queue, todo, got>>
  BY DEF Save, Finish, reading
<1>3. \A s \in included : DealtWith(s)
  BY <1>1 DEF Inv, SoFar
<1>4. \A s \in Sources \ included : Waiting(s)
  BY <1>1 DEF Inv, SoFar
<1>5. Shape'
  BY <1>1, <1>2 DEF Shape
<1>6. FileIsOlder'
  <2>1. \A s \in Sources : acquired[s].run \in Nat /\ acquired[s].run <= run
    <3> SUFFICES ASSUME NEW s \in Sources
                 PROVE  acquired[s].run \in Nat /\ acquired[s].run <= run
      OBVIOUS
    <3>1. acquired[s] = saved.content[s] \/ acquired[s].run = run
      BY <1>3, <1>4 DEF DealtWith, Waiting
    <3> QED
      BY <1>1, <3>1 DEF Inv, FileIsOlder
  <2>2. acquired = [s \in Sources |-> acquired[s]]
    BY DEF Inv, Shape
  <2>3. /\ saved'.at = run /\ saved'.included = included /\ saved'.content = acquired
        /\ run' = run /\ pc' = "idle"
    BY <1>2
  <2> QED
    BY <1>1, <2>1, <2>2, <2>3 DEF FileIsOlder
<1>7. Progress' /\ SoFar'
  BY <1>1, <1>2 DEF Progress, SoFar
<1>8. OldContentReported'
  <2> SUFFICES ASSUME NEW s \in included
               PROVE  s \in DOMAIN errors <=> acquired[s].run # run
    BY <1>2 DEF OldContentReported
  <2>1. saved.content[s].run # run
    BY <1>1 DEF Inv, FileIsOlder
  <2> QED
    BY <1>3, <2>1 DEF DealtWith
<1> QED
  BY <1>5, <1>6, <1>7, <1>8 DEF Inv

LEMMA CrashInv ==
  ASSUME Inv, Crash
  PROVE  Inv'
<1>1. /\ pc' = "idle" /\ included' = {} /\ errors' = Nothing
      /\ acquired' = [s \in Sources |-> NoContent]
      /\ selected' = [s \in Sources |-> {}]
      /\ queue' = {} /\ todo' = {} /\ got' = Nothing
      /\ UNCHANGED <<run, saved>>
  BY DEF Crash, Finish
<1> QED
  BY <1>1 DEF Inv, Shape, FileIsOlder, Progress, SoFar, OldContentReported

LEMMA NextInv == Inv /\ [Next]_vars => Inv'
<1> SUFFICES ASSUME Inv, [Next]_vars PROVE Inv'
  OBVIOUS
<1>1. CASE Begin
  BY <1>1, BeginInv
<1>2. CASE Discover
  BY <1>2, DiscoverInv
<1>3. CASE RequestFails
  BY <1>3, SourceFailsInv DEF RequestFails
<1>4. CASE ReadPage \/ ReadWhole
  BY <1>4, ReadInv
<1>5. CASE Save
  BY <1>5, SaveInv
<1>6. CASE Crash
  BY <1>6, CrashInv
<1>7. CASE \E l \in Changing : Publish(l) \/ Advertise(l)
  BY <1>7, ApartInv DEF Publish, Advertise, reading
<1>8. CASE UNCHANGED vars
  BY <1>8, ApartInv DEF vars, reading
<1> QED
  BY <1>1, <1>2, <1>3, <1>4, <1>5, <1>6, <1>7, <1>8 DEF Next, RunStep

LEMMA Invariance == Spec => []Inv
BY InitInv, NextInv, PTL DEF Spec
-----------------------------------------------------------------------------
(***************************************************************************)
(* Errors of reference.json (scripts/refresh_reference.py): a source of    *)
(* the run is named in them exactly if its data are older than the file.   *)
(***************************************************************************)
THEOREM Honesty == Spec => []OldContentReported
<1>1. Inv => OldContentReported
  BY DEF Inv
<1> QED
  BY <1>1, Invariance, PTL

(***************************************************************************)
(* runtime/reference_refresh.py: a save replaces what the file has of a    *)
(* source by all its layers, of one run and without an error, or not at    *)
(* all.                                                                    *)
(***************************************************************************)
THEOREM NeverMixed == Spec => WholeOrKept
<1> DEFINE Replaced ==
      \A s \in Sources :
        \/ saved'.content[s] = saved.content[s]
        \/ /\ s \notin DOMAIN saved'.errors
           /\ saved'.content[s].run = saved'.at
           /\ DOMAIN saved'.content[s].layers = selected[s]
<1>1. Inv /\ [Next]_vars => [Replaced]_saved
  <2> SUFFICES ASSUME Inv, [Next]_vars, saved' # saved PROVE Replaced
    OBVIOUS
  <2>1. Save
    BY DEF Next, RunStep, vars, Begin, Discover, RequestFails, SourceFails, NextSource,
           ReadPage, ReadWhole, LayerRead, Crash, Publish, Advertise
  <2>2. saved'.content = acquired /\ saved'.errors = errors /\ saved'.at = run
    BY <2>1 DEF Save
  <2>3. \A s \in Sources : Waiting(s) \/ DealtWith(s)
    BY <2>1 DEF Save, Inv, Progress, SoFar
  <2> QED
    BY <2>2, <2>3 DEF Waiting, DealtWith
<1> QED
  BY <1>1, Invariance, PTL DEF Spec, WholeOrKept
-----------------------------------------------------------------------------
\* The pages that have been read are the beginning of the layer, or twice the
\* same page is about to be noticed.
Beginning ==
  LET features == upstream[Layer] IN
  /\ server = "standard" =>
       /\ Len(pages) <= Len(features)
       /\ pages = SubSeq(features, 1, Len(pages))
  /\ server = "ignores_start" =>
       /\ pages = last
       /\ pages = SubSeq(features, 1, Lesser(PageSize, Len(features)))

PagesInv ==
  /\ upstream \in [Layers -> Seq(Features)]
  /\ server \in {"standard", "ignores_start", "caps"}
  /\ pages \in Seq(Features)
  /\ pc # "read" => pages = << >>
  /\ pc = "read" => todo \subseteq Layers
  /\ pages # << >> /\ ~changed => Beginning

LEMMA PageSizes ==
  PageSize \in Nat /\ PageSize > 0 /\ ServerCap \in Nat
BY ReferenceAssumption

\* PageOf by its start, for a server that returns full pages.
LEMMA PageIsPart ==
  ASSUME NEW features \in Seq(Features), pages \in Seq(Features), server # "caps"
  PROVE  /\ server = "ignores_start" =>
              PageOf(features) = SubSeq(features, 1, Lesser(PageSize, Len(features)))
         /\ server # "ignores_start" =>
              PageOf(features) = SubSeq(features, Len(pages) + 1,
                                        Lesser(Len(pages) + PageSize, Len(features)))
<1>1. Len(features) \in Nat /\ Len(pages) \in Nat /\ 0 + 1 = 1 /\ 0 + PageSize = PageSize
  BY PageSizes
<1>2. CASE server = "ignores_start"
  BY <1>1, <1>2 DEF PageOf
<1>3. CASE server # "ignores_start"
  BY <1>3 DEF PageOf
<1> QED
  BY <1>2, <1>3

LEMMA PageType ==
  ASSUME NEW features \in Seq(Features), pages \in Seq(Features)
  PROVE  PageOf(features) \in Seq(Features)
<1> DEFINE start == IF server = "ignores_start" THEN 0 ELSE Len(pages)
           count == IF server = "caps" THEN ServerCap ELSE PageSize
           end == Lesser(start + count, Len(features))
<1>1. start \in Nat /\ end \in Int /\ end <= Len(features)
  <2>1. Len(features) \in Nat /\ Len(pages) \in Nat
    OBVIOUS
  <2>2. start \in Nat /\ count \in Nat
    BY <2>1, PageSizes
  <2> HIDE DEF start, count
  <2> QED
    BY <2>1, <2>2 DEF Lesser
<1>2. \A i \in (start + 1)..end : features[i] \in Features
  BY <1>1
<1>3. SubSeq(features, start + 1, end) \in Seq(Features)
  <2> HIDE DEF start, end
  <2> QED
    BY <1>1, <1>2, SubSeqProperties
<1> QED
  BY <1>3 DEF PageOf

\* The last page completes the layer.
LEMMA Complete ==
  ASSUME PagesInv, pc = "read", Layer \in Layers, ~changed, server # "caps",
         NEW page, page = PageOf(upstream[Layer]),
         page = << >> \/ ~Refused(page), EndsLayer(page)
  PROVE  pages \o page = upstream[Layer]
<1> DEFINE features == upstream[Layer]
<1>1. features \in Seq(Features) /\ pages \in Seq(Features) /\ page \in Seq(Features)
  BY PageType DEF PagesInv
<1>2. Len(page) < PageSize /\ PageSize \in Nat
  <2>1. CASE page = << >>
    BY <2>1, PageSizes
  <2> QED
    BY <2>1, PageSizes DEF EndsLayer
<1>3. CASE server = "ignores_start"
  <2>1. page = SubSeq(features, 1, Lesser(PageSize, Len(features)))
    BY <1>1, <1>3, PageIsPart
  <2>2. CASE pages = << >>
    <3> DEFINE end == Lesser(PageSize, Len(features))
    <3>0. end \in 0..Len(features)
      BY <1>1, <1>2 DEF Lesser
    <3>1. Len(page) = Lesser(PageSize, Len(features))
      <4> HIDE DEF end, features
      <4> QED
        <5>1. \A i \in 1..end : features[i] \in Features
          BY <1>1, <3>0
        <5>2. Len(SubSeq(features, 1, end)) = IF 1 <= end THEN end - 1 + 1 ELSE 0
          BY <3>0, <5>1, SubSeqProperties, 1 \in Int, end \in Int
        <5> QED
          BY <2>1, <3>0, <5>2 DEF end
    <3>2. Lesser(PageSize, Len(features)) = Len(features)
      BY <1>1, <1>2, <3>1 DEF Lesser
    <3>3. page = features
      BY <1>1, <2>1, <3>2, SubSeqFull
    <3> QED
      BY <1>1, <2>2, <3>3
  <2>3. CASE pages # << >>
    <3>1. page = last /\ page = pages
      BY <1>3, <2>1, <2>3 DEF PagesInv, Beginning
    <3> QED
      BY <2>3, <3>1 DEF Refused
  <2> QED
    BY <2>2, <2>3
<1>4. CASE server = "standard"
  <2> DEFINE n == Len(pages)
             end == Lesser(n + PageSize, Len(features))
  <2>1. n \in 0..Len(features) /\ pages = SubSeq(features, 1, n)
    <3>1. CASE pages = << >>
      BY <1>1, <3>1, SubSeqEmpty
    <3>2. CASE pages # << >>
      BY <1>1, <1>4, <3>2 DEF PagesInv, Beginning
    <3> QED
      BY <3>1, <3>2
  <2>2. page = SubSeq(features, n + 1, end)
    BY <1>1, <1>4, PageIsPart
  <2>3. end \in n..Len(features) /\ end \in Int
    BY <1>1, <2>1, ReferenceAssumption DEF Lesser
  <2>4. Len(page) = end - n
    <3> HIDE DEF n, end
    <3> QED
      BY <1>1, <2>1, <2>2, <2>3
  <2>5. end = Len(features)
    BY <1>1, <1>2, <2>1, <2>4, ReferenceAssumption DEF Lesser
  <2>6. pages \o page = SubSeq(features, 1, end)
    <3> HIDE DEF n, end, features
    <3>1. 1 \in 1..(Len(features) + 1) /\ n \in (1 - 1)..Len(features)
      BY <1>1, <2>1
    <3> QED
      BY <1>1, <2>1, <2>2, <2>3, <3>1, ConcatAdjacentSubSeq
  <2> QED
    BY <1>1, <2>5, <2>6, SubSeqFull
<1> QED
  BY <1>3, <1>4 DEF PagesInv

\* What leaves the pages, or starts a layer.
LEMMA LayerLeft ==
  ASSUME PagesInv, pages' = << >>, UNCHANGED <<upstream, server>>,
         pc' = "read" => todo' \subseteq Layers
  PROVE  PagesInv'
BY DEF PagesInv

LEMMA ApartPages ==
  ASSUME PagesInv, UNCHANGED <<upstream, server, pc, todo, pages, last, changed>>
  PROVE  PagesInv'
<1>1. Layer' = Layer
  BY DEF Layer
<1> QED
  BY <1>1 DEF PagesInv, Beginning

LEMMA InitPages == Init => PagesInv
<1> SUFFICES ASSUME Init PROVE PagesInv
  OBVIOUS
<1>1. server \in {"standard", "ignores_start", "caps"}
  BY ReferenceAssumption DEF Init
<1>2. upstream \in [Layers -> Seq(Features)]
  BY ReferenceAssumption DEF Init
<1>3. pages = << >> /\ pc = "idle" /\ pages \in Seq(Features)
  BY DEF Init
<1> QED
  BY <1>1, <1>2, <1>3 DEF PagesInv

\* A layer that changes while it is read is so marked.
LEMMA PublishPages ==
  ASSUME Inv, PagesInv, NEW l \in Changing, Publish(l)
  PROVE  PagesInv'
<1>1. PICK c \in Contents : upstream' = [upstream EXCEPT ![l] = c]
  BY DEF Publish
<1>2. c \in Seq(Features) /\ l \in Layers
  BY ReferenceAssumption
<1>3. upstream' \in [Layers -> Seq(Features)]
  BY <1>1, <1>2 DEF PagesInv
<1>4. /\ UNCHANGED <<server, pc, todo, pages, last>>
      /\ changed' = (changed \/ (pages # << >> /\ l = Layer))
  BY DEF Publish, reading
<1>5. Layer' = Layer
  BY <1>4 DEF Layer
<1>6. ASSUME pages # << >>, ~changed'
      PROVE  Beginning'
  <2>1. l # Layer /\ ~changed
    BY <1>4, <1>6
  <2>2. Layer \in Layers
    BY <1>6, LayerInTodo DEF PagesInv, Inv, Progress
  <2>3. upstream'[Layer] = upstream[Layer]
    BY <1>1, <2>1, <2>2 DEF PagesInv
  <2> QED
    BY <1>4, <1>5, <1>6, <2>1, <2>3 DEF PagesInv, Beginning
<1> QED
  BY <1>3, <1>4, <1>6 DEF PagesInv

LEMMA DiscoverPages ==
  ASSUME Inv, PagesInv, Discover
  PROVE  PagesInv'
<1>1. Source \in Sources /\ pages = << >>
  BY SourceInQueue DEF Discover, Inv, Shape, Progress, PagesInv
<1>2. LayersToRead(Source) \subseteq Layers
  BY <1>1 DEF LayersToRead, FacilityLayers, ClimateLayers, Layers, Sources, Wfs
<1> QED
  BY <1>1, <1>2, LayerLeft DEF Discover, SourceFails, NextSource, world

LEMMA LayerReadPages ==
  ASSUME PagesInv, pc = "read", NEW features, LayerRead(features)
  PROVE  PagesInv'
<1>1. pages' = << >> /\ UNCHANGED <<upstream, server>> /\ (pc' = "read" => todo' \subseteq todo)
  BY DEF LayerRead, SourceFails, NextSource, world
<1> QED
  BY <1>1, LayerLeft DEF PagesInv

\* A page that does not end the layer follows those before it.
LEMMA PagePages ==
  ASSUME Inv, PagesInv, ReadPage
  PROVE  PagesInv'
<1> DEFINE features == upstream[Layer]
           page == PageOf(features)
<1>1. pc = "read" /\ Layer \in todo /\ Layer \in Layers
  BY LayerInTodo DEF ReadPage, Inv, Progress, PagesInv
<1>2. CASE SourceFails("SCHEMA_CHANGED")
  BY <1>2, LayerLeft DEF SourceFails, NextSource, world
<1>3. CASE LayerRead(pages \o page)
  BY <1>1, <1>3, LayerReadPages
<1>4. CASE /\ ~Refused(page) /\ ~EndsLayer(page)
           /\ pages' = pages \o page /\ last' = page
           /\ UNCHANGED <<upstream, server, pc, todo, changed>>
  <2>1. features \in Seq(Features) /\ pages \in Seq(Features) /\ page \in Seq(Features)
    BY <1>1, PageType DEF PagesInv
  <2>2. Layer' = Layer
    BY <1>4 DEF Layer
  <2>3. page # << >>
    BY <1>4 DEF EndsLayer
  <2>4. ASSUME ~changed, server = "ignores_start"
        PROVE  pages \o page = page /\ page = SubSeq(features, 1, Lesser(PageSize, Len(features)))
    <3>1. page = SubSeq(features, 1, Lesser(PageSize, Len(features)))
      BY <2>1, <2>4, PageIsPart
    <3>2. pages = << >>
      BY <1>4, <2>4, <3>1 DEF PagesInv, Beginning, Refused
    <3> QED
      BY <2>1, <3>1, <3>2
  <2>5. ASSUME ~changed, server = "standard"
        PROVE  /\ Len(pages \o page) <= Len(features)
               /\ pages \o page = SubSeq(features, 1, Len(pages \o page))
    <3> DEFINE n == Len(pages)
               end == Lesser(n + PageSize, Len(features))
    <3>1. n \in 0..Len(features) /\ pages = SubSeq(features, 1, n)
      <4>1. CASE pages = << >>
        BY <2>1, <4>1, SubSeqEmpty
      <4>2. CASE pages # << >>
        BY <2>1, <2>5, <4>2 DEF PagesInv, Beginning
      <4> QED
        BY <4>1, <4>2
    <3>2. page = SubSeq(features, n + 1, end)
      BY <2>1, <2>5, PageIsPart
    <3>3. end \in n..Len(features) /\ end \in Int
      BY <2>1, <3>1, PageSizes DEF Lesser
    <3>4. Len(pages \o page) = end
      <4> HIDE DEF n, end
      <4> QED
        BY <2>1, <3>1, <3>2, <3>3
    <3>5. pages \o page = SubSeq(features, 1, end)
      <4> HIDE DEF n, end, features
      <4>1. 1 \in 1..(Len(features) + 1) /\ n \in (1 - 1)..Len(features)
        BY <2>1, <3>1
      <4> QED
        BY <2>1, <3>1, <3>2, <3>3, <4>1, ConcatAdjacentSubSeq
    <3> QED
      BY <2>1, <3>3, <3>4, <3>5
  <2>6. ASSUME ~changed PROVE Beginning'
    <3>1. /\ upstream'[Layer'] = features /\ server' = server
          /\ pages' = pages \o page /\ last' = page
      BY <1>4, <2>2
    <3> HIDE DEF page, features
    <3> QED
      BY <2>4, <2>5, <2>6, <3>1 DEF Beginning
  <2>7. pages' \in Seq(Features)
    BY <1>4, <2>1
  <2> QED
    BY <1>1, <1>4, <2>6, <2>7 DEF PagesInv
<1> QED
  BY <1>2, <1>3, <1>4 DEF ReadPage, world

LEMMA NextPages == Inv /\ PagesInv /\ [Next]_vars => PagesInv'
<1> SUFFICES ASSUME Inv, PagesInv, [Next]_vars PROVE PagesInv'
  OBVIOUS
<1>1. CASE Begin
  BY <1>1, LayerLeft DEF Begin, world, reading, PagesInv
<1>2. CASE Discover
  BY <1>2, DiscoverPages
<1>3. CASE RequestFails
  BY <1>3, LayerLeft DEF RequestFails, SourceFails, NextSource, world
<1>4. CASE ReadPage
  BY <1>4, PagePages
<1>5. CASE ReadWhole
  BY <1>5, LayerReadPages DEF ReadWhole
<1>6. CASE Save
  BY <1>6, LayerLeft DEF Save, Finish, world, reading, PagesInv
<1>7. CASE Crash
  BY <1>7, LayerLeft DEF Crash, Finish, world
<1>8. ASSUME NEW l \in Changing, Publish(l) \/ Advertise(l)
      PROVE  PagesInv'
  <2>1. CASE Publish(l)
    BY <2>1, PublishPages
  <2>2. CASE Advertise(l)
    BY <2>2, ApartPages DEF Advertise, reading
  <2> QED
    BY <1>8, <2>1, <2>2
<1>9. CASE UNCHANGED vars
  BY <1>9, ApartPages DEF vars, world, reading
<1> QED
  BY <1>1, <1>2, <1>3, <1>4, <1>5, <1>6, <1>7, <1>8, <1>9 DEF Next, RunStep

LEMMA PagesInvariance == Spec => []PagesInv
BY InitPages, NextPages, Invariance, PTL DEF Spec

\* A layer is accepted as it was published.
LEMMA LayerReadAccepts ==
  ASSUME Inv, pc = "read", LayerRead(upstream[Layer]),
         IF acquired'[Source].run = run THEN Layer \in DOMAIN acquired'[Source].layers
                                        ELSE Layer \in DOMAIN got'
  PROVE  (IF acquired'[Source].run = run THEN acquired'[Source].layers ELSE got')[Layer]
           = Normalized(Source, upstream[Layer]).value
<1> DEFINE value == Normalized(Source, upstream[Layer]).value
           layers == With(got, Layer, value)
<1>1. Source \in queue /\ Source \in Sources
  BY SourceInQueue DEF Inv, Shape, Progress
<1>2. acquired[Source].run # run /\ saved.content[Source].run # run
  <2>1. saved.content[Source].run # run
    BY <1>1 DEF Inv, Shape, FileIsOlder
  <2>2. acquired[Source] = saved.content[Source]
    BY <1>1 DEF Inv, SoFar, Waiting
  <2> QED
    BY <2>1, <2>2
<1>3. layers[Layer] = value
  BY DEF With
<1>4. CASE SourceFails("SCHEMA_CHANGED")
  <2>1. acquired'[Source] = saved.content[Source] /\ got' = Nothing
    BY <1>1, <1>4 DEF SourceFails, Kept, NextSource, Inv, Shape
  <2> QED
    BY <1>2, <2>1, NothingIsEmpty
<1>5. CASE acquired' = Accepted(layers) /\ todo = {Layer}
  <2>1. acquired'[Source] = [run |-> run, layers |-> layers]
    BY <1>1, <1>5 DEF Accepted, Inv, Shape
  <2> HIDE DEF layers
  <2> QED
    BY <1>3, <2>1
<1>6. CASE acquired' = Accepted(layers) /\ todo # {Layer} /\ got' = layers
  BY <1>2, <1>3, <1>6 DEF Accepted
<1> QED
  BY <1>4, <1>5, <1>6 DEF LayerRead

(***************************************************************************)
(* adapters/berlin_wfs.py, fetch_all_geojson: a layer that does not change *)
(* while it is read, from a server that returns full pages, is accepted as *)
(* it is published or not at all.                                          *)
(***************************************************************************)
THEOREM LayersComplete == Spec => CompleteUnlessChanged
<1> DEFINE read == IF acquired'[Source].run = run THEN acquired'[Source].layers ELSE got'
           Whole == pc = "read" /\ ~changed =>
             (Layer \in DOMAIN read /\ (server # "caps" \/ Source \in Optional)
                => read[Layer] = Normalized(Source, upstream[Layer]).value)
<1>1. Inv /\ PagesInv /\ [Next]_vars => [Whole]_<<got, acquired>>
  <2> SUFFICES ASSUME Inv, PagesInv, [Next]_vars, <<got, acquired>>' # <<got, acquired>>,
                      pc = "read", ~changed, Layer \in DOMAIN read,
                      server # "caps" \/ Source \in Optional
               PROVE  read[Layer] = Normalized(Source, upstream[Layer]).value
    OBVIOUS
  <2>1. Source \in queue /\ Source \in Sources /\ Layer \in todo /\ Layer \in Layers
    BY SourceInQueue, LayerInTodo DEF Inv, Shape, Progress, PagesInv
  <2>2. saved.content[Source].run # run /\ run # 0
    BY <2>1 DEF Inv, Shape, FileIsOlder
  <2>3. ASSUME NEW error, SourceFails(error) PROVE FALSE
    <3>1. acquired'[Source] = saved.content[Source] /\ got' = Nothing
      BY <2>1, <2>3 DEF SourceFails, Kept, NextSource, Inv, Shape
    <3> QED
      BY <2>2, <3>1, NothingIsEmpty
  <2>4. CASE LayerRead(upstream[Layer])
    BY <2>4, LayerReadAccepts
  <2>5. CASE ReadWhole
    BY <2>4, <2>5 DEF ReadWhole
  <2>6. CASE ReadPage
    <3> DEFINE page == PageOf(upstream[Layer])
    <3>1. PICK p : p = page
      OBVIOUS
    <3>2. /\ p = << >> \/ ~Refused(p)
          /\ EndsLayer(p) /\ LayerRead(pages \o p)
      BY <2>3, <2>6, <3>1 DEF ReadPage
    <3>3. server # "caps"
      BY <2>6 DEF ReadPage, Wfs, Facilities, Climate, Optional
    <3>4. pages \o p = upstream[Layer]
      BY <2>1, <3>1, <3>2, <3>3, Complete
    <3> QED
      BY <2>4, <3>2, <3>4
  <2>7. CASE Crash
    <3>1. acquired'[Source].run = 0 /\ got' = Nothing
      BY <2>1, <2>7 DEF Crash, Finish, NoContent
    <3> QED
      BY <2>2, <3>1, NothingIsEmpty
  <2>8. CASE RequestFails
    BY <2>3, <2>8 DEF RequestFails
  <2> QED
    BY <2>5, <2>6, <2>7, <2>8
       DEF Next, RunStep, vars, Begin, Discover, Save, Publish, Advertise, reading
<1> QED
  BY <1>1, Invariance, PagesInvariance, PTL DEF Spec, CompleteUnlessChanged
-----------------------------------------------------------------------------
\* A run comes nearer to its end: it is done with a source, has found its
\* layers, is done with a layer, or has read a full page more.
Nearer ==
  \/ queue' \subseteq queue /\ queue' # queue
  \/ queue' = queue /\ pc = "discover" /\ pc' = "read"
  \/ /\ queue' = queue /\ pc = "read" /\ pc' = "read"
     /\ todo' \subseteq todo /\ todo' # todo
  \/ /\ queue' = queue /\ pc = "read" /\ pc' = "read" /\ todo' = todo
     /\ Len(pages) + PageSize <= Len(pages') /\ Len(pages') <= MaxFeatures

(***************************************************************************)
(* Every step of a run brings it nearer to its end, which no other step    *)
(* puts off: the sources and their layers become fewer, and the pages of a *)
(* layer more, up to the bound on the features of a layer, whatever the    *)
(* servers return.  The safety half of RunEnds.                            *)
(***************************************************************************)
RunComesNearer ==
  [][/\ RunStep \/ RequestFails => Nearer \/ (pc = "save" /\ pc' = "idle")
     /\ ~RunStep /\ ~Begin => Nearer \/ pc' = "idle" \/ UNCHANGED <<pc, queue, todo, pages>>]_vars

LEMMA NextSourceNearer ==
  ASSUME Inv, pc \in {"discover", "read"}, NextSource
  PROVE  Nearer
<1>1. Source \in queue
  BY SourceInQueue DEF Inv, Shape, Progress
<1> QED
  BY <1>1 DEF NextSource, Nearer

LEMMA LayerReadNearer ==
  ASSUME Inv, pc = "read", NEW features, LayerRead(features)
  PROVE  Nearer
<1>1. CASE NextSource
  BY <1>1, NextSourceNearer
<1>2. CASE todo' = todo \ {Layer} /\ queue' = queue /\ pc' = pc
  <2>1. Layer \in todo
    BY LayerInTodo DEF Inv, Progress
  <2> QED
    BY <1>2, <2>1 DEF Nearer
<1> QED
  BY <1>1, <1>2 DEF LayerRead, SourceFails

\* A page that does not end the layer is a full one, within the bound.
LEMMA PageNearer ==
  ASSUME Inv, PagesInv, ReadPage
  PROVE  Nearer
<1> DEFINE page == PageOf(upstream[Layer])
<1>1. pc = "read" /\ Layer \in Layers
  BY LayerInTodo DEF ReadPage, Inv, Progress, PagesInv
<1>2. page \in Seq(Features) /\ pages \in Seq(Features)
  BY <1>1, PageType DEF PagesInv
<1>3. CASE SourceFails("SCHEMA_CHANGED")
  BY <1>1, <1>3, NextSourceNearer DEF SourceFails
<1>4. CASE LayerRead(pages \o page)
  BY <1>1, <1>4, LayerReadNearer
<1>5. CASE /\ ~Refused(page) /\ ~EndsLayer(page) /\ pages' = pages \o page
           /\ UNCHANGED <<queue, pc, todo>>
  <2> HIDE DEF page
  <2>1. Len(page) >= PageSize /\ Len(pages \o page) <= MaxFeatures
    <3>1. Len(page) \in Nat /\ Len(pages \o page) \in Nat
      BY <1>2
    <3> QED
      BY <1>5, <3>1, PageSizes, ReferenceAssumption DEF Refused, EndsLayer
  <2>2. Len(pages \o page) = Len(pages) + Len(page)
    BY <1>2
  <2>3. Len(pages) + PageSize <= Len(pages')
    BY <1>2, <1>5, <2>1, <2>2, PageSizes
  <2> QED
    BY <1>1, <1>5, <2>1, <2>3 DEF Nearer
<1> QED
  BY <1>3, <1>4, <1>5 DEF ReadPage

THEOREM RunsShrink == Spec => RunComesNearer
<1>1. ASSUME Inv, PagesInv, RunStep \/ RequestFails
      PROVE  Nearer \/ (pc = "save" /\ pc' = "idle")
  <2>1. CASE Discover
    BY <1>1, <2>1, NextSourceNearer DEF Discover, SourceFails, Nearer
  <2>2. CASE ReadPage
    BY <1>1, <2>2, PageNearer
  <2>3. CASE ReadWhole
    BY <1>1, <2>3, LayerReadNearer DEF ReadWhole
  <2>4. CASE Save
    BY <2>4 DEF Save, Finish
  <2>5. CASE RequestFails
    BY <1>1, <2>5, NextSourceNearer DEF RequestFails, SourceFails
  <2> QED
    BY <1>1, <2>1, <2>2, <2>3, <2>4, <2>5 DEF RunStep
<1>2. ASSUME Inv, PagesInv, [Next]_vars, ~RunStep, ~Begin
      PROVE  Nearer \/ pc' = "idle" \/ UNCHANGED <<pc, queue, todo, pages>>
  <2>1. CASE RequestFails
    BY <1>2, <2>1, NextSourceNearer DEF RequestFails, SourceFails
  <2> QED
    BY <1>2, <2>1 DEF Next, Crash, Finish, Publish, Advertise, vars, reading
<1>3. Inv /\ PagesInv /\ [Next]_vars =>
        [/\ RunStep \/ RequestFails => Nearer \/ (pc = "save" /\ pc' = "idle")
         /\ ~RunStep /\ ~Begin =>
              Nearer \/ pc' = "idle" \/ UNCHANGED <<pc, queue, todo, pages>>]_vars
  BY <1>1, <1>2
<1> QED
  BY <1>3, Invariance, PagesInvariance, PTL DEF Spec, RunComesNearer
=============================================================================
