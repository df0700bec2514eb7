------------------------ MODULE ApiControllerProofs ------------------------
(***************************************************************************)
(* Proofs about SnapshotReload and ApiController, which extends it.        *)
(*                                                                         *)
(* First what ReloadingSnapshot guarantees for any stores and any number   *)
(* of publications, whatever comes between its stat and its load.  Nothing *)
(* there depends on the controller.  Then what the API serves while stores *)
(* are saved, withdrawn and reloaded, for any endpoints: it is as new as   *)
(* what was loaded unless an operation raised, it never goes back, and     *)
(* agents are never combined with an older reference state.                *)
(***************************************************************************)
EXTENDS ApiController, TLAPS

USE SnapshotReloadAssumption

LEMMA InitInv == Init => Inv
BY DEF Init, FreshSnapshots, Inv, TypeOK, SnapshotOrder, Nothing

\* The steps of other processes.
LEMMA FilesInv ==
  ASSUME Inv, NEW s \in Stores, Publish(s) \/ Withdraw(s) \/ Restore(s)
  PROVE  Inv'
<1>1. UNCHANGED snapshots
  BY DEF Publish, Withdraw, Restore
<1>2. CASE Publish(s)
  <2>1. PICK k \in Kinds :
          published' = [published EXCEPT ![s] = [n |-> published[s].n + 1, kind |-> k]]
    BY <1>2 DEF Publish
  <2>2. published[s].n + 1 \in 1..MaxPublications
    BY <1>2 DEF Publish, Inv, TypeOK, Publication, Nothing
  <2>3. TypeOK'
    BY <1>1, <1>2, <2>1, <2>2 DEF Publish, snapshots, Inv, TypeOK, Publication
  <2>4. SnapshotOrder(s)'
    BY <1>1, <2>1, <2>2 DEF snapshots, Inv, TypeOK, SnapshotOrder, Publication, Nothing
  <2>5. ASSUME NEW t \in Stores, t # s PROVE SnapshotOrder(t)'
    <3>1. published'[t] = published[t]
      BY <2>1, <2>5 DEF Inv, TypeOK
    <3> QED
      BY <1>1, <3>1 DEF snapshots, Inv, SnapshotOrder
  <2> QED
    BY <2>3, <2>4, <2>5 DEF Inv
<1>3. CASE Withdraw(s) \/ Restore(s)
  BY <1>1, <1>3 DEF Withdraw, Restore, snapshots, Inv, TypeOK, SnapshotOrder
<1> QED
  BY <1>2, <1>3

\* The steps of a refresh.
LEMMA StatInv ==
  ASSUME Inv, NEW s \in Stores, NEW force \in BOOLEAN,
         StatMissing(s, force) \/ StatChanged(s, force)
  PROVE  Inv'
<1>1. /\ UNCHANGED <<published, present, value>>
      /\ \A t \in Stores : published[t].n \in 0..MaxPublications
  BY DEF StatMissing, StatChanged, files, Inv, TypeOK, Publication, Nothing
<1>2. CASE StatMissing(s, force)
  <2>1. /\ signature' = [signature EXCEPT ![s] = 0]
        /\ knownMissing' = [knownMissing EXCEPT ![s] = TRUE]
        /\ status' = [status EXCEPT ![s] = "missing"] /\ loading' = loading
    BY <1>2 DEF StatMissing
  <2> QED
    BY <1>1, <2>1 DEF Inv, TypeOK, SnapshotOrder
<1>3. CASE StatChanged(s, force)
  <2>1. /\ signature' = [signature EXCEPT ![s] = published[s].n]
        /\ knownMissing' = [knownMissing EXCEPT ![s] = FALSE]
        /\ loading' = [loading EXCEPT ![s] = TRUE] /\ status' = status
    BY <1>3 DEF StatChanged, Remembered
  <2> QED
    BY <1>1, <2>1 DEF Inv, TypeOK, SnapshotOrder
<1> QED
  BY <1>2, <1>3

LEMMA LoadInv ==
  ASSUME Inv, NEW s \in Stores, LoadValid(s) \/ LoadRaises(s) \/ LoadFindsNone(s)
  PROVE  Inv'
<1>1. PICK st \in {"current", "missing", "invalid"} :
        /\ loading[s] /\ loading' = [loading EXCEPT ![s] = FALSE]
        /\ status' = [status EXCEPT ![s] = st]
        /\ UNCHANGED <<published, present, signature, knownMissing>>
        /\ \/ st = "current" /\ LoadValid(s)
           \/ st # "current" /\ value' = value
  BY DEF LoadValid, LoadRaises, LoadFindsNone, Diagnose, files
<1>2. CASE st # "current" /\ value' = value
  BY <1>1, <1>2 DEF Inv, TypeOK, SnapshotOrder
<1>3. CASE st = "current" /\ LoadValid(s)
  <2>1. /\ published[s].kind \in Loadable
        /\ value' = [value EXCEPT ![s] = published[s]]
    BY <1>3 DEF LoadValid, Validates
  <2>2. published[s] \in [n : 1..MaxPublications, kind : Loadable] /\ published[s] # Nothing
    BY <2>1 DEF Inv, TypeOK, Publication, Nothing
  <2>3. TypeOK'
    BY <1>1, <1>3, <2>1, <2>2 DEF Inv, TypeOK
  <2>4. SnapshotOrder(s)'
    BY <1>1, <1>3, <2>1, <2>2 DEF Inv, TypeOK, SnapshotOrder
  <2>5. ASSUME NEW t \in Stores, t # s PROVE SnapshotOrder(t)'
    BY <1>1, <2>1, <2>5 DEF Inv, TypeOK, SnapshotOrder
  <2> QED
    BY <2>3, <2>4, <2>5 DEF Inv
<1> QED
  BY <1>1, <1>2, <1>3

LEMMA NextInv == Inv /\ [Next]_vars => Inv'
<1> SUFFICES ASSUME Inv, [Next]_vars PROVE Inv'
  OBVIOUS
<1>1. CASE UNCHANGED vars
  BY <1>1 DEF vars, Inv, TypeOK, SnapshotOrder
<1>2. CASE Next
  BY <1>2, FilesInv, StatInv, LoadInv DEF Next, Refresh
<1> QED
  BY <1>1, <1>2

(***************************************************************************)
(* Every reachable state is typed (in particular, nothing that validation  *)
(* rejects is ever held) and respects the order that HonestStatus needs.   *)
(***************************************************************************)
THEOREM Invariance == Spec => []Inv
BY InitInv, NextInv, PTL DEF Spec

\* Only validated content becomes the value, and the rest of the types.
THEOREM TypeCorrectness == Spec => []TypeOK
<1>1. Inv => TypeOK
  BY DEF Inv
<1> QED
  BY Invariance, <1>1, PTL

(***************************************************************************)
(* A store reported current whose file has the remembered signature holds  *)
(* the content of that file, for any interleaving of saves and refreshes.  *)
(***************************************************************************)
THEOREM Honesty == Spec => []HonestStatus
<1>1. ASSUME Inv, NEW s \in Stores, ~loading[s], status[s] = "current"
      PROVE  value[s] # Nothing /\ (signature[s] = published[s].n => value[s] = published[s])
  <2>1. /\ value[s].n \in Nat /\ published[s].n \in Nat /\ signature[s] \in Nat
    BY <1>1 DEF Inv, TypeOK, Publication, Nothing
  <2>2. SnapshotOrder(s)
    BY <1>1 DEF Inv
  <2> QED
    BY <1>1, <2>1, <2>2 DEF SnapshotOrder
<1>2. Inv => HonestStatus
  BY <1>1 DEF HonestStatus
<1> QED
  BY Invariance, <1>2, PTL
-----------------------------------------------------------------------------
(***************************************************************************)
(* The safety halves of VisibleOrReported and Quiesces.                    *)
(***************************************************************************)
\* The refreshes a store still calls for: one that would not return early
\* (its stat, its load) and the rest of one under way.
Due(s) == IF present[s] THEN Changed(s) ELSE ~knownMissing[s]
Work(s) == (IF Due(s) THEN 2 ELSE 0) + (IF loading[s] THEN 1 ELSE 0)

(***************************************************************************)
(* Where a request's refresh has nothing to do for a valid file in place,  *)
(* the file's content is what is held, or the diagnostic says it is not.   *)
(***************************************************************************)
IdleIsVisible ==
  \A s \in Stores : Settled(s) /\ EarlyReturn(s, FALSE) =>
    value[s] = published[s] \/ status[s] # "current"

THEOREM VisibleWhenIdle == Spec => []IdleIsVisible
<1>1. HonestStatus => IdleIsVisible
  BY DEF HonestStatus, IdleIsVisible, Settled, EarlyReturn, Changed
<1> QED
  BY <1>1, Honesty, PTL

(***************************************************************************)
(* Every step that leaves the files alone is of one store and lowers its   *)
(* work: a change of a file causes at most one load beside one that was    *)
(* under way, whether loading succeeds, raises or finds nothing.           *)
(***************************************************************************)
ReloadsRunOut ==
  [][UNCHANGED files =>
       \E s \in Stores :
         /\ Work(s)' < Work(s)
         /\ \A t \in Stores \ {s} : Work(t)' = Work(t)]_vars

LEMMA StatWorks ==
  ASSUME Inv, NEW s \in Stores, StatMissing(s, FALSE) \/ StatChanged(s, FALSE)
  PROVE  Work(s)' < Work(s) /\ \A t \in Stores \ {s} : Work(t)' = Work(t)
<1>1. UNCHANGED <<published, present>>
  BY DEF StatMissing, StatChanged, files
<1>2. CASE StatMissing(s, FALSE)
  <2>1. /\ signature' = [signature EXCEPT ![s] = 0]
        /\ knownMissing' = [knownMissing EXCEPT ![s] = TRUE] /\ loading' = loading
        /\ ~present[s] /\ ~knownMissing[s] /\ ~loading[s]
    BY <1>2 DEF StatMissing
  <2>2. Due(s) /\ ~Due(s)'
    BY <1>1, <2>1 DEF Due, Inv, TypeOK
  <2>3. \A t \in Stores \ {s} : Due(t)' = Due(t) /\ loading'[t] = loading[t]
    BY <1>1, <2>1 DEF Due, Changed, Inv, TypeOK
  <2> QED
    BY <2>1, <2>2, <2>3 DEF Work
<1>3. CASE StatChanged(s, FALSE)
  <2>1. /\ signature' = [signature EXCEPT ![s] = published[s].n]
        /\ knownMissing' = [knownMissing EXCEPT ![s] = FALSE]
        /\ loading' = [loading EXCEPT ![s] = TRUE]
        /\ present[s] /\ Changed(s) /\ ~loading[s]
    BY <1>3 DEF StatChanged, Remembered
  <2>2. Due(s) /\ ~Due(s)' /\ loading'[s]
    BY <1>1, <2>1 DEF Due, Changed, Inv, TypeOK
  <2>3. \A t \in Stores \ {s} : Due(t)' = Due(t) /\ loading'[t] = loading[t]
    BY <1>1, <2>1 DEF Due, Changed, Inv, TypeOK
  <2> QED
    BY <2>1, <2>2, <2>3 DEF Work
<1> QED
  BY <1>2, <1>3

LEMMA LoadWorks ==
  ASSUME Inv, NEW s \in Stores, LoadValid(s) \/ LoadRaises(s) \/ LoadFindsNone(s)
  PROVE  Work(s)' < Work(s) /\ \A t \in Stores \ {s} : Work(t)' = Work(t)
<1>1. /\ loading[s] /\ loading' = [loading EXCEPT ![s] = FALSE]
      /\ UNCHANGED <<published, present, signature, knownMissing>>
  BY DEF LoadValid, LoadRaises, LoadFindsNone, Diagnose, files
<1>2. \A t \in Stores : Due(t)' = Due(t)
  BY <1>1 DEF Due, Changed
<1>3. ~loading'[s] /\ \A t \in Stores \ {s} : loading'[t] = loading[t]
  BY <1>1 DEF Inv, TypeOK
<1> QED
  BY <1>1, <1>2, <1>3 DEF Work

THEOREM ReloadsEnd == Spec => ReloadsRunOut
<1>1. ASSUME Inv, Next, UNCHANGED files
      PROVE  \E s \in Stores :
               /\ Work(s)' < Work(s)
               /\ \A t \in Stores \ {s} : Work(t)' = Work(t)
  <2>1. PICK s \in Stores : Publish(s) \/ Withdraw(s) \/ Restore(s) \/ Refresh(s)
    BY <1>1 DEF Next
  <2>2. ~Publish(s)
    <3> SUFFICES ASSUME Publish(s) PROVE FALSE
      OBVIOUS
    <3>1. PICK k \in Kinds :
            published' = [published EXCEPT ![s] = [n |-> published[s].n + 1, kind |-> k]]
      BY DEF Publish
    <3>2. published'[s].n = published[s].n + 1 /\ published[s].n \in Nat
      BY <1>1, <3>1 DEF Inv, TypeOK, Publication, Nothing
    <3> QED
      BY <1>1, <3>2 DEF files
  <2>3. ~Withdraw(s) /\ ~Restore(s)
    BY <1>1 DEF Withdraw, Restore, files, Inv, TypeOK
  <2> QED
    BY <1>1, <2>1, <2>2, <2>3, StatWorks, LoadWorks DEF Refresh
<1>2. Inv /\ [Next]_vars =>
        [UNCHANGED files =>
           \E s \in Stores :
             /\ Work(s)' < Work(s)
             /\ \A t \in Stores \ {s} : Work(t)' = Work(t)]_vars
  BY <1>1
<1> QED
  BY Invariance, <1>2, PTL DEF Spec, ReloadsRunOut
-----------------------------------------------------------------------------
LEMMA InitRefines == Init => Served!Init
BY DEF Init, FreshSnapshots, Served!Init, Nothing, Served!Nothing

LEMMA NextRefines == Inv /\ [Next]_vars => [Served!Next]_(Served!vars)
<1> SUFFICES ASSUME Inv, [Next]_vars PROVE [Served!Next]_(Served!vars)
  OBVIOUS
<1>1. CASE UNCHANGED vars
  BY <1>1 DEF vars, Served!vars
<1>2. ASSUME NEW s \in Stores, Publish(s) PROVE Served!Publish(s)
  BY <1>2 DEF Publish, snapshots, Served!Publish, Kinds, Served!Kinds
<1>3. ASSUME NEW s \in Stores, Withdraw(s) \/ Restore(s) PROVE Served!ComeOrGo(s)
  <2>1. present[s] \in BOOLEAN /\ UNCHANGED <<published, value>>
    BY <1>3 DEF Withdraw, Restore, snapshots, Inv, TypeOK
  <2>2. present' = [present EXCEPT ![s] = ~present[s]]
    <3>1. CASE Withdraw(s)
      <4>1. FALSE = ~present[s]
        BY <3>1 DEF Withdraw
      <4> QED
        BY <3>1, <4>1, Zenon DEF Withdraw
    <3>2. CASE Restore(s)
      <4>1. TRUE = ~present[s]
        BY <3>2 DEF Restore
      <4> QED
        BY <3>2, <4>1, Zenon DEF Restore
    <3> QED
      BY <1>3, <3>1, <3>2
  <2> QED
    BY <2>1, <2>2 DEF Served!ComeOrGo
<1>4. ASSUME NEW s \in Stores, LoadValid(s) PROVE Served!Adopt(s)
  BY <1>4 DEF LoadValid, Validates, Diagnose, files, Served!Adopt
<1>5. ASSUME NEW s \in Stores,
             \/ StatMissing(s, FALSE) \/ StatChanged(s, FALSE)
             \/ LoadRaises(s) \/ LoadFindsNone(s)
      PROVE  UNCHANGED Served!vars
  BY <1>5 DEF StatMissing, StatChanged, LoadRaises, LoadFindsNone, Diagnose, files, Served!vars
<1> QED
  BY <1>1, <1>2, <1>3, <1>4, <1>5 DEF Next, Refresh, Served!Next

(***************************************************************************)
(* ReloadingSnapshot implements LastKnownGood: what a store holds changes  *)
(* only to a publication that is in place and valid, and is never lost.    *)
(***************************************************************************)
THEOREM Refinement == Spec => ImplementsLastKnownGood
BY InitRefines, NextRefines, Invariance, PTL DEF Spec, ImplementsLastKnownGood, Served!Spec
-----------------------------------------------------------------------------
Snapshot == UNION {[Feeds[f] -> Content] : f \in Fields}

ApiTypes ==
  /\ op \in {"down", "initialize", "idle", "refresh"}
  /\ at \in 1..LastField
  /\ op \in {"down", "idle"} => at = 1
  /\ changed \subseteq Stores
  /\ missed \subseteq Stores
  /\ app = [f \in Fields |-> app[f]]
  /\ \A f \in Fields : app[f] \in [Feeds[f] -> Content]

\* Before the first build there is nothing; between operations the routes
\* that are shown are those that are kept.
Unbuilt == op = "down" \/ (op = "initialize" /\ at <= ApplyStep)
Applying == op \in {"initialize", "refresh"} /\ at >= FirstField

RoutesShown == app["critical_routes"] = routes

RoutesKept ==
  /\ Unbuilt => routes = NoRoutes /\ app = EmptyApp
  /\ ~Unbuilt => routes \in [Feeds["critical_routes"] -> Content]
  /\ ~Unbuilt /\ ~Applying => RoutesShown

\* A field shows what is loaded, but for the stores that are excused.
Current(f, excused) == \A s \in Feeds[f] : app[f][s] = value[s] \/ s \in excused

\* How far an operation has brought the fields.
Progress ==
  /\ op = "idle" => \A f \in Fields : Current(f, missed)
  /\ op = "refresh" => \A f \in Fields : Current(f, missed \cup changed)
  /\ Applying =>
       /\ \A i \in 1..(at - FirstField) :
            IF FieldOrder[i] = "critical_routes"
            THEN app["critical_routes"] = routes
            ELSE Current(FieldOrder[i], {})
       /\ \A s \in Feeds["critical_routes"] :
            routes[s] = value[s] \/ s \in missed

\* Nothing shown is newer than what it is taken from.
ShownOrder ==
  /\ \A f \in Fields : \A s \in Feeds[f] : app[f][s].n <= value[s].n
  /\ ~Unbuilt => \A s \in Feeds["critical_routes"] :
       app["critical_routes"][s].n <= routes[s].n /\ routes[s].n <= value[s].n
  /\ \A s \in Feeds["agents"] : app["orchestrator"][s].n <= app["agents"][s].n
  /\ app["agents"]["reference"].n <= app["reference"]["reference"].n

\* What an endpoint has read of the agents is not newer than the reference
\* state it can still read.
HandlerOrder ==
  /\ handler.endpoint \in DOMAIN Reads \cup {"none"}
  /\ handler = [endpoint |-> handler.endpoint, seen |-> handler.seen]
  /\ handler.seen \in Seq(Snapshot)
  /\ Running => Len(handler.seen) <= Len(ToRead)
  /\ ~Running => handler.seen = <<>>
  /\ \A i \in 1..Len(handler.seen) : ToRead[i] = "agents" =>
       handler.seen[i]["reference"].n \in 0..app["reference"]["reference"].n
  /\ AgentsTrailReference

ApiInv ==
  Inv /\ ApiTypes /\ RoutesKept /\ Progress /\ ShownOrder /\ HandlerOrder
-----------------------------------------------------------------------------
LEMMA Names ==
  /\ Stores = {"runtime", "reference", "energy", "derived", "traffic"}
  /\ Fields = {"runtime", "reference", "energy_state", "derived",
               "traffic_disruptions", "critical_routes", "agents", "orchestrator"}
  /\ ApplyStep = 6 /\ FirstField = 7 /\ LastField = 14
BY ApiControllerAssumption DEF Fields, FieldOrder, StoreOrder, ApplyStep, FirstField, LastField

LEMMA Order ==
  /\ FieldOrder[1] = "runtime" /\ FieldOrder[2] = "reference"
  /\ FieldOrder[3] = "energy_state" /\ FieldOrder[4] = "derived"
  /\ FieldOrder[5] = "traffic_disruptions" /\ FieldOrder[6] = "critical_routes"
  /\ FieldOrder[7] = "agents" /\ FieldOrder[8] = "orchestrator"
  /\ \A i \in 1..8 : FieldOrder[i] \in Fields
BY Names DEF FieldOrder

LEMMA PlaceOf ==
  ASSUME NEW i \in 1..8
  PROVE  /\ FieldOrder[i] = "agents" => i = 7
         /\ FieldOrder[i] = "orchestrator" => i = 8
<1>1. i = 1 \/ i = 2 \/ i = 3 \/ i = 4 \/ i = 5 \/ i = 6 \/ i = 7 \/ i = 8
  OBVIOUS
<1> QED
  BY <1>1, Order

LEMMA FeedsOf ==
  /\ Feeds["reference"] = {"reference"}
  /\ Feeds["critical_routes"] = {"reference", "traffic"}
  /\ Feeds["agents"] = {"runtime", "reference", "energy"}
  /\ Feeds["orchestrator"] = {"runtime", "reference", "energy"}
  /\ \A f \in Fields : Feeds[f] \subseteq Stores
BY Names DEF Feeds

LEMMA StoreIn == ASSUME at \in 1..5 PROVE Store \in Stores
BY Names DEF Store, StoreOrder

LEMMA ValueTyped ==
  ASSUME TypeOK, NEW s \in Stores
  PROVE  value[s] \in Content /\ value[s].n \in Nat
<1>1. value[s] \in [n : 1..MaxPublications, kind : Loadable] \cup {Nothing}
  BY DEF TypeOK
<1>2. Nothing \in Content
  BY DEF Content, Nothing
<1> QED
  BY <1>1, <1>2 DEF Content

LEMMA ResetInv == ASSUME Inv, UNCHANGED files, FreshSnapshots' PROVE Inv'
<1>1. /\ published' = published /\ present' = present
      /\ \A s \in Stores : published[s] \in Publication \cup {Nothing}
  BY DEF files, Inv, TypeOK
<1>2. TypeOK'
  BY <1>1 DEF FreshSnapshots, Inv, TypeOK
<1>3. \A s \in Stores : SnapshotOrder(s)'
  <2> TAKE s \in Stores
  <2>1. /\ value'[s] = Nothing /\ signature'[s] = 0 /\ status'[s] = "missing"
        /\ published'[s] \in Publication \cup {Nothing}
    BY <1>1 DEF FreshSnapshots
  <2> QED
    BY <2>1 DEF SnapshotOrder, Publication, Nothing
<1> QED
  BY <1>2, <1>3 DEF Inv

LEMMA InitApi == ApiInit => ApiInv
<1> SUFFICES ASSUME ApiInit PROVE ApiInv
  OBVIOUS
<1> USE Names, FeedsOf DEF ApiInit
<1>1. Inv
  BY InitInv
<1>2. Nothing \in Content /\ Nothing.n = 0
  BY DEF Nothing, Content
<1>3. \A f \in Fields : app[f] = [s \in Feeds[f] |-> Nothing]
  BY DEF EmptyApp
<1>4. \A f \in Fields : \A s \in Feeds[f] : app[f][s] = Nothing /\ value[s] = Nothing
  BY <1>3 DEF Init, FreshSnapshots
<1>5. ApiTypes
  BY <1>2, <1>3 DEF ApiTypes, EmptyApp, NoHandler
<1>6. RoutesKept /\ Progress
  BY DEF RoutesKept, Progress, Unbuilt, Applying
<1>7. ShownOrder
  BY <1>2, <1>4 DEF ShownOrder, Unbuilt
<1>8. HandlerOrder
  BY DEF HandlerOrder, AgentsTrailReference, NoHandler, Running
<1> QED
  BY <1>1, <1>5, <1>6, <1>7, <1>8 DEF ApiInv

\* The end of the process, by a crash or by a failed start.
LEMMA DownInv == ASSUME ApiInv, ToDown PROVE ApiInv'
<1> USE DEF ToDown, Begin
<1>1. Inv'
  BY ResetInv DEF ApiInv, FreshSnapshots
<1>2. Nothing \in Content /\ Nothing.n = 0
  BY DEF Nothing, Content
<1>3. \A f \in Fields : app'[f] = [s \in Feeds[f] |-> Nothing]
  BY DEF EmptyApp
<1>4. \A f \in Fields : \A s \in Feeds[f] : app'[f][s] = Nothing /\ value'[s] = Nothing
  <2> SUFFICES ASSUME NEW f \in Fields, NEW s \in Feeds[f]
               PROVE  app'[f][s] = Nothing /\ value'[s] = Nothing
    OBVIOUS
  <2>1. s \in Stores
    BY FeedsOf
  <2> QED
    BY <1>3, <2>1
<1>5. ApiTypes'
  BY <1>2, <1>3, Names DEF ApiTypes, EmptyApp, NoHandler
<1>6. RoutesKept' /\ Progress'
  BY Names DEF RoutesKept, Progress, Unbuilt, Applying
<1>7. ShownOrder'
  BY <1>2, <1>4, Names, FeedsOf DEF ShownOrder, Unbuilt
<1>8. HandlerOrder'
  BY DEF HandlerOrder, AgentsTrailReference, NoHandler, Running
<1> QED
  BY <1>1, <1>5, <1>6, <1>7, <1>8 DEF ApiInv
-----------------------------------------------------------------------------
\* What depends on fewer variables.
LEMMA ControllerSame ==
  ASSUME ApiInv, UNCHANGED <<value, controller, routes, app, missed>>
  PROVE  ApiTypes' /\ RoutesKept' /\ Progress' /\ ShownOrder'
<1> USE DEF ApiInv, controller
<1>1. ApiTypes'
  BY DEF ApiTypes
<1>2. RoutesKept'
  BY DEF RoutesKept, RoutesShown, Unbuilt, Applying
<1>3. Progress'
  BY DEF Progress, Applying, Current, RebuildDue
<1>4. ShownOrder'
  BY DEF ShownOrder, Unbuilt
<1> QED
  BY <1>1, <1>2, <1>3, <1>4

LEMMA HandlerSame ==
  ASSUME ApiInv, UNCHANGED handler,
         app'["reference"]["reference"].n \in Nat,
         app["reference"]["reference"].n <= app'["reference"]["reference"].n
  PROVE  HandlerOrder'
<1>1. app["reference"]["reference"].n \in Nat
  BY Names, FeedsOf DEF ApiInv, ApiTypes, Content
<1>2. ASSUME NEW i \in 1..Len(handler.seen), ToRead[i] = "agents"
      PROVE  handler.seen[i]["reference"].n \in 0..app'["reference"]["reference"].n
  <2>1. handler.seen[i]["reference"].n \in 0..app["reference"]["reference"].n
    BY <1>2 DEF ApiInv, HandlerOrder
  <2> QED
    BY <1>1, <2>1
<1> QED
  BY <1>2 DEF ApiInv, HandlerOrder, AgentsTrailReference, Running, ToRead

\* The steps of other processes, and a stat that leads to a load.
LEMMA EnvironmentInv ==
  ASSUME ApiInv, Inv', UNCHANGED <<value, controller, routes, app, missed, handler>>
  PROVE  ApiInv'
<1>1. app'["reference"]["reference"].n \in Nat
  BY Names, FeedsOf DEF ApiInv, ApiTypes, Content
<1>2. HandlerOrder'
  BY <1>1, HandlerSame
<1> QED
  BY <1>2, ControllerSame DEF ApiInv

\* The steps that leave what is shown and loaded alone, and move on.
LEMMA OperationInv ==
  ASSUME ApiInv, UNCHANGED <<vars, routes, app, handler>>,
         \/ Start \/ BeginRefresh \/ RefreshUnchanged \/ NothingChanged
         \/ op = "refresh" /\ Raise /\ RoutesShown
         \/ KeepRoutes
  PROVE  ApiInv'
<1> USE Names DEF ApiInv
<1>1. Inv'
  BY DEF vars, Inv, TypeOK, SnapshotOrder
<1>2. /\ UNCHANGED <<value, routes, app, handler>>
      /\ app["reference"]["reference"].n \in Nat
  BY FeedsOf DEF vars, ApiTypes, Content
<1>3. HandlerOrder'
  BY <1>2, HandlerSame
<1>4. CASE Start
  <2>1. op = "down" /\ op' = "initialize" /\ at' = 1 /\ changed' = {} /\ missed' = missed
    BY <1>4 DEF Start, Begin
  <2>2. ApiTypes' /\ RoutesKept' /\ ShownOrder'
    BY <1>2, <2>1 DEF ApiTypes, RoutesKept, ShownOrder, Unbuilt, Applying
  <2>3. Progress'
    BY <1>2, <2>1 DEF Progress, Applying
  <2> QED
    BY <1>1, <1>3, <2>2, <2>3
<1>5. CASE BeginRefresh
  <2>1. op = "idle" /\ op' = "refresh" /\ at' = 1 /\ changed' = {} /\ missed' = missed
    BY <1>5 DEF BeginRefresh, Begin
  <2>2. ApiTypes' /\ RoutesKept' /\ ShownOrder'
    BY <1>2, <2>1 DEF ApiTypes, RoutesKept, RoutesShown, ShownOrder, Unbuilt, Applying
  <2>3. Progress'
    BY <1>2, <2>1 DEF Progress, Applying, Current
  <2> QED
    BY <1>1, <1>3, <2>2, <2>3
<1>6. CASE RefreshUnchanged
  <2>1. /\ op \in {"initialize", "refresh"} /\ op' = op
        /\ at < 6 /\ at' = at + 1 /\ changed' = changed /\ missed' = missed
    BY <1>6 DEF RefreshUnchanged, AtStore, Return
  <2>2. ApiTypes' /\ RoutesKept' /\ ShownOrder'
    BY <1>2, <2>1 DEF ApiTypes, RoutesKept, RoutesShown, ShownOrder, Unbuilt, Applying
  <2>3. Progress'
    BY <1>2, <2>1 DEF ApiTypes, Progress, Applying, Current
  <2> QED
    BY <1>1, <1>3, <2>2, <2>3
<1>7. CASE NothingChanged \/ (op = "refresh" /\ Raise /\ RoutesShown)
  <2>1. /\ op = "refresh" /\ op' = "idle" /\ at' = 1
        /\ changed' = {} /\ missed' = missed \cup changed
    BY <1>7 DEF NothingChanged, Raise, Begin, ApiTypes
  <2>r. RoutesShown
    BY <1>7 DEF NothingChanged, RoutesShown, Applying, RoutesKept, Unbuilt
  <2>2. ApiTypes' /\ RoutesKept' /\ ShownOrder'
    BY <1>2, <2>1, <2>r DEF ApiTypes, RoutesKept, RoutesShown, ShownOrder, Unbuilt, Applying
  <2>3. \A f \in Fields : Current(f, missed \cup changed)
    BY <2>1 DEF Progress
  <2>4. Progress'
    BY <1>2, <2>1, <2>3 DEF Progress, Applying, Current
  <2> QED
    BY <1>1, <1>3, <2>2, <2>4
<1>8. CASE KeepRoutes
  <2>1. /\ op = "refresh" /\ op' = op /\ at = 6 /\ at' = 7
        /\ changed' = changed /\ missed' = missed
        /\ changed \cap {"reference", "traffic"} = {}
    BY <1>2, <1>8 DEF KeepRoutes, AtApply, RebuildDue, ApiTypes
  <2>2. ApiTypes' /\ RoutesKept' /\ ShownOrder'
    BY <1>2, <2>1 DEF ApiTypes, RoutesKept, RoutesShown, ShownOrder, Unbuilt, Applying
  <2>3. \A s \in Feeds["critical_routes"] : routes[s] = value[s] \/ s \in missed
    BY <2>1, FeedsOf DEF RoutesKept, RoutesShown, Progress, Current, Unbuilt, Applying
  <2>4. Progress'
    BY <1>2, <2>1, <2>3 DEF Progress, Applying, Current
  <2> QED
    BY <1>1, <1>3, <2>2, <2>4
<1> QED
  BY <1>4, <1>5, <1>6, <1>7, <1>8

\* A load replaces the value of its store by a newer one.
LEMMA LoadAdvances ==
  ASSUME Inv, NEW t \in Stores, LoadValid(t)
  PROVE  /\ value' = [value EXCEPT ![t] = published[t]]
         /\ \A s \in Stores : value[s].n <= value'[s].n /\ value'[s] \in Content
         /\ \A s \in Stores \ {t} : value'[s] = value[s]
<1>1. value' = [value EXCEPT ![t] = published[t]] /\ published[t].kind \in Loadable
  BY DEF LoadValid, Validates
<1>2. /\ published[t] \in Content /\ value[t].n <= published[t].n
      /\ \A s \in Stores : value[s] \in Content
  BY <1>1, ValueTyped DEF Inv, TypeOK, SnapshotOrder, Publication, Content, Nothing
<1>3. value \in [Stores -> Content]
  BY <1>2 DEF Inv, TypeOK
<1> QED
  BY <1>1, <1>2, <1>3 DEF Content

\* The steps of a refresh that returns.
LEMMA ReturnInv ==
  ASSUME ApiInv, RefreshMissing \/ RefreshLoadValid \/ RefreshLoadFails
  PROVE  ApiInv'
<1> USE DEF ApiInv
<1>1. PICK result \in BOOLEAN :
        /\ op \in {"initialize", "refresh"} /\ op' = op
        /\ at \in 1..5 /\ at' = at + 1
        /\ changed' = IF result THEN changed \cup {Store} ELSE changed
        /\ UNCHANGED <<routes, app, missed, handler>>
        /\ ~result => value' = value
        /\ result => LoadValid(Store)
  <2>1. AtStore => op \in {"initialize", "refresh"} /\ at \in 1..5
    BY Names DEF AtStore, ApiTypes
  <2>2. CASE RefreshMissing \/ RefreshLoadFails
    <3>1. AtStore /\ Return(FALSE) /\ value' = value
      BY <2>2 DEF RefreshMissing, RefreshLoadFails, StatMissing, LoadRaises, LoadFindsNone
    <3> QED
      BY <2>1, <3>1 DEF Return
  <2>3. CASE RefreshLoadValid
    BY <2>1, <2>3 DEF RefreshLoadValid, Return
  <2> QED
    BY <2>2, <2>3
<1>2. Store \in Stores
  BY <1>1, StoreIn
<1>3. Inv'
  BY <1>2, StatInv, LoadInv DEF RefreshMissing, RefreshLoadValid, RefreshLoadFails, Forced
<1>4. app["reference"]["reference"].n \in Nat
  BY Names, FeedsOf DEF ApiTypes, Content
<1>5. HandlerOrder'
  BY <1>1, <1>4, HandlerSame
<1>6. /\ \A s \in Stores : value[s].n \in Nat /\ value'[s].n \in Nat
      /\ \A s \in Stores : value[s].n <= value'[s].n
      /\ \A s \in Stores : value'[s] = value[s] \/ s \in changed'
  BY <1>1, <1>2, LoadAdvances, ValueTyped DEF Inv, Content
<1>7. ApiTypes' /\ RoutesKept'
  BY <1>1, <1>2, Names DEF ApiTypes, RoutesKept, RoutesShown, Unbuilt, Applying
<1>8. Progress'
  <2>1. ASSUME op = "refresh", NEW f \in Fields, NEW s \in Feeds[f]
        PROVE  app[f][s] = value'[s] \/ s \in missed \cup changed'
    <3>1. app[f][s] = value[s] \/ s \in missed \cup changed
      BY <1>1, <2>1, Names DEF Progress, Applying, Current
    <3> QED
      BY <1>1, <1>6, <2>1, <3>1, FeedsOf
  <2> QED
    BY <1>1, <2>1, Names DEF Progress, Applying, Current
<1>9. ShownOrder'
  <2>1. ASSUME NEW f \in Fields, NEW s \in Feeds[f]
        PROVE  app[f][s].n <= value'[s].n
    <3>1. s \in Stores /\ app[f][s].n \in Nat /\ app[f][s].n <= value[s].n
      BY FeedsOf DEF ShownOrder, ApiTypes, Content
    <3> QED
      BY <1>6, <3>1
  <2>2. ASSUME ~Unbuilt, NEW s \in Feeds["critical_routes"]
        PROVE  app["critical_routes"][s].n <= routes[s].n /\ routes[s].n <= value'[s].n
    <3>1. /\ s \in Stores /\ routes[s].n \in Nat /\ routes[s].n <= value[s].n
          /\ app["critical_routes"][s].n <= routes[s].n
      BY <2>2, Names, FeedsOf DEF ShownOrder, RoutesKept, Content
    <3> QED
      BY <1>6, <3>1
  <2>3. Unbuilt' <=> Unbuilt
    BY <1>1, Names DEF Unbuilt
  <2> QED
    BY <1>1, <2>1, <2>2, <2>3 DEF ShownOrder
<1> QED
  BY <1>3, <1>5, <1>7, <1>8, <1>9
-----------------------------------------------------------------------------
\* The build takes the reference state and the traffic that are loaded.
LEMMA BuildInv == ASSUME ApiInv, BuildRoutes PROVE ApiInv'
<1> USE DEF ApiInv
<1>1. /\ op \in {"initialize", "refresh"} /\ op' = op /\ at = 6 /\ at' = 7
      /\ UNCHANGED <<vars, changed, app, missed, handler>>
      /\ routes' = [s \in Feeds["critical_routes"] |-> value[s]]
  BY Names DEF BuildRoutes, AtApply, ApiTypes
<1>2. Inv' /\ value' = value
  BY <1>1 DEF vars, Inv, TypeOK, SnapshotOrder
<1>3. app["reference"]["reference"].n \in Nat
  BY Names, FeedsOf DEF ApiTypes, Content
<1>4. HandlerOrder'
  BY <1>1, <1>3, HandlerSame
<1>5. /\ \A s \in Feeds["critical_routes"] : routes'[s] = value[s]
      /\ \A s \in Feeds["critical_routes"] : value[s] \in Content /\ value[s].n \in Nat
  BY <1>1, FeedsOf, Names, ValueTyped DEF Inv
<1>6. ApiTypes' /\ RoutesKept'
  BY <1>1, <1>5, Names DEF ApiTypes, RoutesKept, RoutesShown, Unbuilt, Applying
<1>7. Progress'
  BY <1>1, <1>2, <1>5, Names DEF Progress, Applying, Current
<1>8. ShownOrder'
  BY <1>1, <1>2, <1>5, Names DEF ShownOrder, Unbuilt
<1> QED
  BY <1>2, <1>4, <1>6, <1>7, <1>8

\* What an assignment of _apply leaves in the field.
LEMMA AssignShape ==
  ASSUME ApiInv, AssignField, NEW f, f = FieldOrder[at - 6]
  PROVE  /\ Applying /\ f \in Fields /\ at - 6 \in 1..8
         /\ \A g \in Fields \ {f} : app'[g] = app[g]
         /\ app' = [g \in Fields |-> app'[g]]
         /\ app'[f] \in [Feeds[f] -> Content]
         /\ f = "critical_routes" => app'[f] = routes
         /\ f # "critical_routes" => \A s \in Feeds[f] : app'[f][s] = value[s]
<1> USE DEF ApiInv
<1>1. at \in 7..14 /\ Applying /\ f \in Fields /\ at - 6 \in 1..8
  BY Names, Order DEF AssignField, AtField, ApiTypes, Applying
<1>2. app' = [app EXCEPT ![f] = Assigned(f)]
  BY Names DEF AssignField, Field, FieldAt
<1>3. app'[f] = Assigned(f) /\ \A g \in Fields \ {f} : app'[g] = app[g]
  BY <1>1, <1>2 DEF ApiTypes
<1>4. app' = [g \in Fields |-> app'[g]]
  BY <1>2 DEF ApiTypes
<1>5. CASE f = "critical_routes"
  BY <1>1, <1>3, <1>4, <1>5, Names DEF Assigned, RoutesKept, Unbuilt, Applying
<1>6. CASE f = "orchestrator"
  <2> DEFINE i == at - 6
  <2>0. i \in 1..8 /\ FieldOrder[i] = "orchestrator"
    BY <1>1, <1>6
  <2> HIDE DEF i
  <2>a. i = 8
    BY <2>0, PlaceOf
  <2>1. at = 14
    BY <1>1, <2>a DEF i
  <2>2. Current("agents", {})
    BY <1>1, <2>1, Names, Order DEF Progress
  <2>3. app'[f] = app["agents"]
    BY <1>3, <1>6 DEF Assigned
  <2> QED
    BY <1>1, <1>3, <1>4, <1>6, <2>2, <2>3, Names, FeedsOf DEF ApiTypes, Current
<1>7. CASE f \notin {"critical_routes", "orchestrator"}
  <2>1. app'[f] = [s \in Feeds[f] |-> value[s]]
    BY <1>3, <1>7 DEF Assigned
  <2>2. \A s \in Feeds[f] : value[s] \in Content
    BY <1>1, FeedsOf, ValueTyped DEF Inv
  <2> QED
    BY <1>1, <1>3, <1>4, <1>7, <2>1, <2>2
<1> QED
  BY <1>5, <1>6, <1>7

\* An assignment never makes a field older.
LEMMA AssignAdvances ==
  ASSUME ApiInv, AssignField, NEW f \in Fields, NEW s \in Feeds[f]
  PROVE  app[f][s].n \in Nat /\ app'[f][s].n \in Nat /\ app[f][s].n <= app'[f][s].n
<1> USE DEF ApiInv
<1>1. s \in Stores /\ app[f][s].n \in Nat /\ app[f][s].n <= value[s].n /\ value[s].n \in Nat
  BY FeedsOf, ValueTyped DEF ShownOrder, ApiTypes, Content, Inv
<1>2. CASE f # FieldOrder[at - 6]
  BY <1>1, <1>2, AssignShape
<1>3. CASE f = FieldOrder[at - 6] /\ f # "critical_routes"
  BY <1>1, <1>3, AssignShape
<1>4. CASE f = FieldOrder[at - 6] /\ f = "critical_routes"
  <2>1. app'[f] = routes /\ app'[f] \in [Feeds[f] -> Content] /\ Applying
    BY <1>4, AssignShape
  <2>2. ~Unbuilt
    BY <2>1, Names DEF Unbuilt, Applying, ApiTypes
  <2> QED
    BY <1>1, <1>4, <2>1, <2>2 DEF ShownOrder, Content
<1> QED
  BY <1>2, <1>3, <1>4

\* After it, what is shown is still ordered.
LEMMA AssignOrder ==
  ASSUME ApiInv, AssignField
  PROVE  /\ \A f \in Fields : \A s \in Feeds[f] : app'[f][s].n <= value[s].n
         /\ \A s \in Feeds["critical_routes"] :
              app'["critical_routes"][s].n <= routes[s].n /\ routes[s].n <= value[s].n
         /\ \A s \in Feeds["agents"] : app'["orchestrator"][s].n <= app'["agents"][s].n
         /\ app'["agents"]["reference"].n <= app'["reference"]["reference"].n
<1> DEFINE g == FieldOrder[at - 6]
<1> USE DEF ApiInv
<1>1. \A f \in Fields \ {g} : app'[f] = app[f]
  BY AssignShape
<1>2. /\ g \in Fields /\ at - 6 \in 1..8 /\ Applying /\ ~Unbuilt
      /\ g = "critical_routes" => app'[g] = routes
      /\ g # "critical_routes" => \A s \in Feeds[g] : app'[g][s] = value[s]
  BY AssignShape, Names DEF Unbuilt, Applying
<1>3. /\ \A s \in Stores : value[s].n \in Nat
      /\ routes \in [Feeds["critical_routes"] -> Content]
      /\ \A s \in Feeds["critical_routes"] : routes[s].n \in Nat
  BY <1>2, ValueTyped DEF Inv, RoutesKept, Content
<1>4. \A f \in Fields : \A s \in Feeds[f] : app'[f][s].n <= value[s].n
  <2> SUFFICES ASSUME NEW f \in Fields, NEW s \in Feeds[f] PROVE app'[f][s].n <= value[s].n
    OBVIOUS
  <2>1. s \in Stores
    BY FeedsOf
  <2>2. CASE f # g
    BY <1>1, <2>2 DEF ShownOrder
  <2>3. CASE f = g
    BY <1>2, <1>3, <2>1, <2>3 DEF ShownOrder
  <2> QED
    BY <2>2, <2>3
<1>5. \A s \in Feeds["critical_routes"] :
        app'["critical_routes"][s].n <= routes[s].n /\ routes[s].n <= value[s].n
  BY <1>1, <1>2, <1>3, Names DEF ShownOrder
<1>6. \A s \in Feeds["agents"] : app'["orchestrator"][s].n <= app'["agents"][s].n
  <2> SUFFICES ASSUME NEW s \in Feeds["agents"]
               PROVE  app'["orchestrator"][s].n <= app'["agents"][s].n
    OBVIOUS
  <2>1. CASE g = "agents"
    BY <1>1, <1>2, <2>1, Names, FeedsOf DEF ShownOrder
  <2>2. CASE g = "orchestrator"
    <3>1. at = 14
      BY <1>2, <2>2, PlaceOf
    <3>2. app["agents"][s] = value[s]
      BY <1>2, <3>1, Names, Order DEF Progress, Current
    <3> QED
      BY <1>1, <1>2, <1>3, <2>2, <3>2, Names, FeedsOf
  <2>3. CASE g \notin {"agents", "orchestrator"}
    BY <1>1, <2>3, Names DEF ShownOrder
  <2> QED
    BY <2>1, <2>2, <2>3
<1>7. app'["agents"]["reference"].n <= app'["reference"]["reference"].n
  <2>1. CASE g = "agents"
    <3>1. at = 13
      BY <1>2, <2>1, PlaceOf
    <3>2. app["reference"]["reference"] = value["reference"]
      BY <1>2, <3>1, Names, Order, FeedsOf DEF Progress, Current
    <3> QED
      BY <1>1, <1>2, <1>3, <2>1, <3>2, Names, FeedsOf
  <2>2. CASE g # "agents"
    <3>1. /\ app'["agents"] = app["agents"]
          /\ app["agents"]["reference"].n \in Nat
          /\ app["reference"]["reference"].n \in Nat
          /\ app'["reference"]["reference"].n \in Nat
          /\ app["reference"]["reference"].n <= app'["reference"]["reference"].n
      BY <1>1, <2>2, AssignAdvances, Names, FeedsOf
    <3> QED
      BY <3>1 DEF ShownOrder
  <2> QED
    BY <2>1, <2>2
<1> QED
  BY <1>4, <1>5, <1>6, <1>7

LEMMA AssignInv == ASSUME ApiInv, AssignField PROVE ApiInv'
<1> DEFINE f == FieldOrder[at - 6]
<1> USE DEF ApiInv
<1>1. /\ Applying /\ f \in Fields /\ at \in 7..14
      /\ UNCHANGED <<vars, value, routes, handler>>
      /\ op \in {"initialize", "refresh"}
  BY AssignShape, Names DEF AssignField, vars, Applying, ApiTypes
<1>2. Inv'
  BY <1>1 DEF vars, Inv, TypeOK, SnapshotOrder
<1>3. \A g \in Fields : app'[g] \in [Feeds[g] -> Content]
  BY AssignShape DEF ApiTypes
<1>4. \A g \in Fields \ {f} : app'[g] = app[g]
  BY AssignShape
<1>5. HandlerOrder'
  BY <1>1, AssignAdvances, HandlerSame, Names, FeedsOf
<1>6. ~Unbuilt
  BY <1>1, Names DEF Unbuilt
<1>7. CASE at < 14
  <2>1. /\ op' = op /\ at' = at + 1 /\ changed' = changed /\ missed' = missed
    BY <1>7, Names DEF AssignField
  <2>2. Applying' /\ ~Unbuilt'
    BY <1>1, <2>1, Names DEF Applying, Unbuilt
  <2>3. ApiTypes'
    <3>1. at' \in 1..LastField /\ op' \in {"initialize", "refresh"}
      BY <1>1, <1>7, <2>1, Names
    <3>2. app' = [g \in Fields |-> app'[g]]
      BY AssignShape
    <3> QED
      BY <1>3, <2>1, <3>1, <3>2 DEF ApiTypes
  <2>4. RoutesKept'
    BY <1>1, <1>6, <2>2 DEF RoutesKept, RoutesShown
  <2>5. ASSUME NEW i \in 1..(at' - FirstField)
        PROVE  IF FieldOrder[i] = "critical_routes"
               THEN app'["critical_routes"] = routes'
               ELSE \A s \in Feeds[FieldOrder[i]] : app'[FieldOrder[i]][s] = value'[s]
    <3>1. i \in 1..8 /\ (i = at - 6 \/ i \in 1..(at - FirstField))
      BY <1>1, <2>1, Names
    <3>2. CASE FieldOrder[i] = f
      BY <1>1, <3>2, AssignShape
    <3>3. CASE FieldOrder[i] # f
      <4>1. i \in 1..(at - FirstField) /\ app'[FieldOrder[i]] = app[FieldOrder[i]]
        BY <1>4, <3>1, <3>3, Order
      <4> QED
        BY <1>1, <4>1 DEF Progress, Current
    <3> QED
      BY <3>2, <3>3
  <2>6. \A s \in Feeds["critical_routes"] :
          routes'[s] = value'[s] \/ s \in missed'
    BY <1>1, <2>1 DEF Progress
  <2>r. ASSUME op = "refresh", NEW g \in Fields, NEW s \in Feeds[g]
        PROVE  app'[g][s] = value'[s] \/ s \in missed' \cup changed'
    <3>1. CASE g # f
      BY <1>1, <1>4, <2>1, <2>r, <3>1 DEF Progress, Current
    <3>2. CASE g = f
      BY <1>1, <2>1, <2>6, <3>2, AssignShape
    <3> QED
      BY <3>1, <3>2
  <2>7. Progress'
    BY <2>1, <2>2, <2>5, <2>6, <2>r, <1>1 DEF Progress, Current
  <2>8. ShownOrder'
    BY <1>1, <1>3, <2>2, AssignOrder DEF ShownOrder
  <2> QED
    BY <1>2, <1>5, <2>3, <2>4, <2>7, <2>8
<1>8. CASE at = 14
  <2>1. /\ op' = "idle" /\ at' = 1 /\ changed' = {}
        /\ missed' = {s \in missed \cap Feeds["critical_routes"] : routes[s] # value[s]}
        /\ f = "orchestrator"
    BY <1>8, Names, Order DEF AssignField, Begin
  <2>2. ~Applying' /\ ~Unbuilt'
    BY <2>1 DEF Applying, Unbuilt
  <2>3. ApiTypes'
    <3>1. missed' \subseteq Stores
      BY <2>1 DEF ApiTypes
    <3> QED
      BY <1>3, <2>1, <3>1, AssignShape, Names DEF ApiTypes
  <2>4. app'["critical_routes"] = routes'
    BY <1>1, <1>4, <1>8, <2>1, Names, Order DEF Progress
  <2>5. RoutesKept'
    BY <1>1, <1>6, <2>2, <2>4 DEF RoutesKept, RoutesShown
  <2>6. ASSUME NEW g \in Fields PROVE Current(g, missed)'
    <3>1. CASE g = "orchestrator"
      BY <1>1, <2>1, <3>1, AssignShape DEF Current
    <3>2. CASE g = "critical_routes"
      <4>1. \A s \in Feeds["critical_routes"] :
              routes[s] = value[s] \/ s \in missed
        BY <1>1 DEF Progress
      <4> QED
        BY <1>1, <2>1, <2>4, <3>2, <4>1, FeedsOf DEF Current
    <3>3. CASE g \notin {"orchestrator", "critical_routes"}
      <4>1. PICK i \in 1..7 : g = FieldOrder[i]
        BY <3>3, Names, Order
      <4>2. Current(g, {})
        BY <1>1, <1>8, <3>3, <4>1, Names DEF Progress
      <4>3. app'[g] = app[g]
        BY <1>4, <2>1, <3>3
      <4> QED
        BY <1>1, <4>2, <4>3 DEF Current
    <3> QED
      BY <3>1, <3>2, <3>3
  <2>7. Progress'
    BY <2>1, <2>2, <2>6 DEF Progress
  <2>8. ShownOrder'
    BY <1>1, <1>3, <2>2, AssignOrder DEF ShownOrder
  <2> QED
    BY <1>2, <1>5, <2>3, <2>5, <2>7, <2>8
<1> QED
  BY <1>1, <1>7, <1>8
-----------------------------------------------------------------------------
LEMMA ReadsOf ==
  ASSUME NEW e \in DOMAIN Reads
  PROVE  /\ Len(Reads[e]) \in Nat /\ e # "none"
         /\ \A i \in 1..Len(Reads[e]) : Reads[e][i] \in Fields
         /\ e \in {"route", "graph"} => \A i, j \in 1..Len(Reads[e]) :
              Reads[e][i] = "agents" /\ Reads[e][j] = "reference" => i < j
<1>1. CASE e = "route"
  <2>1. Reads[e] = <<"agents", "reference", "traffic_disruptions">>
    BY <1>1 DEF Reads
  <2> QED
    BY <1>1, <2>1, Names
<1>2. CASE e = "graph"
  <2>1. Reads[e] = <<"agents", "runtime", "reference", "derived">>
    BY <1>2 DEF Reads
  <2> QED
    BY <1>2, <2>1, Names
<1>3. CASE e = "assess"
  <2>1. Reads[e] = <<"reference", "agents", "agents", "agents">>
    BY <1>3 DEF Reads
  <2> QED
    BY <1>3, <2>1, Names
<1> QED
  BY <1>1, <1>2, <1>3 DEF Reads

\* The steps of the endpoint function.
LEMMA HandlerInv ==
  ASSUME ApiInv, UNCHANGED <<vars, controller, routes, app, missed>>,
         (\E e \in Endpoints : Dispatch(e)) \/ ReadField \/ Respond
  PROVE  ApiInv'
<1> USE DEF ApiInv
<1>1. UNCHANGED <<value, controller, routes, app, missed>>
  BY DEF vars
<1>2. Inv' /\ ApiTypes' /\ RoutesKept' /\ Progress' /\ ShownOrder'
  <2>1. Inv'
    BY DEF vars, Inv, TypeOK, SnapshotOrder
  <2> QED
    BY <1>1, <2>1, ControllerSame
<1>3. CASE \E e \in Endpoints : Dispatch(e)
  <2>1. PICK e \in DOMAIN Reads : handler' = [endpoint |-> e, seen |-> <<>>]
    BY <1>3, ApiControllerAssumption DEF Dispatch
  <2>2. Len(Reads[e]) \in Nat
    BY ReadsOf
  <2>3. HandlerOrder'
    BY <2>1, <2>2 DEF HandlerOrder, AgentsTrailReference, Running, ToRead
  <2> QED
    BY <1>2, <2>3
<1>4. CASE ReadField
  <2> DEFINE e == handler.endpoint
             n == Len(handler.seen)
             read == app[ToRead[n + 1]]
  <2>1. e \in DOMAIN Reads /\ ToRead = Reads[e] /\ n \in Nat /\ n < Len(ToRead)
    BY <1>4 DEF ReadField, Running, HandlerOrder, ToRead
  <2>2. ToRead[n + 1] \in Fields /\ n + 1 \in 1..Len(ToRead)
    BY <2>1, ReadsOf
  <2>3. /\ handler' = [endpoint |-> e, seen |-> Append(handler.seen, read)]
        /\ app' = app /\ ToRead' = ToRead
    BY <1>1, <1>4 DEF ReadField, HandlerOrder, ToRead
  <2>4. read \in Snapshot
    BY <2>2 DEF ApiTypes, Snapshot
  <2>5. /\ handler'.seen \in Seq(Snapshot) /\ Len(handler'.seen) = n + 1
        /\ handler'.seen[n + 1] = read
        /\ \A i \in 1..n : handler'.seen[i] = handler.seen[i]
    BY <2>1, <2>3, <2>4 DEF HandlerOrder
  <2>6. /\ app["agents"]["reference"].n \in Nat
        /\ app["reference"]["reference"].n \in Nat
        /\ app["agents"]["reference"].n <= app["reference"]["reference"].n
    BY Names, FeedsOf DEF ApiTypes, Content, ShownOrder
  <2>7. ASSUME NEW i \in 1..n + 1, ToRead[i] = "agents"
        PROVE  handler'.seen[i]["reference"].n \in 0..app["reference"]["reference"].n
    <3>1. CASE i = n + 1
      BY <2>3, <2>5, <2>6, <2>7, <3>1
    <3>2. CASE i # n + 1
      BY <2>1, <2>5, <2>7, <3>2 DEF HandlerOrder
    <3> QED
      BY <3>1, <3>2
  <2>8. ASSUME e \in {"route", "graph"},
               NEW i \in 1..n + 1, NEW j \in 1..n + 1,
               ToRead[i] = "agents", ToRead[j] = "reference"
        PROVE  handler'.seen[i]["reference"].n <= handler'.seen[j]["reference"].n
    <3>1. i < j
      BY <2>1, <2>8, ReadsOf
    <3>2. CASE j = n + 1
      <4>1. handler'.seen[j] = app["reference"]
        BY <2>5, <2>8, <3>2
      <4>2. handler'.seen[i]["reference"].n \in 0..app["reference"]["reference"].n
        BY <2>7, <2>8
      <4> QED
        BY <2>6, <4>1, <4>2
    <3>3. CASE j # n + 1
      BY <2>1, <2>5, <2>8, <3>1, <3>3 DEF HandlerOrder, AgentsTrailReference
    <3> QED
      BY <3>2, <3>3
  <2>9. HandlerOrder'
    <3>1. handler'.endpoint = e /\ handler'.seen = Append(handler.seen, read) /\ Running'
      BY <2>1, <2>3, ReadsOf DEF Running
    <3>2. Len(handler'.seen) <= Len(ToRead')
      BY <2>1, <2>2, <2>3, <2>5
    <3>3. \A i \in 1..Len(handler'.seen) : ToRead'[i] = "agents" =>
            handler'.seen[i]["reference"].n \in 0..app'["reference"]["reference"].n
      BY <2>3, <2>5, <2>7
    <3>4. AgentsTrailReference'
      BY <2>3, <2>5, <2>8, <3>1 DEF AgentsTrailReference
    <3>5. /\ handler'.endpoint \in DOMAIN Reads \cup {"none"}
          /\ handler' = [endpoint |-> handler'.endpoint, seen |-> handler'.seen]
      BY <2>1, <2>3, <3>1
    <3> QED
      BY <2>5, <3>1, <3>2, <3>3, <3>4, <3>5 DEF HandlerOrder
  <2> QED
    BY <1>2, <2>9
<1>5. CASE Respond
  <2>1. handler' = NoHandler
    BY <1>5 DEF Respond
  <2>2. HandlerOrder'
    BY <2>1 DEF HandlerOrder, AgentsTrailReference, Running, NoHandler
  <2> QED
    BY <1>2, <2>2
<1> QED
  BY <1>3, <1>4, <1>5
-----------------------------------------------------------------------------
\* The agents are built after the routes are assigned.
LEMMA AgentsRaiseInv == ASSUME ApiInv, AgentsRaise PROVE ApiInv'
<1> DEFINE i == at - 6
<1>1. /\ Raise /\ Applying /\ op \in {"initialize", "refresh"}
      /\ i \in 1..8 /\ FieldOrder[i] = "agents"
  BY Names DEF AgentsRaise, AtField, AgentsFail, Field, FieldAt, Raise, Applying,
               ApiInv, ApiTypes
<1> HIDE DEF i
<1>2. i = 7
  BY <1>1, PlaceOf
<1>3. CASE op = "initialize"
  BY <1>1, <1>3, DownInv DEF Raise
<1>4. CASE op = "refresh"
  <2>1. RoutesShown
    BY <1>1, <1>2, Names, Order DEF ApiInv, Progress, RoutesShown, i
  <2>2. UNCHANGED <<vars, routes, app, handler>>
    BY <1>1, <1>4 DEF Raise
  <2> QED
    BY <1>1, <1>4, <2>1, <2>2, OperationInv
<1> QED
  BY <1>1, <1>3, <1>4

LEMMA StepInv == ASSUME ApiInv, ApiNext PROVE ApiInv'
<1> USE DEF ApiInv
<1>1. ASSUME NEW s \in Stores, Environment(s) PROVE ApiInv'
  <2>1. Inv' /\ UNCHANGED <<value, controller, routes, app, missed, handler>>
    BY <1>1, FilesInv DEF Environment, Publish, Withdraw, Restore, snapshots
  <2> QED
    BY <2>1, EnvironmentInv
<1>2. CASE Start \/ BeginRefresh \/ NothingChanged \/ KeepRoutes \/ RefreshUnchanged
  <2>1. UNCHANGED <<vars, routes, app, handler>>
    BY <1>2 DEF Start, BeginRefresh, NothingChanged, KeepRoutes, RefreshUnchanged, Return
  <2> QED
    BY <1>2, <2>1, OperationInv
<1>3. CASE Crash
  BY <1>3, DownInv DEF Crash
<1>4. CASE RefreshMissing \/ RefreshLoadValid \/ RefreshLoadFails
  BY <1>4, ReturnInv
<1>5. CASE RefreshStat
  <2>1. at \in 1..5
    BY <1>5, Names DEF RefreshStat, AtStore, ApiTypes
  <2>2. Inv'
    BY <1>5, <2>1, StoreIn, StatInv DEF RefreshStat, Forced
  <2>3. UNCHANGED <<value, controller, routes, app, missed, handler>>
    BY <1>5 DEF RefreshStat, StatChanged
  <2> QED
    BY <2>2, <2>3, EnvironmentInv
<1>6. CASE RefreshStatRaises \/ BuildRaises
  <2>1. Raise /\ op \in {"initialize", "refresh"} /\ ~Applying
    BY <1>6, Names DEF RefreshStatRaises, BuildRaises, AtStore, AtApply, ApiTypes, Applying, Raise
  <2>2. CASE op = "initialize"
    BY <2>1, <2>2, DownInv DEF Raise
  <2>3. CASE op = "refresh"
    <3>1. UNCHANGED <<vars, routes, app, handler>>
      BY <2>1, <2>3 DEF Raise
    <3>2. RoutesShown
      BY <2>1, <2>3 DEF RoutesKept, RoutesShown, Unbuilt
    <3> QED
      BY <2>1, <2>3, <3>1, <3>2, OperationInv
  <2> QED
    BY <2>1, <2>2, <2>3
<1>7. CASE BuildRoutes
  BY <1>7, BuildInv
<1>8. CASE AssignField
  BY <1>8, AssignInv
<1>a. CASE AgentsRaise
  BY <1>a, AgentsRaiseInv
<1>9. CASE (\E e \in Endpoints : Dispatch(e)) \/ ReadField \/ Respond
  <2>1. UNCHANGED <<vars, controller, routes, app, missed>>
    BY <1>9 DEF Dispatch, ReadField, Respond
  <2> QED
    BY <1>9, <2>1, HandlerInv
<1> QED
  BY <1>1, <1>2, <1>3, <1>4, <1>5, <1>6, <1>7, <1>8, <1>9, <1>a DEF ApiNext, ControllerStep

LEMMA StutterInv == ASSUME ApiInv, UNCHANGED apiVars PROVE ApiInv'
<1>1. UNCHANGED <<value, controller, routes, app, missed, handler>>
  BY DEF apiVars, vars, controller
<1>2. Inv'
  BY DEF apiVars, vars, ApiInv, Inv, TypeOK, SnapshotOrder
<1> QED
  BY <1>1, <1>2, EnvironmentInv

(***************************************************************************)
(* Everything the proofs know of the reachable states: types, how far an   *)
(* operation of the controller has brought the fields of app.state, and in *)
(* which order what is shown, kept, loaded and published may lag.          *)
(***************************************************************************)
THEOREM ApiInvariance == ApiSpec => []ApiInv
<1>1. ApiInv /\ [ApiNext]_apiVars => ApiInv'
  BY StepInv, StutterInv
<1> QED
  BY InitApi, <1>1, PTL DEF ApiSpec

(***************************************************************************)
(* Between operations every field shows what is loaded, but for changes    *)
(* that were reported to an operation that raised: before any assignment,  *)
(* or with all fields before the agents assigned.                          *)
(***************************************************************************)
THEOREM OnlyMissedIsHidden == ApiSpec => []ServedUnlessMissed
<1>1. ApiInv => ServedUnlessMissed
  BY DEF ApiInv, Progress, Current, ServedUnlessMissed
<1> QED
  BY ApiInvariance, <1>1, PTL

(***************************************************************************)
(* A route or graph request never combines agents with a reference state   *)
(* that is older than theirs, whatever refreshes run meanwhile.            *)
(***************************************************************************)
THEOREM AgentsNotAhead == ApiSpec => []AgentsTrailReference
<1>1. ApiInv => AgentsTrailReference
  BY DEF ApiInv, HandlerOrder
<1> QED
  BY ApiInvariance, <1>1, PTL

(***************************************************************************)
(* No step of a running process makes a field of app.state older.          *)
(***************************************************************************)
THEOREM NothingGoesBack == ApiSpec => NoFieldGoesBack
<1> DEFINE Kept == op # "down" /\ op' # "down" =>
             \A f \in Fields : \A s \in Feeds[f] : app[f][s].n <= app'[f][s].n
<1>1. ASSUME ApiInv, app' = app PROVE Kept
  BY <1>1, Names DEF ApiInv, ApiTypes, Content
<1>2. ASSUME ApiInv, ApiNext PROVE Kept
  <2>1. CASE AssignField
    BY <1>2, <2>1, AssignAdvances
  <2>2. CASE ToDown
    BY <2>2 DEF ToDown, Begin
  <2>3. CASE ~AssignField /\ ~ToDown
    <3>1. app' = app
      BY <1>2, <2>3 DEF ApiNext, Environment, Start, Crash, ControllerStep, BeginRefresh,
         RefreshUnchanged, RefreshMissing, RefreshStat, RefreshLoadValid, RefreshLoadFails,
         RefreshStatRaises, NothingChanged, BuildRoutes, KeepRoutes, BuildRaises,
         AgentsRaise, Raise, Return, Dispatch, ReadField, Respond
    <3> QED
      BY <1>1, <1>2, <3>1
  <2> QED
    BY <2>1, <2>2, <2>3
<1>3. ApiInv /\ [ApiNext]_apiVars => [Kept]_apiVars
  BY <1>2
<1> QED
  BY ApiInvariance, <1>3, PTL DEF ApiSpec, NoFieldGoesBack
-----------------------------------------------------------------------------
\* Between stat and load stands only the store that the operation is at.
LoadingIsCurrent == \A s \in Stores : loading[s] => AtStore /\ s = Store

LoadInvariant == ApiInv /\ LoadingIsCurrent

LEMMA StepLoading == ASSUME LoadInvariant, [ApiNext]_apiVars PROVE LoadingIsCurrent'
<1> USE DEF LoadInvariant
<1>0. \A s \in Stores : loading[s] \in BOOLEAN
  BY DEF ApiInv, Inv, TypeOK
<1>1. CASE UNCHANGED <<loading, op, at>>
  BY <1>1 DEF LoadingIsCurrent, AtStore, Store
<1>2. CASE ToDown
  BY <1>2 DEF ToDown, LoadingIsCurrent
<1>3. ASSUME \A s \in Stores : ~loading[s], UNCHANGED loading
      PROVE  LoadingIsCurrent'
  BY <1>3 DEF LoadingIsCurrent
<1>4. CASE RefreshStat
  <2>1. loading' = [loading EXCEPT ![Store] = TRUE] /\ op' = op /\ at' = at /\ AtStore
    BY <1>4 DEF RefreshStat, StatChanged, controller
  <2> QED
    BY <1>0, <2>1 DEF LoadingIsCurrent, AtStore, Store, ApiInv, Inv, TypeOK
<1>5. CASE RefreshLoadValid \/ RefreshLoadFails
  <2>1. loading' = [loading EXCEPT ![Store] = FALSE]
    BY <1>5 DEF RefreshLoadValid, RefreshLoadFails, LoadValid, LoadRaises,
                LoadFindsNone, Diagnose
  <2>2. \A s \in Stores : ~loading'[s]
    BY <1>0, <2>1 DEF LoadingIsCurrent, ApiInv, Inv, TypeOK
  <2> QED
    BY <2>2 DEF LoadingIsCurrent
<1>6. CASE RefreshUnchanged \/ RefreshMissing \/ RefreshStatRaises
  <2>1. ~loading[Store]
    BY <1>6 DEF RefreshUnchanged, RefreshMissing, RefreshStatRaises, EarlyReturn, StatMissing
  <2>2. \A s \in Stores : ~loading[s]
    BY <2>1 DEF LoadingIsCurrent
  <2>3. UNCHANGED loading \/ ToDown
    BY <1>6 DEF RefreshUnchanged, RefreshMissing, RefreshStatRaises, StatMissing, Raise, vars
  <2> QED
    BY <1>2, <1>3, <2>2, <2>3
<1>7. CASE Start \/ BeginRefresh \/ NothingChanged \/ BuildRoutes \/ KeepRoutes
             \/ BuildRaises \/ AssignField \/ AgentsRaise
  <2>1. ~AtStore
    BY <1>7, Names DEF Start, BeginRefresh, NothingChanged, BuildRoutes, KeepRoutes,
       BuildRaises, AssignField, AgentsRaise, AtField, AtApply, AtStore, ApiInv, ApiTypes
  <2>2. \A s \in Stores : ~loading[s]
    BY <2>1 DEF LoadingIsCurrent
  <2>3. UNCHANGED loading \/ ToDown
    BY <1>7 DEF Start, BeginRefresh, NothingChanged, BuildRoutes, KeepRoutes,
       BuildRaises, AssignField, AgentsRaise, Raise, vars
  <2> QED
    BY <1>2, <1>3, <2>2, <2>3
<1>8. CASE (\E s \in Stores : Environment(s)) \/ (\E e \in Endpoints : Dispatch(e))
             \/ ReadField \/ Respond \/ UNCHANGED apiVars
  BY <1>1, <1>8 DEF Environment, Publish, Withdraw, Restore, snapshots, controller,
     Dispatch, ReadField, Respond, apiVars, vars
<1> QED
  BY <1>2, <1>4, <1>5, <1>6, <1>7, <1>8 DEF ApiNext, ControllerStep, Crash

(***************************************************************************)
(* What is between operations served of a store whose diagnostic is        *)
(* current for the file's signature is that very file, unless an operation *)
(* that had seen a change raised: the safety half of Converges.            *)
(***************************************************************************)
CurrentIsServed ==
  op = "idle" /\ missed = {} =>
    \A f \in Fields : \A s \in Feeds[f] :
      \/ app[f][s] = published[s]
      \/ published[s] # Nothing /\ ~(status[s] = "current" /\ signature[s] = published[s].n)

THEOREM CurrentFilesServed == ApiSpec => []CurrentIsServed
<1>1. ApiInit => LoadInvariant
  BY InitApi DEF ApiInit, Init, FreshSnapshots, LoadInvariant, LoadingIsCurrent
<1>2. LoadInvariant /\ [ApiNext]_apiVars => LoadInvariant'
  BY StepLoading, StepInv, StutterInv DEF LoadInvariant
<1>3. ASSUME LoadInvariant, op = "idle", missed = {},
             NEW f \in Fields, NEW s \in Feeds[f]
      PROVE  \/ app[f][s] = published[s]
             \/ published[s] # Nothing
                /\ ~(status[s] = "current" /\ signature[s] = published[s].n)
  <2>1. s \in Stores /\ ApiInv /\ Inv /\ SnapshotOrder(s)
    BY <1>3, FeedsOf DEF LoadInvariant, ApiInv, Inv
  <2>2. app[f][s] = value[s]
    BY <1>3, <2>1 DEF ApiInv, Progress, Current
  <2>3. ~loading[s]
    BY <1>3, <2>1 DEF LoadInvariant, LoadingIsCurrent, AtStore
  <2>4. /\ value[s].n \in Nat /\ published[s].n \in Nat /\ signature[s] \in Nat
        /\ value[s] = Nothing \/ value[s].n > 0
    BY <2>1 DEF Inv, TypeOK, Publication, Nothing
  <2>5. CASE published[s] = Nothing
    BY <2>1, <2>2, <2>4, <2>5 DEF SnapshotOrder, Nothing
  <2>6. CASE status[s] = "current" /\ signature[s] = published[s].n
    BY <2>1, <2>2, <2>3, <2>4, <2>6 DEF SnapshotOrder
  <2> QED
    BY <2>5, <2>6
<1>4. LoadInvariant => CurrentIsServed
  BY <1>3 DEF CurrentIsServed
<1> QED
  BY <1>1, <1>2, <1>4, PTL DEF ApiSpec
-----------------------------------------------------------------------------
(***************************************************************************)
(* The controller, whose first refreshes are forced and whose operations   *)
(* may raise anywhere, still implements LastKnownGood as long as its       *)
(* process runs: only its end empties what a store holds.                  *)
(***************************************************************************)
ServesLastKnownGood ==
  /\ Served!Init
  /\ [][op = "down" \/ op' # "down" => [Served!Next]_(Served!vars)]_apiVars

THEOREM ControllerRefines == ApiSpec => ServesLastKnownGood
<1>1. ASSUME ApiInv, [ApiNext]_apiVars, op = "down" \/ op' # "down"
      PROVE  [Served!Next]_(Served!vars)
  <2>1. ASSUME [Next]_vars PROVE [Served!Next]_(Served!vars)
    BY <1>1, <2>1, NextRefines DEF ApiInv
  <2>2. CASE \E s \in Stores : Environment(s)
    BY <2>1, <2>2 DEF Environment, Next
  <2>3. CASE RefreshLoadValid \/ RefreshLoadFails
    <3>1. AtStore
      BY <2>3 DEF RefreshLoadValid, RefreshLoadFails
    <3>2. at \in 1..5
      BY <1>1, <3>1, Names DEF AtStore, ApiInv, ApiTypes
    <3>3. Store \in Stores
      BY <3>2, StoreIn
    <3> QED
      BY <2>1, <2>3, <3>3 DEF RefreshLoadValid, RefreshLoadFails, Next, Refresh
  <2>4. CASE RefreshMissing \/ RefreshStat
    BY <2>4 DEF RefreshMissing, RefreshStat, StatMissing, StatChanged, files, Served!vars
  <2>5. CASE UNCHANGED vars
    BY <2>1, <2>5
  <2>6. ~ToDown \/ op = "down"
    BY <1>1 DEF ToDown, Begin
  <2> QED
    BY <1>1, <2>2, <2>3, <2>4, <2>5, <2>6
       DEF ApiNext, ControllerStep, Start, Crash, BeginRefresh, RefreshUnchanged,
           RefreshStatRaises, NothingChanged, BuildRoutes, KeepRoutes, BuildRaises,
           AssignField, AgentsRaise, AtStore, AtApply, Raise, Dispatch, ReadField,
           Respond, apiVars
<1>2. ApiInit => Served!Init
  BY InitRefines DEF ApiInit
<1>3. ApiInv /\ [ApiNext]_apiVars =>
        [op = "down" \/ op' # "down" => [Served!Next]_(Served!vars)]_apiVars
  BY <1>1
<1> QED
  BY ApiInvariance, <1>2, <1>3, PTL DEF ApiSpec, ServesLastKnownGood
-----------------------------------------------------------------------------
\* How many steps an operation has left at most: two for a store, its stat
\* and its load, and one for the build and for each assignment of _apply.
Left ==
  CASE op \in {"down", "idle"} -> 0
    [] AtStore -> 2 * (ApplyStep - at) - (IF loading[Store] THEN 1 ELSE 0)
                    + (LastField + 1 - ApplyStep)
    [] OTHER -> LastField + 1 - at

LeftIs ==
  /\ op \in {"down", "idle"} => Left = 0
  /\ op \in {"initialize", "refresh"} /\ at < 6 =>
       Left = 21 - 2 * at - (IF loading[StoreOrder[at]] THEN 1 ELSE 0)
  /\ op \in {"initialize", "refresh"} /\ at >= 6 => Left = 15 - at
  /\ at \in 1..14 /\ op \in {"down", "initialize", "idle", "refresh"}

LEMMA LeftFacts == (ApiInv => LeftIs) /\ (ApiInv' => LeftIs')
<1>1. ApiInv => LeftIs
  BY Names DEF LeftIs, Left, AtStore, Store, ApiInv, ApiTypes
<1>2. ApiInv' => LeftIs'
  BY Names DEF LeftIs, Left, AtStore, Store, ApiInv, ApiTypes
<1> QED
  BY <1>1, <1>2

(***************************************************************************)
(* An operation comes to its end whatever files do under it and endpoints  *)
(* beside it: each of its steps leaves fewer to do, and no other step adds *)
(* any.                                                                    *)
(***************************************************************************)
OperationShrinks ==
  [][/\ ControllerStep /\ ~BeginRefresh => Left' < Left
     /\ ~Start /\ ~BeginRefresh => Left' <= Left]_apiVars

THEOREM OperationsEnd == ApiSpec => OperationShrinks
<1>0. ASSUME ApiInv, ApiInv'
      PROVE  LeftIs /\ LeftIs' /\ Left \in Nat /\ Left' \in Nat
  <2>1. LeftIs /\ LeftIs'
    BY <1>0, LeftFacts
  <2> QED
    BY <2>1 DEF LeftIs
<1>1. ASSUME ApiInv, ApiInv', ControllerStep, ~BeginRefresh
      PROVE  Left' < Left
  <2>1. op \in {"initialize", "refresh"}
    <3>1. CASE AtStore \/ NothingChanged
      BY <3>1 DEF AtStore, NothingChanged
    <3>2. CASE at >= 6
      BY <1>1, <3>2 DEF ApiInv, ApiTypes
    <3>3. CASE AssignField \/ AgentsRaise
      <4>1. at >= 7
        BY <3>3, Names DEF AssignField, AgentsRaise, AtField
      <4> QED
        BY <1>1, <3>2, <4>1 DEF ApiInv, ApiTypes
    <3>4. CASE BuildRoutes \/ KeepRoutes \/ BuildRaises
      <4>1. at = 6
        BY <3>4, Names DEF BuildRoutes, KeepRoutes, BuildRaises, AtApply
      <4> QED
        BY <3>2, <4>1
    <3> QED
      BY <1>1, <3>1, <3>3, <3>4 DEF ControllerStep, RefreshUnchanged, RefreshMissing,
         RefreshStat, RefreshLoadValid, RefreshLoadFails, RefreshStatRaises
  <2>2. CASE op' \in {"down", "idle"}
    <3>1. Left' = 0 /\ Left > 0
      BY <1>0, <1>1, <2>1, <2>2 DEF LeftIs
    <3> QED
      BY <3>1
  <2>3. CASE op' = op /\ at' = at + 1
    BY <1>0, <1>1, <2>1, <2>3 DEF LeftIs
  <2>4. CASE RefreshStat
    <3>1. /\ op' = op /\ at' = at /\ at < 6 /\ StoreOrder[at] \in Stores
          /\ ~loading[StoreOrder[at]] /\ loading'[StoreOrder[at]]
      BY <1>1, <2>4, StoreIn, Names DEF RefreshStat, StatChanged, controller, AtStore,
         Store, ApiInv, ApiTypes, Inv, TypeOK
    <3> QED
      BY <1>0, <1>1, <2>1, <3>1 DEF LeftIs
  <2>5. CASE RefreshStatRaises \/ BuildRaises \/ AgentsRaise
    <3>1. op' \in {"down", "idle"}
      BY <2>5 DEF RefreshStatRaises, BuildRaises, AgentsRaise, Raise, ToDown, Begin
    <3> QED
      BY <2>2, <3>1
  <2>6. CASE AssignField
    <3>1. op' = "idle" \/ (op' = op /\ at' = at + 1)
      BY <2>6 DEF AssignField, Begin
    <3> QED
      BY <2>2, <2>3, <3>1
  <2>7. CASE NothingChanged
    BY <2>2, <2>7 DEF NothingChanged, Begin
  <2>8. CASE \/ RefreshUnchanged \/ RefreshMissing \/ RefreshLoadValid
             \/ RefreshLoadFails \/ BuildRoutes \/ KeepRoutes
    <3>1. op' = op /\ at' = at + 1
      BY <2>8, Names DEF RefreshUnchanged, RefreshMissing, RefreshLoadValid,
         RefreshLoadFails, BuildRoutes, KeepRoutes, AtApply, Return
    <3> QED
      BY <2>3, <3>1
  <2> QED
    BY <1>1, <2>4, <2>5, <2>6, <2>7, <2>8 DEF ControllerStep
<1>2. ASSUME ApiInv, ApiInv', [ApiNext]_apiVars, ~Start, ~BeginRefresh
      PROVE  Left' <= Left
  <2>1. Left \in Nat /\ Left' \in Nat /\ LeftIs'
    BY <1>0, <1>2
  <2>2. CASE ControllerStep
    BY <1>1, <1>2, <2>1, <2>2
  <2>3. CASE ToDown
    <3>1. Left' = 0
      BY <2>1, <2>3 DEF ToDown, Begin, LeftIs
    <3> QED
      BY <2>1, <3>1
  <2>4. CASE UNCHANGED <<op, at, loading>>
    <3>1. Left' = Left
      BY <2>4 DEF Left, AtStore, Store
    <3> QED
      BY <2>1, <3>1
  <2> QED
    BY <1>2, <2>2, <2>3, <2>4 DEF ApiNext, Environment, Publish, Withdraw, Restore,
       snapshots, controller, Crash, Dispatch, ReadField, Respond, apiVars, vars
<1>3. ApiInv /\ ApiInv' /\ [ApiNext]_apiVars =>
        [/\ ControllerStep /\ ~BeginRefresh => Left' < Left
         /\ ~Start /\ ~BeginRefresh => Left' <= Left]_apiVars
  BY <1>1, <1>2
<1> QED
  BY ApiInvariance, <1>3, PTL DEF ApiSpec, OperationShrinks
=============================================================================
