-------------------------- MODULE DashboardProofs ---------------------------
(***************************************************************************)
(* Proofs about Dashboard, for any viewports, snapshots, limit of a layer  *)
(* and numbers of requests under way and of failures.                      *)
(***************************************************************************)
EXTENDS Dashboard, TLAPS, FiniteSetTheorems, WellFoundedInduction

TypeOK ==
  /\ version \in 0..MaxVersion
  /\ view \in Views
  /\ maps \in [MapSlots -> Requests \cup {None}]

\* A map is loaded when the data are there, and forgotten with its App.
OnlyWhenReady ==
  load.state # "ready" => map = None /\ \A s \in MapSlots : maps[s] = None

\* The request that counts is one for the current viewport.
LatestIsOfView ==
  \A s \in MapSlots : maps[s] # None /\ maps[s].latest => maps[s].view = view

\* What is shown was answered for a viewport by a version that was served.
MapAnswered == map # None => map.view \in Views /\ map.version \in 0..MaxVersion

Inv == TypeOK /\ OnlyWhenReady /\ LatestIsOfView /\ MapAnswered /\ MapOfView
-----------------------------------------------------------------------------
LEMMA InitInv == Init => Inv
BY DashboardAssumption
   DEF Init, Inv, TypeOK, OnlyWhenReady, LatestIsOfView, MapAnswered, MapOfView,
       Loading

\* A request that begins is the only one that counts, and it is awaited.
LEMMA BeginInv ==
  ASSUME Inv, NEW s \in MapSlots, NEW v \in Views, Begin(s, v), view' = v,
         load'.state = "ready", UNCHANGED <<version, map>>
  PROVE  Inv'
<1> DEFINE new == [view |-> v, latest |-> TRUE, answer |-> None]
<1>1. maps' = [u \in MapSlots |->
                 IF u = s THEN new
                 ELSE IF maps[u] = None THEN None ELSE [maps[u] EXCEPT !.latest = FALSE]]
  BY DEF Begin
<1>2. new \in Requests /\ new # None
  <2>1. new \in Requests
    BY DEF Requests
  <2>2. None \notin Requests
    BY DashboardAssumption
  <2> HIDE DEF new
  <2> QED
    BY <2>1, <2>2
<1>3. ASSUME NEW u \in MapSlots, maps[u] # None
      PROVE  [maps[u] EXCEPT !.latest = FALSE] \in Requests
  BY <1>3 DEF Inv, TypeOK, Requests
<1>4. TypeOK'
  <2> HIDE DEF new
  <2> QED
    BY <1>1, <1>2, <1>3 DEF Inv, TypeOK
<1>5. LatestIsOfView'
  <2> SUFFICES ASSUME NEW u \in MapSlots, maps'[u] # None, maps'[u].latest
               PROVE  maps'[u].view = view'
    BY DEF LatestIsOfView
  <2>1. CASE u = s
    BY <1>1, <2>1
  <2>2. CASE u # s
    BY <1>1, <2>2 DEF Inv, TypeOK, Requests
  <2> QED
    BY <2>1, <2>2
<1>6. Awaited'
  BY <1>1, <1>2 DEF Awaited
<1> QED
  BY <1>4, <1>5, <1>6 DEF Inv, OnlyWhenReady, MapAnswered, MapOfView

\* A request leaves its slot: if it counted, the map is its answer or none.
LEMMA AnswerInv ==
  ASSUME Inv, NEW s \in MapSlots, maps[s] # None,
         maps' = [maps EXCEPT ![s] = None],
         UNCHANGED <<version, load, view>>,
         \/ /\ IsCurrent(maps[s])
            /\ map' = None \/ (map'.view = maps[s].view /\ map'.version \in 0..MaxVersion)
         \/ ~IsCurrent(maps[s]) /\ map' = map
  PROVE  Inv'
<1>1. load.state = "ready"
  BY DEF Inv, OnlyWhenReady
<1>2. TypeOK' /\ OnlyWhenReady' /\ LatestIsOfView'
  BY <1>1 DEF Inv, TypeOK, OnlyWhenReady, LatestIsOfView
<1>3. CASE IsCurrent(maps[s])
  <2>1. maps[s].view = view
    BY <1>3 DEF Inv, LatestIsOfView, IsCurrent
  <2>2. MapAnswered'
    BY <1>3, <2>1 DEF Inv, TypeOK, MapAnswered
  <2> QED
    BY <1>2, <1>3, <2>1, <2>2 DEF Inv, MapOfView
<1>4. CASE ~IsCurrent(maps[s])
  <2>1. Awaited' <=> Awaited
    BY <1>4 DEF Inv, TypeOK, Awaited, IsCurrent
  <2> QED
    BY <1>2, <1>4, <2>1 DEF Inv, MapAnswered, MapOfView
<1> QED
  BY <1>3, <1>4

LEMMA MountInv ==
  ASSUME Inv, Mount, version' = version
  PROVE  Inv'
BY DashboardAssumption
   DEF Mount, Loading, Inv, TypeOK, OnlyWhenReady, LatestIsOfView, MapAnswered,
       MapOfView

\* Steps that leave the map and its requests alone, in the same state or in
\* one in which there is no map.
LEMMA ApartInv ==
  ASSUME Inv, version' \in 0..MaxVersion, UNCHANGED <<view, maps, map>>,
         load'.state = load.state \/ load.state # "ready"
  PROVE  Inv'
BY DEF Inv, TypeOK, OnlyWhenReady, LatestIsOfView, MapAnswered, MapOfView, Awaited

\* An API thread answers a viewport request.
LEMMA HandleMapInv ==
  ASSUME Inv, NEW s \in MapSlots, HandleMap(s)
  PROVE  Inv'
<1>1. /\ maps[s] \in Requests /\ maps[s] # None
      /\ maps' = [maps EXCEPT ![s].answer = version]
      /\ UNCHANGED <<version, load, view, map>>
  BY DEF HandleMap, Inv, TypeOK
<1>2. /\ maps'[s] \in Requests
      /\ maps'[s].view = maps[s].view /\ maps'[s].latest = maps[s].latest
  BY <1>1 DEF Inv, TypeOK, Requests
<1>3. maps'[s] # None
  BY <1>2, DashboardAssumption
<1>4. \A u \in MapSlots \ {s} : maps'[u] = maps[u]
  BY <1>1 DEF Inv, TypeOK
<1>5. TypeOK'
  BY <1>1, <1>2 DEF Inv, TypeOK
<1>6. OnlyWhenReady' /\ LatestIsOfView'
  BY <1>1, <1>2, <1>4 DEF Inv, OnlyWhenReady, LatestIsOfView
<1>7. Awaited => Awaited'
  BY <1>1, <1>2, <1>3, <1>4 DEF Awaited
<1> QED
  BY <1>1, <1>5, <1>6, <1>7 DEF Inv, MapAnswered, MapOfView

LEMMA NextInv == Inv /\ [Next]_vars => Inv'
<1> SUFFICES ASSUME Inv, [Next]_vars PROVE Inv'
  OBVIOUS
<1>1. CASE Replace
  BY <1>1, ApartInv, DashboardAssumption DEF Replace, Inv, TypeOK
<1>2. ASSUME NEW s \in PollSlots, SendPoll(s) \/ HandlePoll(s) \/ PollFails(s)
      PROVE  Inv'
  BY <1>2, ApartInv DEF SendPoll, HandlePoll, PollFails, Inv, TypeOK
<1>3. ASSUME NEW s \in PollSlots, WatchToken(s)
      PROVE  Inv'
  BY <1>3, MountInv, ApartInv DEF WatchToken, Inv, TypeOK
<1>4. ASSUME NEW p \in Parts, HandlePart(p)
      PROVE  Inv'
  BY <1>4, ApartInv DEF HandlePart, Inv, TypeOK
<1>5. CASE Loaded
  <2>1. PICK s \in MapSlots : Begin(s, view)
    BY <1>5 DEF Loaded
  <2>2. load'.state = "ready" /\ UNCHANGED <<version, view, map>>
    BY <1>5 DEF Loaded
  <2> QED
    BY <2>1, <2>2, BeginInv DEF Inv, TypeOK
<1>6. CASE LoadFails
  BY <1>6, ApartInv DEF LoadFails, Inv, TypeOK
<1>7. ASSUME NEW v \in Views, Move(v)
      PROVE  Inv'
  <2>1. CASE load.state = "ready"
    BY <1>7, <2>1, BeginInv DEF Move
  <2>2. CASE load.state # "ready"
    BY <1>7, <2>2
       DEF Move, Inv, TypeOK, OnlyWhenReady, LatestIsOfView, MapAnswered,
           MapOfView
  <2> QED
    BY <2>1, <2>2
<1>8. ASSUME NEW s \in MapSlots, HandleMap(s)
      PROVE  Inv'
  BY <1>8, HandleMapInv
<1>9. ASSUME NEW s \in MapSlots, ShowMap(s)
      PROVE  Inv'
  <2>1. maps[s] # None /\ maps[s].answer \in 0..MaxVersion
    BY <1>9 DEF ShowMap, Inv, TypeOK, Requests
  <2> QED
    BY <1>9, <2>1, AnswerInv DEF ShowMap
<1>10. ASSUME NEW s \in MapSlots, MapFails(s)
       PROVE  Inv'
  BY <1>10, AnswerInv DEF MapFails
<1>11. CASE UNCHANGED vars
  BY <1>11, ApartInv DEF vars, Inv, TypeOK
<1> QED
  BY <1>1, <1>2, <1>3, <1>4, <1>5, <1>6, <1>7, <1>8, <1>9, <1>10, <1>11 DEF Next

(***************************************************************************)
(* frontend/src/App.tsx with the tracker of mapReference.ts: unless the    *)
(* answer for the current viewport is under way, a map that shows objects  *)
(* shows those of the current viewport.                                    *)
(***************************************************************************)
THEOREM MapIsOfView == Spec => []MapOfView
<1>1. Inv => MapOfView
  BY DEF Inv
<1> QED
  BY <1>1, InitInv, NextInv, PTL DEF Spec
-----------------------------------------------------------------------------
\* What is shown and what is watched.  Answers are versions that were served.
Seen == 0..version \cup {None}

WatchedOK ==
  /\ token \in Seen
  /\ polls \in [PollSlots -> [answer : Seen] \cup {None}]
  /\ load \in [state : {"loading", "ready", "error"}, parts : [Parts -> Seen]]
  /\ load.state = "ready" => \A p \in Parts : load.parts[p] # None

\* A viewport request is sent when the load is ready.
RequestsFollowLoad ==
  \A s \in MapSlots : maps[s] # None /\ maps[s].answer # None =>
    /\ maps[s].answer <= version
    /\ \A p \in Parts : load.parts[p] <= maps[s].answer

MapFollowsLoad ==
  map # None => map.version <= version /\ \A p \in Parts : load.parts[p] <= map.version

\* The request that counts was sent after the map was answered.
LatestIsNewer ==
  \A s \in MapSlots : maps[s] # None /\ maps[s].latest =>
    /\ \A u \in MapSlots : maps[u] # None /\ maps[u].latest => u = s
    /\ map # None /\ maps[s].answer # None => map.version <= maps[s].answer

OrderInv ==
  /\ Inv
  /\ WatchedOK /\ RequestsFollowLoad /\ MapFollowsLoad /\ LatestIsNewer
  /\ AsNewAsToken

LEMMA InitOrder == Init => OrderInv
BY InitInv, DashboardAssumption
   DEF Init, OrderInv, WatchedOK, Seen, RequestsFollowLoad, MapFollowsLoad,
       LatestIsNewer, AsNewAsToken, Loading

\* When it is ready, what was loaded is all versions.
LEMMA ReadyParts ==
  ASSUME OrderInv, load.state = "ready"
  PROVE  \A p \in Parts : load.parts[p] \in 0..version
BY DEF OrderInv, WatchedOK, Seen

LEMMA VersionsAre ==
  ASSUME OrderInv
  PROVE  /\ version \in Nat /\ version \in 0..MaxVersion
         /\ None \notin 0..version
BY DashboardAssumption DEF OrderInv, Inv, TypeOK

\* A map that is shown, and a request for one, imply that the load is ready.
LEMMA ReadyIfShown ==
  ASSUME OrderInv, map # None \/ \E s \in MapSlots : maps[s] # None
  PROVE  load.state = "ready"
BY DEF OrderInv, Inv, OnlyWhenReady

\* Another version is served: what was answered stays as it is.
LEMMA ReplaceOrder ==
  ASSUME OrderInv, Inv', Replace
  PROVE  OrderInv'
<1>1. version' = version + 1 /\ version \in Nat /\ Seen \subseteq Seen'
  BY VersionsAre DEF Replace, Seen
<1>2. WatchedOK'
  BY <1>1 DEF Replace, OrderInv, WatchedOK
<1>3. RequestsFollowLoad'
  <2>1. \A s \in MapSlots : maps[s] # None => maps[s].answer \in 0..MaxVersion \cup {None}
    BY DEF OrderInv, Inv, TypeOK, Requests
  <2> QED
    BY <1>1, <2>1 DEF Replace, OrderInv, RequestsFollowLoad
<1>4. MapFollowsLoad'
  BY <1>1 DEF Replace, OrderInv, MapFollowsLoad, Inv, MapAnswered
<1> QED
  BY <1>2, <1>3, <1>4 DEF Replace, OrderInv, LatestIsNewer, AsNewAsToken

\* Steps that only change polls.
LEMMA PollOrder ==
  ASSUME OrderInv, Inv', UNCHANGED <<version, token, load, view, maps, map, missed>>,
         polls' \in [PollSlots -> [answer : Seen] \cup {None}]
  PROVE  OrderInv'
BY DEF OrderInv, WatchedOK, Seen, RequestsFollowLoad, MapFollowsLoad, LatestIsNewer,
       AsNewAsToken

\* A token arrives: the App is the one that it was, or a new one that has
\* loaded nothing.
LEMMA WatchOrder ==
  ASSUME OrderInv, Inv', NEW s \in PollSlots, WatchToken(s)
  PROVE  OrderInv'
<1>1. polls[s].answer \in 0..version /\ polls[s].answer # None
  BY DEF WatchToken, OrderInv, WatchedOK, Seen
<1>2. token' = polls[s].answer /\ version' = version
      /\ polls' = [polls EXCEPT ![s] = None]
  BY DEF WatchToken
<1>3. CASE token # None /\ token # polls[s].answer
  <2>1. Mount
    BY <1>3 DEF WatchToken, Changed
  <2>2. WatchedOK'
    BY <1>1, <1>2, <2>1 DEF Mount, Loading, OrderInv, WatchedOK, Seen
  <2> QED
    BY <2>1, <2>2
       DEF Mount, Loading, OrderInv, RequestsFollowLoad, MapFollowsLoad,
           LatestIsNewer, AsNewAsToken
<1>4. CASE token = None \/ token = polls[s].answer
  <2>1. UNCHANGED <<load, view, maps, map>>
    BY <1>4 DEF WatchToken, Changed
  <2>2. WatchedOK'
    BY <1>1, <1>2, <2>1 DEF OrderInv, WatchedOK, Seen
  <2>3. RequestsFollowLoad' /\ MapFollowsLoad' /\ LatestIsNewer'
    BY <1>2, <2>1 DEF OrderInv, RequestsFollowLoad, MapFollowsLoad, LatestIsNewer
  <2>4. AsNewAsToken'
    <3> SUFFICES ASSUME ~missed'
                 PROVE  /\ \A p \in Parts : load.parts[p] # None =>
                             polls[s].answer <= load.parts[p]
                        /\ map # None => polls[s].answer <= map.version
      BY <1>2, <2>1 DEF AsNewAsToken
    <3>1. \A p \in Parts : load.parts[p] # None => polls[s].answer <= load.parts[p]
      <4>1. CASE token = None
        <5>1. \A p \in Parts : load.parts[p] \in {None, polls[s].answer}
          BY <4>1 DEF WatchToken
        <5> QED
          BY <1>1, <5>1
      <4>2. CASE token # None
        BY <1>1, <1>4, <4>2 DEF WatchToken, OrderInv, AsNewAsToken
      <4> QED
        BY <4>1, <4>2
    <3>2. ASSUME map # None PROVE polls[s].answer <= map.version
      <4>1. PICK p \in Parts : TRUE
        BY DashboardAssumption
      <4>2. load.parts[p] \in 0..version /\ load.parts[p] # None
        BY <3>2, ReadyIfShown, ReadyParts, VersionsAre
      <4>3. load.parts[p] <= map.version /\ map.version \in 0..MaxVersion
        BY <3>2 DEF OrderInv, MapFollowsLoad, Inv, MapAnswered
      <4> QED
        BY <1>1, <3>1, <4>2, <4>3
    <3> QED
      BY <3>1, <3>2
  <2> QED
    BY <2>2, <2>3, <2>4 DEF OrderInv
<1> QED
  BY <1>3, <1>4

\* A part of the load is answered with what is served now.
LEMMA PartOrder ==
  ASSUME OrderInv, Inv', NEW q \in Parts, HandlePart(q)
  PROVE  OrderInv'
<1>1. map = None /\ \A s \in MapSlots : maps[s] = None
  BY DEF HandlePart, OrderInv, Inv, OnlyWhenReady
<1>2. load' = [load EXCEPT !.parts[q] = version]
      /\ UNCHANGED <<version, token, polls, maps, map, missed>>
      /\ load.state = "loading"
  BY DEF HandlePart
<1>3. WatchedOK'
  BY <1>2, VersionsAre DEF OrderInv, WatchedOK, Seen
<1>4. \A p \in Parts : load'.parts[p] = IF p = q THEN version ELSE load.parts[p]
  BY <1>2 DEF OrderInv, WatchedOK
<1>5. AsNewAsToken'
  BY <1>1, <1>2, <1>4, VersionsAre DEF OrderInv, AsNewAsToken, WatchedOK, Seen
<1> QED
  BY <1>1, <1>2, <1>3, <1>5
     DEF OrderInv, RequestsFollowLoad, MapFollowsLoad, LatestIsNewer

\* A request for a viewport begins: it is the only one that counts.
LEMMA BeginOrder ==
  ASSUME OrderInv, Inv', NEW s \in MapSlots, NEW v \in Views, Begin(s, v),
         UNCHANGED <<version, token, polls, map, missed>>,
         load' = [load EXCEPT !.state = "ready"],
         \A p \in Parts : load.parts[p] # None
  PROVE  OrderInv'
<1>1. maps' \in [MapSlots -> Requests \cup {None}]
  BY DEF Inv, TypeOK
<1>2. maps'[s] = [view |-> v, latest |-> TRUE, answer |-> None]
  BY DEF Begin
<1>3. ASSUME NEW u \in MapSlots, u # s, maps'[u] # None
      PROVE  maps[u] # None /\ ~maps'[u].latest /\ maps'[u].answer = maps[u].answer
  BY <1>3 DEF Begin, OrderInv, Inv, TypeOK, Requests
<1>4. load'.parts = load.parts /\ load'.state = "ready"
  BY DEF OrderInv, WatchedOK
<1>5. WatchedOK'
  BY <1>4 DEF OrderInv, WatchedOK, Seen
<1>6. RequestsFollowLoad'
  BY <1>2, <1>3, <1>4 DEF OrderInv, RequestsFollowLoad
<1>7. LatestIsNewer'
  BY <1>2, <1>3 DEF LatestIsNewer
<1>8. MapFollowsLoad' /\ AsNewAsToken'
  BY <1>4 DEF OrderInv, MapFollowsLoad, AsNewAsToken
<1> QED
  BY <1>5, <1>6, <1>7, <1>8 DEF OrderInv

\* The API answers a viewport request with what it serves now, which is as new
\* as everything that was answered before.
LEMMA HandleMapOrder ==
  ASSUME OrderInv, Inv', NEW s \in MapSlots, HandleMap(s)
  PROVE  OrderInv'
<1>1. /\ maps[s] # None /\ maps[s].answer = None
      /\ maps' = [maps EXCEPT ![s].answer = version]
      /\ UNCHANGED <<version, token, polls, load, map, missed>>
  BY DEF HandleMap
<1>2. /\ maps'[s].answer = version /\ maps'[s].latest = maps[s].latest
      /\ \A u \in MapSlots \ {s} : maps'[u] = maps[u]
  BY <1>1 DEF OrderInv, Inv, TypeOK, Requests
<1>3. \A p \in Parts : load.parts[p] <= version
  BY <1>1, ReadyIfShown, ReadyParts, VersionsAre
<1>4. RequestsFollowLoad'
  BY <1>1, <1>2, <1>3, VersionsAre DEF OrderInv, RequestsFollowLoad
<1>5. LatestIsNewer'
  <2> SUFFICES ASSUME NEW t \in MapSlots, maps'[t] # None, maps'[t].latest
               PROVE  /\ \A u \in MapSlots : maps'[u] # None /\ maps'[u].latest => u = t
                      /\ map # None /\ maps'[t].answer # None =>
                           map.version <= maps'[t].answer
    BY <1>1 DEF LatestIsNewer
  <2>1. maps[t] # None /\ maps[t].latest
    BY <1>1, <1>2
  <2>2. \A u \in MapSlots : maps'[u] # None /\ maps'[u].latest => u = t
    BY <1>1, <1>2, <2>1 DEF OrderInv, LatestIsNewer
  <2>3. map # None => map.version <= version
    BY DEF OrderInv, MapFollowsLoad
  <2> QED
    BY <1>2, <2>1, <2>2, <2>3 DEF OrderInv, LatestIsNewer
<1> QED
  BY <1>1, <1>4, <1>5 DEF OrderInv, WatchedOK, Seen, MapFollowsLoad, AsNewAsToken

\* An answer arrives or a request fails: the map is that answer, or nothing.
LEMMA AnswerOrder ==
  ASSUME OrderInv, Inv', NEW s \in MapSlots, maps[s] # None,
         maps' = [maps EXCEPT ![s] = None],
         UNCHANGED <<version, token, polls, load, missed>>,
         \/ map' = None
         \/ maps[s].latest /\ maps[s].answer # None
              /\ map' = [view |-> maps[s].view, version |-> maps[s].answer]
         \/ ~maps[s].latest /\ map' = map
  PROVE  OrderInv'
<1>1. \A u \in MapSlots : maps'[u] = IF u = s THEN None ELSE maps[u]
  BY DEF OrderInv, Inv, TypeOK
<1>2. RequestsFollowLoad'
  BY <1>1 DEF OrderInv, RequestsFollowLoad
<1>3. MapFollowsLoad'
  BY DEF OrderInv, MapFollowsLoad, RequestsFollowLoad
<1>4. LatestIsNewer'
  BY <1>1 DEF OrderInv, LatestIsNewer
<1>5. AsNewAsToken'
  <2> SUFFICES ASSUME token # None, ~missed, map' # None
               PROVE  token <= map'.version
    BY DEF OrderInv, AsNewAsToken
  <2>1. PICK p \in Parts : TRUE
    BY DashboardAssumption
  <2>2. load.parts[p] \in 0..version /\ load.parts[p] # None
    BY ReadyIfShown, ReadyParts, VersionsAre
  <2>3. token <= load.parts[p] /\ token \in 0..version
    BY <2>2 DEF OrderInv, AsNewAsToken, WatchedOK, Seen
  <2>4. load.parts[p] <= map'.version
    BY <1>3 DEF MapFollowsLoad
  <2>5. map'.version \in 0..MaxVersion
    BY DEF Inv, MapAnswered
  <2> QED
    BY <2>2, <2>3, <2>4, <2>5
<1> QED
  BY <1>2, <1>3, <1>4, <1>5 DEF OrderInv, WatchedOK, Seen

LEMMA NextOrder == OrderInv /\ [Next]_vars => OrderInv'
<1> SUFFICES ASSUME OrderInv, [Next]_vars PROVE OrderInv'
  OBVIOUS
<1>0. Inv'
  BY NextInv DEF OrderInv
<1>1. CASE Replace
  BY <1>0, <1>1, ReplaceOrder
<1>2. ASSUME NEW s \in PollSlots, SendPoll(s) \/ HandlePoll(s) \/ PollFails(s)
      PROVE  OrderInv'
  <2>1. version \in Seen /\ None \in Seen
    BY VersionsAre DEF Seen
  <2>2. polls' \in [PollSlots -> [answer : Seen] \cup {None}]
    BY <1>2, <2>1 DEF SendPoll, HandlePoll, PollFails, OrderInv, WatchedOK
  <2> QED
    BY <1>0, <1>2, <2>2, PollOrder DEF SendPoll, HandlePoll, PollFails
<1>3. ASSUME NEW s \in PollSlots, WatchToken(s)
      PROVE  OrderInv'
  BY <1>0, <1>3, WatchOrder
<1>4. ASSUME NEW p \in Parts, HandlePart(p)
      PROVE  OrderInv'
  BY <1>0, <1>4, PartOrder
<1>5. CASE Loaded
  <2>1. PICK s \in MapSlots : Begin(s, view)
    BY <1>5 DEF Loaded
  <2>2. view \in Views
    BY DEF OrderInv, Inv, TypeOK
  <2> QED
    BY <1>0, <1>5, <2>1, <2>2, BeginOrder DEF Loaded
<1>6. CASE LoadFails
  <2>1. WatchedOK'
    BY <1>6 DEF LoadFails, OrderInv, WatchedOK, Seen
  <2>2. load'.parts = load.parts
    BY <1>6 DEF LoadFails, OrderInv, WatchedOK
  <2> QED
    BY <1>0, <1>6, <2>1, <2>2
       DEF LoadFails, OrderInv, RequestsFollowLoad, MapFollowsLoad, LatestIsNewer,
           AsNewAsToken
<1>7. ASSUME NEW v \in Views, Move(v)
      PROVE  OrderInv'
  <2>1. CASE load.state = "ready"
    <3>1. PICK s \in MapSlots : Begin(s, v)
      BY <1>7, <2>1 DEF Move
    <3>2. load' = [load EXCEPT !.state = "ready"]
      BY <1>7, <2>1 DEF Move, OrderInv, WatchedOK
    <3>3. \A p \in Parts : load.parts[p] # None
      BY <2>1 DEF OrderInv, WatchedOK
    <3> QED
      BY <1>0, <1>7, <3>1, <3>2, <3>3, BeginOrder DEF Move
  <2>2. CASE load.state # "ready"
    BY <1>0, <1>7, <2>2
       DEF Move, OrderInv, WatchedOK, Seen, RequestsFollowLoad, MapFollowsLoad,
           LatestIsNewer, AsNewAsToken
  <2> QED
    BY <2>1, <2>2
<1>8. ASSUME NEW s \in MapSlots, HandleMap(s)
      PROVE  OrderInv'
  BY <1>0, <1>8, HandleMapOrder
<1>9. ASSUME NEW s \in MapSlots, ShowMap(s) \/ MapFails(s)
      PROVE  OrderInv'
  BY <1>0, <1>9, AnswerOrder DEF ShowMap, MapFails, IsCurrent
<1>10. CASE UNCHANGED vars
  BY <1>0, <1>10
     DEF vars, OrderInv, WatchedOK, Seen, RequestsFollowLoad, MapFollowsLoad,
         LatestIsNewer, AsNewAsToken
<1> QED
  BY <1>1, <1>2, <1>3, <1>4, <1>5, <1>6, <1>7, <1>8, <1>9, <1>10 DEF Next

(***************************************************************************)
(* AutoRefreshingApp.tsx and App.tsx: nothing that the dashboard shows is  *)
(* older than the token it watches, in whatever order answers arrive, so   *)
(* once the token is the latest everything that was loaded is: the safety  *)
(* half of CatchesUp.                                                      *)
(***************************************************************************)
THEOREM NothingOlderThanToken == Spec => []AsNewAsToken
<1>1. OrderInv => AsNewAsToken
  BY DEF OrderInv
<1> QED
  BY <1>1, InitOrder, NextOrder, PTL DEF Spec

(***************************************************************************)
(* mapReference.ts: while it shows objects, the map never goes back to an  *)
(* older snapshot, for any number of requests under way.                   *)
(***************************************************************************)
THEOREM MapOnlyGoesForward == Spec => MapNeverGoesBack
<1>1. ASSUME OrderInv, [Next]_vars, map # None, map' # None
      PROVE  map.version <= map'.version
  <2>1. map.version \in Nat
    BY <1>1, DashboardAssumption DEF OrderInv, Inv, MapAnswered
  <2>2. ASSUME map' = map PROVE map.version <= map'.version
    BY <2>1, <2>2
  <2>3. ASSUME NEW s \in MapSlots, ShowMap(s) PROVE map.version <= map'.version
    <3>1. CASE IsCurrent(maps[s])
      <4>1. map'.version = maps[s].answer
        BY <2>3, <3>1 DEF ShowMap
      <4>2. map.version <= maps[s].answer
        BY <1>1, <2>3, <3>1 DEF ShowMap, IsCurrent, OrderInv, LatestIsNewer
      <4> QED
        BY <4>1, <4>2
    <3>2. CASE ~IsCurrent(maps[s])
      BY <2>2, <2>3, <3>2 DEF ShowMap
    <3> QED
      BY <3>1, <3>2
  <2>4. ASSUME NEW s \in MapSlots, MapFails(s) PROVE map.version <= map'.version
    BY <1>1, <2>2, <2>4 DEF MapFails
  <2>5. ASSUME NEW s \in PollSlots, WatchToken(s)
        PROVE  map.version <= map'.version
    BY <1>1, <2>2, <2>5 DEF WatchToken, Mount
  <2> QED
    BY <1>1, <2>2, <2>3, <2>4, <2>5
       DEF Next, vars, Replace, SendPoll, HandlePoll, PollFails, HandlePart, Loaded,
           LoadFails, Move, HandleMap
<1>2. OrderInv /\ [Next]_vars =>
        [map # None /\ map' # None => map.version <= map'.version]_vars
  BY <1>1
<1> QED
  BY <1>2, InitOrder, NextOrder, PTL DEF Spec, MapNeverGoesBack
-----------------------------------------------------------------------------
LEMMA LeastElement ==
  ASSUME NEW S \in SUBSET Nat, S # {}
  PROVE  \E x \in S : \A y \in S : x <= y
<1>1. PICK x \in S : \A y \in S : ~(<<y, x>> \in OpToRel(<, Nat))
  BY NatLessThanWellFounded, WFMin
<1>2. \A y \in S : ~(y < x)
  BY <1>1 DEF OpToRel
<1> QED
  BY <1>2

\* Of the members of a finite set one has the least value and one the greatest:
\* the one with the fewest members below it, and above it.
LEMMA Extremes ==
  ASSUME NEW S, IsFiniteSet(S), S # {}, NEW val \in [S -> Int]
  PROVE  \E least, greatest \in S :
           \A x \in S : val[least] <= val[x] /\ val[x] <= val[greatest]
<1> DEFINE Below(x) == {y \in S : val[y] < val[x]}
           Above(x) == {y \in S : val[x] < val[y]}
<1>1. \A x \in S : Cardinality(Below(x)) \in Nat /\ Cardinality(Above(x)) \in Nat
  <2> TAKE x \in S
  <2>1. IsFiniteSet(Below(x)) /\ IsFiniteSet(Above(x))
    BY FS_Subset
  <2> QED
    BY <2>1, FS_CardinalityType
<1>2. ASSUME NEW T, IsFiniteSet(T), NEW U \in SUBSET T, NEW z \in T, z \notin U
      PROVE  Cardinality(U) \in Nat /\ Cardinality(U) < Cardinality(T)
  <2>1. IsFiniteSet(U) /\ Cardinality(U) <= Cardinality(T) /\ Cardinality(U) # Cardinality(T)
    BY <1>2, FS_Subset
  <2> QED
    BY <1>2, <2>1, FS_CardinalityType
<1>3. \E least \in S : \A x \in S : val[least] <= val[x]
  <2> DEFINE counts == {Cardinality(Below(x)) : x \in S}
  <2>1. counts \in SUBSET Nat /\ counts # {}
    BY <1>1
  <2>2. PICK c \in counts : \A d \in counts : c <= d
    <3> HIDE DEF counts
    <3> QED BY <2>1, LeastElement
  <2>3. PICK least \in S : c = Cardinality(Below(least))
    BY <2>2
  <2>4. ASSUME NEW x \in S, val[x] < val[least] PROVE FALSE
    <3>1. Below(x) \in SUBSET Below(least) /\ x \in Below(least) /\ x \notin Below(x)
      BY <2>4
    <3>2. IsFiniteSet(Below(least))
      BY FS_Subset
    <3>3. Cardinality(Below(x)) < Cardinality(Below(least))
      <4> HIDE DEF Below
      <4> QED BY <1>2, <3>1, <3>2
    <3>4. Cardinality(Below(least)) <= Cardinality(Below(x))
      BY <2>2, <2>3
    <3>5. Cardinality(Below(least)) \in Nat /\ Cardinality(Below(x)) \in Nat
      BY <1>1
    <3> HIDE DEF counts, Below
    <3> QED
      BY <3>3, <3>4, <3>5
  <2> QED
    BY <2>4
<1>4. \E greatest \in S : \A x \in S : val[x] <= val[greatest]
  <2> DEFINE counts == {Cardinality(Above(x)) : x \in S}
  <2>1. counts \in SUBSET Nat /\ counts # {}
    BY <1>1
  <2>2. PICK c \in counts : \A d \in counts : c <= d
    <3> HIDE DEF counts
    <3> QED BY <2>1, LeastElement
  <2>3. PICK greatest \in S : c = Cardinality(Above(greatest))
    BY <2>2
  <2>4. ASSUME NEW x \in S, val[greatest] < val[x] PROVE FALSE
    <3>1. Above(x) \in SUBSET Above(greatest) /\ x \in Above(greatest) /\ x \notin Above(x)
      BY <2>4
    <3>2. IsFiniteSet(Above(greatest))
      BY FS_Subset
    <3>3. Cardinality(Above(x)) < Cardinality(Above(greatest))
      <4> HIDE DEF Above
      <4> QED BY <1>2, <3>1, <3>2
    <3>4. Cardinality(Above(greatest)) <= Cardinality(Above(x))
      BY <2>2, <2>3
    <3>5. Cardinality(Above(greatest)) \in Nat /\ Cardinality(Above(x)) \in Nat
      BY <1>1
    <3> HIDE DEF counts, Above
    <3> QED
      BY <3>3, <3>4, <3>5
  <2> QED
    BY <2>4
<1> QED
  BY <1>3, <1>4

LEMMA MinMaxOf ==
  ASSUME NEW S, IsFiniteSet(S), S # {}, NEW val \in [S -> Int]
  PROVE  LET values == {val[x] : x \in S}
         IN  /\ Min(values) \in values /\ \A v \in values : Min(values) <= v
             /\ Max(values) \in values /\ \A v \in values : Max(values) >= v
<1> DEFINE values == {val[x] : x \in S}
<1>1. PICK least \in S, greatest \in S :
        \A x \in S : val[least] <= val[x] /\ val[x] <= val[greatest]
  BY Extremes
<1>2. val[least] \in values /\ \A v \in values : val[least] <= v
  BY <1>1
<1>3. val[greatest] \in values /\ \A v \in values : val[greatest] >= v
  BY <1>1
<1> HIDE DEF values
<1>4. Min(values) \in values /\ \A v \in values : Min(values) <= v
  BY <1>2 DEF Min
<1>5. Max(values) \in values /\ \A v \in values : Max(values) >= v
  BY <1>3 DEF Max
<1> QED
  BY <1>4, <1>5 DEF values

\* geometry_bounds: the corners are coordinates of the geometry, and no point
\* is outside.
LEMMA BoundsAre ==
  ASSUME NEW points, IsFiniteSet(points), points # {}, points \subseteq Int \X Int
  PROVE  LET box == BoundsOf(points) IN
         /\ \E p, q \in points : box.west = p[1] /\ box.east = q[1]
         /\ \E p, q \in points : box.south = p[2] /\ box.north = q[2]
         /\ \A p \in points : /\ box.west <= p[1] /\ p[1] <= box.east
                              /\ box.south <= p[2] /\ p[2] <= box.north
<1> DEFINE xs == [p \in points |-> p[1]]
           ys == [p \in points |-> p[2]]
<1>1. xs \in [points -> Int] /\ ys \in [points -> Int]
  OBVIOUS
<1>2. {xs[p] : p \in points} = {p[1] : p \in points}
      /\ {ys[p] : p \in points} = {p[2] : p \in points}
  OBVIOUS
<1> HIDE DEF xs, ys
<1>3. LET values == {xs[p] : p \in points}
      IN  /\ Min(values) \in values /\ \A v \in values : Min(values) <= v
          /\ Max(values) \in values /\ \A v \in values : Max(values) >= v
  BY <1>1, MinMaxOf
<1>4. LET values == {ys[p] : p \in points}
      IN  /\ Min(values) \in values /\ \A v \in values : Min(values) <= v
          /\ Max(values) \in values /\ \A v \in values : Max(values) >= v
  BY <1>1, MinMaxOf
<1>5. /\ BoundsOf(points).west = Min({p[1] : p \in points})
      /\ BoundsOf(points).east = Max({p[1] : p \in points})
      /\ BoundsOf(points).south = Min({p[2] : p \in points})
      /\ BoundsOf(points).north = Max({p[2] : p \in points})
  BY DEF BoundsOf, Box
<1>6. \A p \in points : p[1] \in Int /\ p[2] \in Int
  OBVIOUS
<1>7. /\ \E p, q \in points :
             BoundsOf(points).west = p[1] /\ BoundsOf(points).east = q[1]
      /\ \A p \in points : BoundsOf(points).west <= p[1] /\ p[1] <= BoundsOf(points).east
  BY <1>2, <1>3, <1>5, <1>6
<1>8. /\ \E p, q \in points :
             BoundsOf(points).south = p[2] /\ BoundsOf(points).north = q[2]
      /\ \A p \in points : BoundsOf(points).south <= p[2] /\ p[2] <= BoundsOf(points).north
  BY <1>2, <1>4, <1>5, <1>6
<1> QED
  BY <1>7, <1>8

\* MapBounds.intersects: the boxes have a place in common.
LEMMA OverlapsIsMappable ==
  ASSUME NEW item, IsObject(item), NEW v, IsViewport(v)
  PROVE  Mappable(item, v) <=> Overlaps(item, v)
<1> DEFINE points == item.points
           box == BoundsOf(points)
<1>1. IsFiniteSet(points) /\ points \subseteq Int \X Int
  BY DEF IsObject
<1>2. \A p \in points : p[1] \in Int /\ p[2] \in Int
  BY <1>1
<1>3. /\ v.west \in Int /\ v.east \in Int /\ v.west < v.east
      /\ v.south \in Int /\ v.north \in Int /\ v.south < v.north
  BY DEF IsViewport
<1>4. CASE points = {}
  BY <1>4 DEF Mappable, Overlaps
<1>5. CASE points # {}
  <2>1. PICK w \in points, e \in points : box.west = w[1] /\ box.east = e[1]
    BY <1>1, <1>5, BoundsAre
  <2>2. PICK s \in points, n \in points : box.south = s[2] /\ box.north = n[2]
    BY <1>1, <1>5, BoundsAre
  <2>3. \A p \in points : /\ w[1] <= p[1] /\ p[1] <= e[1]
                            /\ s[2] <= p[2] /\ p[2] <= n[2]
    BY <1>1, <1>5, <2>1, <2>2, BoundsAre
  <2>4. Intersects(v, box) <=>
          /\ v.west <= e[1] /\ w[1] <= v.east
          /\ v.south <= n[2] /\ s[2] <= v.north
    BY <1>2, <1>3, <2>1, <2>2 DEF Intersects
  <2> HIDE DEF points, box
  <2>5. ASSUME Intersects(v, box)
        PROVE  \E x \in v.west..v.east, y \in v.south..v.north :
                 /\ \E p, q \in points : p[1] <= x /\ x <= q[1]
                 /\ \E p, q \in points : p[2] <= y /\ y <= q[2]
    <3> DEFINE x == IF w[1] <= v.west THEN v.west ELSE w[1]
               y == IF s[2] <= v.south THEN v.south ELSE s[2]
    <3>1. x \in v.west..v.east /\ w[1] <= x /\ x <= e[1]
      BY <1>2, <1>3, <2>3, <2>4, <2>5
    <3>2. y \in v.south..v.north /\ s[2] <= y /\ y <= n[2]
      BY <1>2, <1>3, <2>3, <2>4, <2>5
    <3> HIDE DEF x, y
    <3> QED
      BY <3>1, <3>2
  <2>6. ASSUME NEW x \in v.west..v.east, NEW y \in v.south..v.north,
               NEW p \in points, NEW q \in points, p[1] <= x, x <= q[1],
               NEW c \in points, NEW d \in points, c[2] <= y, y <= d[2]
        PROVE  Intersects(v, box)
    <3>1. v.west <= e[1] /\ w[1] <= v.east
      BY <1>2, <1>3, <2>3, <2>6
    <3>2. v.south <= n[2] /\ s[2] <= v.north
      BY <1>2, <1>3, <2>3, <2>6
    <3> QED
      BY <2>4, <3>1, <3>2
  <2> QED
    BY <1>5, <2>5, <2>6 DEF Mappable, Overlaps, points, box
<1> QED
  BY <1>4, <1>5

LEMMA SmallerSet ==
  ASSUME NEW T, IsFiniteSet(T), NEW U \in SUBSET T
  PROVE  /\ IsFiniteSet(U)
         /\ Cardinality(U) \in Nat /\ Cardinality(T) \in Nat
         /\ Cardinality(U) <= Cardinality(T)
         /\ U # T => Cardinality(U) < Cardinality(T)
<1>1. IsFiniteSet(U) /\ Cardinality(U) <= Cardinality(T)
      /\ (Cardinality(T) = Cardinality(U) => T = U)
  BY FS_Subset
<1>2. Cardinality(U) \in Nat /\ Cardinality(T) \in Nat
  BY <1>1, FS_CardinalityType
<1> QED
  BY <1>1, <1>2

\* Of a set with more than limit places, limit places are among the first.
LEMMA FirstOnes ==
  ASSUME NEW n \in Nat, NEW M \in SUBSET (1..n), NEW limit \in Nat
  PROVE  LET first == {i \in M : Cardinality({j \in M : j <= i}) <= limit}
         IN  /\ Cardinality(M) > limit => Cardinality(first) = limit
             /\ ~(Cardinality(M) > limit) => first = M
<1> DEFINE UpTo(i) == {j \in M : j <= i}
           First(k) == {i \in M : Cardinality(UpTo(i)) <= k}
<1>0. \A i \in M : i \in Nat
  OBVIOUS
<1>1. IsFiniteSet(M) /\ Cardinality(M) \in Nat
  <2>1. IsFiniteSet(1..n)
    BY FS_Interval
  <2> QED
    BY <2>1, SmallerSet
<1>2. \A i \in M : /\ UpTo(i) \in SUBSET M /\ i \in UpTo(i)
                   /\ IsFiniteSet(UpTo(i)) /\ Cardinality(UpTo(i)) \in Nat
                   /\ Cardinality(UpTo(i)) <= Cardinality(M)
  <2> TAKE i \in M
  <2>1. UpTo(i) \in SUBSET M /\ i \in UpTo(i)
    OBVIOUS
  <2> HIDE DEF UpTo
  <2> QED
    BY <1>1, <2>1, SmallerSet
<1>3. ASSUME NEW i \in M, NEW j \in M, i < j
      PROVE  Cardinality(UpTo(i)) < Cardinality(UpTo(j))
  <2>1. UpTo(i) \in SUBSET UpTo(j)
    <3> SUFFICES ASSUME NEW x \in M, x <= i PROVE x <= j
      OBVIOUS
    <3> QED
      BY <1>0, <1>3
  <2>2. j \in UpTo(j) /\ j \notin UpTo(i)
    BY <1>0, <1>3
  <2> HIDE DEF UpTo
  <2> QED
    BY <1>2, <2>1, <2>2, SmallerSet
<1>4. ~(Cardinality(M) > limit) => First(limit) = M
  <2>1. ASSUME ~(Cardinality(M) > limit), NEW i \in M
        PROVE  Cardinality(UpTo(i)) <= limit
    <3> HIDE DEF UpTo
    <3> QED BY <1>1, <1>2, <2>1
  <2> QED
    BY <2>1
<1>5. ASSUME Cardinality(M) > limit
      PROVE  Cardinality(First(limit)) = limit
  <2> DEFINE Wrong == {k \in 0..limit : Cardinality(First(k)) # k}
  <2>1. ASSUME Wrong # {} PROVE FALSE
    <3>1. Wrong \in SUBSET Nat
      OBVIOUS
    <3>2. PICK k \in Wrong : \A m \in Wrong : k <= m
      <4> HIDE DEF Wrong
      <4> QED BY <2>1, <3>1, LeastElement
    <3>3. k # 0
      <4>1. \A i \in M : Cardinality(UpTo(i)) # 0
        <5> HIDE DEF UpTo
        <5> QED BY <1>2, FS_EmptySet
      <4>2. First(0) = {}
        <5> SUFFICES ASSUME NEW i \in M, Cardinality(UpTo(i)) <= 0 PROVE FALSE
          OBVIOUS
        <5> HIDE DEF UpTo
        <5> QED BY <1>2, <4>1
      <4> QED
        BY <3>2, <4>2, FS_EmptySet
    <3>4. k \in 1..limit /\ k - 1 \in 0..limit
      BY <3>2, <3>3
    <3>5. k - 1 \notin Wrong
      <4> HIDE DEF Wrong
      <4> QED BY <3>2, <3>4
    <3>6. Cardinality(First(k - 1)) = k - 1
      BY <3>4, <3>5
    <3> DEFINE Rest == M \ First(k - 1)
    <3>7. Rest \in SUBSET Nat /\ Rest # {}
      <4>1. Rest \in SUBSET Nat
        BY <1>0
      <4>2. First(k - 1) # M
        <5> HIDE DEF First
        <5> QED BY <1>1, <1>5, <3>4, <3>6
      <4>3. First(k - 1) \in SUBSET M
        OBVIOUS
      <4> HIDE DEF First
      <4> QED BY <4>1, <4>2, <4>3
    <3>8. PICK x \in Rest : \A y \in Rest : x <= y
      <4> HIDE DEF Rest
      <4> QED BY <3>7, LeastElement
    <3>9. First(k - 1) \in SUBSET M /\ IsFiniteSet(First(k - 1))
      <4>1. First(k - 1) \in SUBSET M
        OBVIOUS
      <4> HIDE DEF First
      <4> QED BY <1>1, <4>1, SmallerSet
    <3>10. Cardinality(UpTo(x)) <= k
      <4>1. UpTo(x) \ {x} \in SUBSET First(k - 1)
        <5> SUFFICES ASSUME NEW j \in M, j <= x, j # x PROVE j \in First(k - 1)
          OBVIOUS
        <5>1. ~(x <= j)
          BY <3>7, <3>8
        <5> QED
          BY <3>8, <5>1
      <4>2. x \in UpTo(x) /\ IsFiniteSet(UpTo(x))
        <5> HIDE DEF UpTo
        <5> QED BY <1>2, <3>8
      <4> HIDE DEF UpTo, First
      <4>3. Cardinality(UpTo(x) \ {x}) <= k - 1
        BY <3>6, <3>9, <4>1, SmallerSet
      <4>4. Cardinality(UpTo(x) \ {x}) = Cardinality(UpTo(x)) - 1
        BY <4>2, FS_RemoveElement
      <4>5. Cardinality(UpTo(x)) \in Nat
        BY <4>2, FS_CardinalityType
      <4> QED
        BY <3>4, <4>3, <4>4, <4>5
    <3>11. First(k) = First(k - 1) \cup {x}
      <4> HIDE DEF UpTo
      <4>1. x \in First(k)
        BY <3>8, <3>10
      <4>2. First(k - 1) \subseteq First(k)
        <5> SUFFICES ASSUME NEW i \in M, Cardinality(UpTo(i)) <= k - 1
                     PROVE  Cardinality(UpTo(i)) <= k
          OBVIOUS
        <5> QED
          BY <1>2, <3>4
      <4>3. ASSUME NEW i \in First(k), i \notin First(k - 1), i # x PROVE FALSE
        <5>1. i \in Rest /\ i \in M /\ x \in M
          BY <3>8, <4>3
        <5>2. x < i
          BY <3>8, <4>3, <5>1
        <5>3. Cardinality(UpTo(x)) < Cardinality(UpTo(i))
          BY <1>3, <5>1, <5>2
        <5>4. Cardinality(UpTo(i)) <= k /\ ~(Cardinality(UpTo(x)) <= k - 1)
          BY <3>8, <4>3
        <5>5. Cardinality(UpTo(x)) \in Nat /\ Cardinality(UpTo(i)) \in Nat
          BY <1>2, <5>1
        <5> QED
          BY <3>4, <5>3, <5>4, <5>5
      <4> HIDE DEF First
      <4> QED
        BY <4>1, <4>2, <4>3
    <3>12. x \notin First(k - 1)
      BY <3>8
    <3> HIDE DEF First
    <3>13. Cardinality(First(k)) = Cardinality(First(k - 1)) + 1
      BY <3>9, <3>11, <3>12, FS_AddElement
    <3> QED
      BY <3>2, <3>4, <3>6, <3>13
  <2>2. limit \notin Wrong
    BY <2>1
  <2> HIDE DEF First
  <2> QED
    BY <2>2
<1> QED
  BY <1>4, <1>5

\* reference_feature_collection, for one layer.
LEMMA SelectedOf ==
  ASSUME NEW items, Len(items) \in Nat, \A i \in 1..Len(items) : IsObject(items[i]),
         NEW v, IsViewport(v)
  PROVE  LET given == Selected(items, v)
             there == {i \in 1..Len(items) : Overlaps(items[i], v)}
         IN  /\ given.features \subseteq there
             /\ there # given.features =>
                  given.truncated /\ Cardinality(given.features) = Limit
<1> DEFINE there == {i \in 1..Len(items) : Overlaps(items[i], v)}
           first == {i \in there : Cardinality({j \in there : j <= i}) <= Limit}
<1>1. there = {i \in 1..Len(items) : Mappable(items[i], v)}
  BY OverlapsIsMappable
<1>2. /\ Selected(items, v).features = first
      /\ Selected(items, v).truncated <=> Cardinality(there) > Limit
  <2> HIDE DEF there
  <2> QED BY <1>1 DEF Selected
<1>3. there \in SUBSET (1..Len(items))
  OBVIOUS
<1>4. /\ Cardinality(there) > Limit => Cardinality(first) = Limit
      /\ ~(Cardinality(there) > Limit) => first = there
  <2> HIDE DEF there
  <2> QED BY <1>3, LimitAssumption, FirstOnes
<1>5. first \subseteq there
  OBVIOUS
<1> HIDE DEF there, first
<1> QED
  BY <1>2, <1>4, <1>5 DEF there

(***************************************************************************)
(* An object of the loaded reference state that has a point of its extent  *)
(* in common with the viewport is on the map or its layer is full and      *)
(* reported as truncated, and nothing else is on the map.                  *)
(***************************************************************************)
THEOREM NothingHidden == Spec => []VisibleOrTruncated
<1>1. Inv => VisibleOrTruncated
  <2> SUFFICES ASSUME Inv, map # None, NEW layer \in Layers
               PROVE  LET items == References[map.version][layer]
                          given == FeatureCollection(References[map.version], map.view)[layer]
                          there == {i \in 1..Len(items) : Overlaps(items[i], map.view)}
                      IN  /\ given.features \subseteq there
                          /\ there # given.features =>
                               given.truncated /\ Cardinality(given.features) = Limit
    BY DEF VisibleOrTruncated
  <2>1. map.view \in Views /\ map.version \in 0..MaxVersion
    BY DEF Inv, MapAnswered
  <2> DEFINE items == References[map.version][layer]
  <2>2. /\ Len(items) \in Nat /\ \A i \in 1..Len(items) : IsObject(items[i])
        /\ IsViewport(map.view)
    BY <2>1, DashboardAssumption
  <2>3. FeatureCollection(References[map.version], map.view)[layer] = Selected(items, map.view)
    BY DEF FeatureCollection
  <2> HIDE DEF items
  <2>4. LET given == Selected(items, map.view)
            there == {i \in 1..Len(items) : Overlaps(items[i], map.view)}
        IN  /\ given.features \subseteq there
            /\ there # given.features =>
                 given.truncated /\ Cardinality(given.features) = Limit
    BY <2>2, SelectedOf
  <2> QED
    BY <2>3, <2>4 DEF items
<1> QED
  BY <1>1, InitInv, NextInv, PTL DEF Spec
=============================================================================
