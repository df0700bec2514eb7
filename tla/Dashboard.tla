----------------------------- MODULE Dashboard ------------------------------
(***************************************************************************)
(* The dashboard in the browser (frontend/src): AutoRefreshingApp polls    *)
(* the token of the snapshots that the API serves and mounts the App anew  *)
(* when it changes; the App loads its data once, all or nothing, and then  *)
(* the objects in the viewport of the map, whenever that moves.  Requests  *)
(* are answered by the API at some time after they were sent and the       *)
(* answers arrive in any order, or fail.                                   *)
(*                                                                         *)
(* The token is the version of the snapshots.  A request of an App that is *)
(* no longer mounted is dropped with it: its answer is ignored.  A token   *)
(* of the request tracker is kept as whether it is still the latest.       *)
(* Definitions marked "slip" are wrong variants of the one that follows.   *)
(***************************************************************************)
EXTENDS MapReference

CONSTANTS
  MaxVersion,   \* bounds the changes of the snapshots
  References,   \* References[v]: the reference state of version v
  Views, Home,  \* viewports, and the one of a new map
  Parts,        \* the requests of a load
  PollSlots, MapSlots,   \* bound the requests under way
  MaxFailures,  \* bounds the requests that fail
  None          \* no token, no answer, no request

\* What a viewport request may be.
Requests == [view : Views, latest : BOOLEAN, answer : (0..MaxVersion) \cup {None}]

ASSUME DashboardAssumption ==
  /\ MaxVersion \in Nat /\ MaxFailures \in Nat
  /\ DOMAIN References = 0..MaxVersion
  /\ \A n \in 0..MaxVersion, layer \in Layers :
       LET items == References[n][layer] IN
       Len(items) \in Nat /\ \A i \in 1..Len(items) : IsObject(items[i])
  /\ \A v \in Views : IsViewport(v)
  /\ Home \in Views /\ MapSlots # {} /\ Parts # {}
  /\ None \notin Requests \cup 0..MaxVersion

VARIABLES
  version,   \* the snapshots that the API serves
  token,     \* activeToken
  polls,     \* polls[s]: None or a poll with its answer
  load,      \* loadState, and the version of each part that was answered
  view,      \* the bounds of the map
  maps,      \* maps[s]: None or a viewport request
  map,       \* referenceMap: None, or the viewport and version it is of
  failures,  \* how many requests have failed
  missed     \* history: the first token is not of what was loaded

vars == <<version, token, polls, load, view, maps, map, failures, missed>>

Loading == [state |-> "loading", parts |-> [p \in Parts |-> None]]

Init ==
  /\ version = 0
  /\ token = None
  /\ polls = [s \in PollSlots |-> None]
  /\ load = Loading
  /\ view = Home
  /\ maps = [s \in MapSlots |-> None]
  /\ map = None
  /\ failures = 0
  /\ missed = FALSE

\* A valid snapshot replaces one of those that the API serves.
Replace ==
  /\ version < MaxVersion
  /\ version' = version + 1
  /\ UNCHANGED <<token, polls, load, view, maps, map, failures, missed>>

Fails == failures < MaxFailures /\ failures' = failures + 1
-----------------------------------------------------------------------------
\* checkForSnapshotChange
SendPoll(s) ==
  /\ polls[s] = None
  /\ polls' = [polls EXCEPT ![s] = [answer |-> None]]
  /\ UNCHANGED <<version, token, load, view, maps, map, failures, missed>>

HandlePoll(s) ==
  /\ polls[s] # None /\ polls[s].answer = None
  /\ polls' = [polls EXCEPT ![s].answer = version]
  /\ UNCHANGED <<version, token, load, view, maps, map, failures, missed>>

\* slip: an App that is loading is left alone
ChangedWhenReady(next) == token # next /\ load.state = "ready"
Changed(next) == token # next

\* slip: the map is kept by what mounts the App
MountKeepsMap ==
  /\ load' = Loading
  /\ view' = Home
  /\ UNCHANGED <<maps, map>>
Mount ==
  /\ load' = Loading
  /\ view' = Home
  /\ maps' = [s \in MapSlots |-> None]
  /\ map' = None

\* The first token is that of the App that is mounted already.
WatchToken(s) ==
  /\ polls[s] # None /\ polls[s].answer # None
  /\ polls' = [polls EXCEPT ![s] = None]
  /\ token' = polls[s].answer
  /\ missed' = (missed \/ (token = None /\
                  \E p \in Parts : load.parts[p] \notin {None, polls[s].answer}))
  /\ IF token # None /\ Changed(polls[s].answer)
     THEN Mount
     ELSE UNCHANGED <<load, view, maps, map>>
  /\ UNCHANGED <<version, failures>>

\* A poll that fails changes nothing.
PollFails(s) ==
  /\ polls[s] # None
  /\ Fails
  /\ polls' = [polls EXCEPT ![s] = None]
  /\ UNCHANGED <<version, token, load, view, maps, map, missed>>
-----------------------------------------------------------------------------
\* loadViewport: a request of the tracker makes all others outdated.
Begin(s, at) ==
  maps' = [u \in MapSlots |->
             IF u = s THEN [view |-> at, latest |-> TRUE, answer |-> None]
             ELSE IF maps[u] = None THEN None ELSE [maps[u] EXCEPT !.latest = FALSE]]

HandlePart(p) ==
  /\ load.state = "loading" /\ load.parts[p] = None
  /\ load' = [load EXCEPT !.parts[p] = version]
  /\ UNCHANGED <<version, token, polls, view, maps, map, failures, missed>>

\* All parts have been answered; the map loads its first viewport.
Loaded ==
  /\ load.state = "loading" /\ \A p \in Parts : load.parts[p] # None
  /\ load' = [load EXCEPT !.state = "ready"]
  /\ \E s \in MapSlots : Begin(s, view)
  /\ UNCHANGED <<version, token, polls, view, map, failures, missed>>

\* One of the requests fails; the App stays in that state until it is mounted anew.
LoadFails ==
  /\ load.state = "loading"
  /\ Fails
  /\ load' = [load EXCEPT !.state = "error"]
  /\ UNCHANGED <<version, token, polls, view, maps, map, missed>>

\* onMoveEnd is registered when the load is ready.
Move(v) ==
  /\ v # view
  /\ view' = v
  /\ IF load.state = "ready"
     THEN \E s \in MapSlots : maps[s] = None /\ Begin(s, v)
     ELSE UNCHANGED maps
  /\ UNCHANGED <<version, token, polls, load, map, failures, missed>>

HandleMap(s) ==
  /\ maps[s] # None /\ maps[s].answer = None
  /\ maps' = [maps EXCEPT ![s].answer = version]
  /\ UNCHANGED <<version, token, polls, load, view, map, failures, missed>>

\* slip: answers are taken as they come
AnyAnswer(request) == TRUE
IsCurrent(request) == request.latest

ShowMap(s) ==
  /\ maps[s] # None /\ maps[s].answer # None
  /\ maps' = [maps EXCEPT ![s] = None]
  /\ map' = IF IsCurrent(maps[s])
            THEN [view |-> maps[s].view, version |-> maps[s].answer] ELSE map
  /\ UNCHANGED <<version, token, polls, load, view, failures, missed>>

\* The map is cleared rather than left with what it showed before.
MapFails(s) ==
  /\ maps[s] # None
  /\ Fails
  /\ maps' = [maps EXCEPT ![s] = None]
  /\ map' = IF IsCurrent(maps[s]) THEN None ELSE map
  /\ UNCHANGED <<version, token, polls, load, view, missed>>

Next ==
  \/ Replace
  \/ \E s \in PollSlots :
       SendPoll(s) \/ HandlePoll(s) \/ WatchToken(s) \/ PollFails(s)
  \/ \E p \in Parts : HandlePart(p)
  \/ Loaded
  \/ LoadFails
  \/ \E v \in Views : Move(v)
  \/ \E s \in MapSlots : HandleMap(s) \/ ShowMap(s) \/ MapFails(s)

\* The timer goes on, the API answers and answers arrive, if they do not fail.
Spec ==
  /\ Init /\ [][Next]_vars
  /\ \A s \in PollSlots :
       WF_vars(SendPoll(s)) /\ WF_vars(HandlePoll(s)) /\ WF_vars(WatchToken(s))
  /\ \A p \in Parts : WF_vars(HandlePart(p))
  /\ WF_vars(Loaded)
-----------------------------------------------------------------------------
Awaited == \E s \in MapSlots : maps[s] # None /\ maps[s].latest

(***************************************************************************)
(* docs/architecture.md: "request generations prevent a slower older       *)
(* response from overwriting a newer viewport": unless the answer for the  *)
(* current viewport is still under way, a map that shows objects shows     *)
(* those of the current viewport, whatever moved or was mounted before and *)
(* in whatever order the answers came.                                     *)
(***************************************************************************)
MapOfView == map # None /\ ~Awaited => map.view = view

(***************************************************************************)
(* docs/architecture.md: "the UI surfaces truncation rather than implying  *)
(* completeness": an object that has a point of its extent in common with  *)
(* the viewport is on the map or its layer is reported as truncated, and   *)
(* nothing else is on the map.                                             *)
(***************************************************************************)
Overlaps(item, v) ==
  /\ item.wgs84
  /\ \E x \in v.west..v.east, y \in v.south..v.north :
       /\ \E p, q \in item.points : p[1] <= x /\ x <= q[1]
       /\ \E p, q \in item.points : p[2] <= y /\ y <= q[2]

VisibleOrTruncated ==
  map # None =>
    \A layer \in Layers :
      LET items == References[map.version][layer]
          given == FeatureCollection(References[map.version], map.view)[layer]
          there == {i \in 1..Len(items) : Overlaps(items[i], map.view)}
      IN  /\ given.features \subseteq there
          /\ there # given.features => given.truncated /\ Cardinality(given.features) = Limit

(***************************************************************************)
(* AutoRefreshingApp.tsx: a token is taken over only together with an App  *)
(* that is mounted anew, so nothing on the dashboard, neither the data of  *)
(* its load nor the map, is older than the token that is watched, in       *)
(* whatever order polls and other requests are answered.  Once the token   *)
(* is the latest, so is everything that has been loaded.  Excepted is the  *)
(* first token, which is taken for that of the load.                       *)
(***************************************************************************)
AsNewAsToken ==
  token # None /\ ~missed =>
    /\ \A p \in Parts : load.parts[p] # None => token <= load.parts[p]
    /\ map # None => token <= map.version

(***************************************************************************)
(* mapReference.ts: the map never goes back to an older snapshot while it  *)
(* shows objects, although requests for different viewports are answered   *)
(* out of order.                                                           *)
(***************************************************************************)
MapNeverGoesBack ==
  [][map # None /\ map' # None => map.version <= map'.version]_vars

(***************************************************************************)
(* docs/architecture.md: the frontend "polls the system snapshot token so  *)
(* a validated persisted-state update becomes visible without [...]        *)
(* manually refreshing the page": once the snapshots no longer change, all *)
(* parts of the dashboard come to be of the latest one.  Excepted are a    *)
(* load that failed, which says so, and a change between the first load    *)
(* and the first poll, whose token is taken for that of the load.          *)
(***************************************************************************)
CatchesUp ==
  <>[](\/ missed
       \/ load.state = "error"
       \/ load.state = "ready" /\ \A p \in Parts : load.parts[p] = version)
=============================================================================
