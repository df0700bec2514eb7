--------------------------- MODULE SnapshotReload ---------------------------
(***************************************************************************)
(* runtime/reload.py: ReloadingSnapshot, one per persisted store, against  *)
(* the files that other processes publish.                                 *)
(*                                                                         *)
(* The n-th publication of a store stands for its content and for its file *)
(* signature (st_mtime_ns, st_size, st_ino): every save goes to a new      *)
(* inode, so two publications are taken to differ in signature.  A refresh *)
(* is two steps, the stat and the load, and the file may change between.   *)
(* Definitions marked "slip" are wrong variants of the one that follows.   *)
(***************************************************************************)
EXTENDS Naturals

CONSTANTS
  Stores,
  Loadable,         \* kinds of content the loader's validation accepts
  MaxPublications   \* bounds the publications of each store

ASSUME SnapshotReloadAssumption ==
  /\ MaxPublications \in Nat
  /\ {"none", "invalid"} \cap Loadable = {}

VARIABLES
  published,     \* the publication that is, or last was, the store's file
  present,       \* whether the file is in place
  value,         \* self._value
  signature,     \* self._signature, 0 for None
  knownMissing,  \* self._known_missing
  status,        \* self._diagnostic.status
  loading        \* a refresh stands between its stat and its load

files == <<published, present>>
snapshots == <<value, signature, knownMissing, status, loading>>
vars == <<published, present, value, signature, knownMissing, status, loading>>

Nothing == [n |-> 0, kind |-> "none"]
Kinds == Loadable \cup {"invalid"}
Publication == [n : 1..MaxPublications, kind : Kinds]

TypeOK ==
  /\ published \in [Stores -> Publication \cup {Nothing}]
  /\ present \in [Stores -> BOOLEAN]
  /\ value \in [Stores -> [n : 1..MaxPublications, kind : Loadable] \cup {Nothing}]
  /\ signature \in [Stores -> 0..MaxPublications]
  /\ knownMissing \in [Stores -> BOOLEAN]
  /\ status \in [Stores -> {"current", "missing", "invalid"}]
  /\ loading \in [Stores -> BOOLEAN]

\* ReloadingSnapshot.__init__
FreshSnapshots ==
  /\ value = [s \in Stores |-> Nothing]
  /\ signature = [s \in Stores |-> 0]
  /\ knownMissing = [s \in Stores |-> FALSE]
  /\ status = [s \in Stores |-> "missing"]
  /\ loading = [s \in Stores |-> FALSE]

Init ==
  /\ published = [s \in Stores |-> Nothing]
  /\ present = [s \in Stores |-> FALSE]
  /\ FreshSnapshots
-----------------------------------------------------------------------------
\* Another process saves the store; the content may fail validation (an older
\* schema, a hand-edited file).
Publish(s) ==
  /\ published[s].n < MaxPublications
  /\ \E k \in Kinds :
       published' = [published EXCEPT ![s] = [n |-> @.n + 1, kind |-> k]]
  /\ present' = [present EXCEPT ![s] = TRUE]
  /\ UNCHANGED snapshots

Withdraw(s) ==
  /\ present[s]
  /\ present' = [present EXCEPT ![s] = FALSE]
  /\ UNCHANGED <<published, snapshots>>

\* The same file is back: moved back, or its volume mounted again.
Restore(s) ==
  /\ ~present[s] /\ published[s] # Nothing
  /\ present' = [present EXCEPT ![s] = TRUE]
  /\ UNCHANGED <<published, snapshots>>
-----------------------------------------------------------------------------
\* The early returns: absent and known to be, or present and unchanged.
\* slip: a signature too coarse to tell a save from the one before it
CoarselyChanged(s) == knownMissing[s] \/ published[s].n > signature[s] + 1
Changed(s) == knownMissing[s] \/ published[s].n # signature[s]

EarlyReturn(s, force) ==
  /\ ~loading[s] /\ ~force
  /\ IF present[s] THEN ~Changed(s) ELSE knownMissing[s]

\* stat raises FileNotFoundError.
StatMissing(s, force) ==
  /\ ~loading[s] /\ ~present[s]
  /\ force \/ ~knownMissing[s]
  /\ signature' = [signature EXCEPT ![s] = 0]
  /\ knownMissing' = [knownMissing EXCEPT ![s] = TRUE]
  /\ status' = [status EXCEPT ![s] = "missing"]
  /\ UNCHANGED <<files, value, loading>>

\* slip: the signature is not remembered
NotRemembered(s) == [signature EXCEPT ![s] = 0]
Remembered(s) == [signature EXCEPT ![s] = published[s].n]

StatChanged(s, force) ==
  /\ ~loading[s] /\ present[s]
  /\ force \/ Changed(s)
  /\ signature' = Remembered(s)
  /\ knownMissing' = [knownMissing EXCEPT ![s] = FALSE]
  /\ loading' = [loading EXCEPT ![s] = TRUE]
  /\ UNCHANGED <<files, value, status>>

\* Ends the load with the diagnostic's status.
Diagnose(s, st) ==
  /\ loading[s]
  /\ status' = [status EXCEPT ![s] = st]
  /\ loading' = [loading EXCEPT ![s] = FALSE]
  /\ UNCHANGED <<files, signature, knownMissing>>

Validates(s) == present[s] /\ published[s].kind \in Loadable

\* The loader reads what is in place now, which may be newer than the stat.
LoadValid(s) ==
  /\ Validates(s)
  /\ Diagnose(s, "current")
  /\ value' = [value EXCEPT ![s] = published[s]]

\* slip: the exception is swallowed and the diagnostic stays as it was
LoadRaisesSilently(s) ==
  /\ Diagnose(s, status[s])
  /\ UNCHANGED value

\* The loader raises: the content is not valid, or reading it failed (it went
\* away after exists(), or the device reported an error).
LoadRaises(s) ==
  /\ Diagnose(s, "invalid")
  /\ UNCHANGED value

\* slip: the candidate None replaces the value
LoadAdoptsNone(s) ==
  /\ ~present[s]
  /\ Diagnose(s, "missing")
  /\ value' = [value EXCEPT ![s] = Nothing]

\* The loader finds no file and returns None.
LoadFindsNone(s) ==
  /\ ~present[s]
  /\ Diagnose(s, "missing")
  /\ UNCHANGED value

Refresh(s) ==
  \/ StatMissing(s, FALSE)
  \/ StatChanged(s, FALSE)
  \/ LoadValid(s)
  \/ LoadRaises(s)
  \/ LoadFindsNone(s)

Next ==
  \E s \in Stores : Publish(s) \/ Withdraw(s) \/ Restore(s) \/ Refresh(s)

Spec == Init /\ [][Next]_vars

\* Requests keep coming (the container's health check polls every 15 seconds
\* and every request refreshes every store), and a refresh runs to its end.
FairSpec == Spec /\ \A s \in Stores : WF_vars(Refresh(s))
-----------------------------------------------------------------------------
(***************************************************************************)
(* The diagnostic /api/v1/system shows is honest: a store reported current *)
(* whose file still has the remembered signature holds that file's         *)
(* content, although the file may change between the stat and the load of  *)
(* any refresh.  It is also why an unchanged signature may be skipped.     *)
(***************************************************************************)
HonestStatus ==
  \A s \in Stores :
    ~loading[s] /\ status[s] = "current" =>
      /\ value[s] # Nothing
      /\ signature[s] = published[s].n => value[s] = published[s]

Settled(s) == present[s] /\ published[s].kind \in Loadable

(***************************************************************************)
(* A valid file that stays in place is either served for ever or the       *)
(* diagnostic keeps saying that it is not: staleness is never silent.      *)
(***************************************************************************)
VisibleOrReported ==
  \A s \in Stores : <>[]Settled(s) =>
    \/ <>[](value[s] = published[s])
    \/ <>[](status[s] # "current")

(***************************************************************************)
(* When the files stop changing, so do the reloads: requests do not parse  *)
(* snapshots and rebuild the agents again and again.                       *)
(***************************************************************************)
Quiesces == <>[][UNCHANGED files]_files => <>[](\A s \in Stores : ~loading[s])

Served == INSTANCE LastKnownGood WITH held <- value

\* ReloadingSnapshot implements the last-known-good store of the API.
ImplementsLastKnownGood == Served!Spec
-----------------------------------------------------------------------------
\* Why HonestStatus is inductive: nothing is ahead of the publications, and
\* what a finished refresh read is at least as new as what it had seen.
SnapshotOrder(s) ==
  /\ signature[s] <= published[s].n
  /\ value[s].n <= published[s].n
  /\ value[s].n = published[s].n => value[s] = published[s]
  /\ status[s] = "current" => value[s] # Nothing
  /\ status[s] = "current" /\ ~loading[s] => signature[s] <= value[s].n

Inv == TypeOK /\ \A s \in Stores : SnapshotOrder(s)
=============================================================================
