------------------------- MODULE DerivationExecutor -------------------------
(***************************************************************************)
(* knowledge/execution.py: DerivationExecutor.recompute over the graph of  *)
(* shared/dependencies.py, with the persisted DerivedState around it.      *)
(*                                                                         *)
(* A record keeps what decides how it is presented, its status and its     *)
(* freshness; value, times and provenance are left out.  The handlers of   *)
(* this program preserve the inputs of a record that are records, so the   *)
(* graph between records is a constant.  affected_order is any topological *)
(* order: the loop takes any affected record whose own affected inputs     *)
(* have been dealt with.                                                   *)
(* Definitions marked "slip" are wrong variants of the one that follows.   *)
(***************************************************************************)
EXTENDS FiniteSets, Naturals

CONSTANTS
  Records,     \* ids of the derived records
  Sources,     \* ids of inputs that are no records
  Depends,     \* Depends[r]: the ids of the inputs of record r
  Handled,     \* the records whose definition has a handler
  Candidates   \* what handlers return: pairs of a status and a freshness

Statuses == {"valid", "stale", "recomputing", "failed", "unavailable"}
Freshnesses == {"valid", "stale", "unknown", "unavailable"}
Record == [status : Statuses, freshness : Freshnesses]

\* add_derivation refuses a record without inputs and one that closes a cycle:
\* every set of records has one that depends on no other of the set.
ASSUME ExecutorAssumption ==
  /\ Records \cap Sources = {}
  /\ Depends \in [Records -> (SUBSET (Records \cup Sources)) \ {{}}]
  /\ \A S \in (SUBSET Records) \ {{}} : \E r \in S : Depends[r] \cap S = {}
  /\ Handled \subseteq Records
  /\ Candidates \subseteq Record

VARIABLES
  saved,     \* the DerivedState of the store
  records,   \* the working copy of recompute
  todo       \* the affected records the loop has not reached

vars == <<saved, records, todo>>

TypeOK ==
  /\ saved \in [Records -> Record]
  /\ records \in [Records -> Record]
  /\ todo \subseteq Records

Blocking == {"stale", "recomputing", "failed", "unavailable"}

\* The descendants of the changed ids: the least set of records that holds
\* every record with an input that changed or is in the set.
ClosedUnder(X, changed) ==
  \A r \in Records : Depends[r] \cap (changed \cup X) # {} => r \in X

\* slip: only the records that name a changed input, not what builds on them
DirectlyAffected(changed) == {r \in Records : Depends[r] \cap changed # {}}
Affected(changed) ==
  {r \in Records : \A X \in SUBSET Records : ClosedUnder(X, changed) => r \in X}

\* DerivedProductBuilder emits its records valid, whatever their freshness.
Init ==
  /\ saved \in [Records -> {c \in Candidates : c.status = "valid"}]
  /\ records = saved
  /\ todo = {}
-----------------------------------------------------------------------------
\* recompute(changed): the loop runs over the affected records.
Begin(changed) ==
  /\ todo = {}
  /\ records = saved
  /\ todo' = Affected(changed)
  /\ todo' # {}
  /\ UNCHANGED <<saved, records>>

\* slip: the loop waits until every input record is current
InOrderWhenCurrent(r) ==
  r \in todo /\ \A d \in Depends[r] \cap Records : records[d].status = "valid"
\* affected_order: inputs before their consumers.
InOrder(r) == r \in todo /\ Depends[r] \cap todo = {}

\* slip: only a failed input blocks
FailedOnly(r) ==
  \E d \in Depends[r] \cap Records : records[d].status = "failed"
Blocked(r) ==
  \E d \in Depends[r] \cap Records : records[d].status \in Blocking

Result(r, status, freshness) ==
  /\ records' = [records EXCEPT ![r] = [status |-> status, freshness |-> freshness]]
  /\ todo' = todo \ {r}
  /\ UNCHANGED saved

MarkUnavailable(r) ==
  /\ InOrder(r)
  /\ Blocked(r)
  /\ Result(r, "unavailable", "unavailable")

MissingHandler(r) ==
  /\ InOrder(r)
  /\ ~Blocked(r) /\ r \notin Handled
  /\ Result(r, "stale", "stale")

Recomputed(r) ==
  /\ InOrder(r)
  /\ ~Blocked(r) /\ r \in Handled
  /\ \E c \in Candidates : Result(r, c.status, c.freshness)

\* The handler raises, or its candidate is refused.
HandlerFails(r) ==
  /\ InOrder(r)
  /\ ~Blocked(r) /\ r \in Handled
  /\ Result(r, "failed", "stale")

Execute(r) ==
  MarkUnavailable(r) \/ MissingHandler(r) \/ Recomputed(r) \/ HandlerFails(r)

\* The coordinator saves the updated state.
Save ==
  /\ todo = {}
  /\ records # saved
  /\ saved' = records
  /\ UNCHANGED <<records, todo>>

\* The worker dies, and the next one loads what is saved.
Crash ==
  /\ todo # {} \/ records # saved
  /\ records' = saved
  /\ todo' = {}
  /\ UNCHANGED saved

Next ==
  \/ \E changed \in SUBSET (Records \cup Sources) : Begin(changed)
  \/ \E r \in Records : Execute(r)
  \/ Save
  \/ Crash

Spec == Init /\ [][Next]_vars

\* The loop of recompute and the save after it run on unless the worker dies.
FairSpec == Spec /\ WF_vars((\E r \in Records : Execute(r)) \/ Save)
-----------------------------------------------------------------------------
(***************************************************************************)
(* Downstream products are "marked unavailable rather than being presented *)
(* as current": no saved record is anything but unavailable while one of   *)
(* its input records is stale, failed or unavailable, after any sequence   *)
(* of recomputations of different parts of the graph, failures, missing    *)
(* handlers and crashes.                                                   *)
(***************************************************************************)
Honest(state, r) ==
  (\E d \in Depends[r] \cap Records : state[d].status \in Blocking) =>
    state[r] = [status |-> "unavailable", freshness |-> "unavailable"]

NothingCurrentOnBlocked == \A r \in Records : Honest(saved, r)

(***************************************************************************)
(* "Only affected products in dependency order": a record the loop has     *)
(* dealt with, or leaves alone, never builds on a record that this         *)
(* recomputation is still to change.  A change cannot pass a product by,   *)
(* and no product is computed from inputs that are about to be replaced.   *)
(***************************************************************************)
NoInputStillToCome == \A r \in Records \ todo : Depends[r] \cap todo = {}

(***************************************************************************)
(* Every recomputation ends although handlers fail or are missing: the     *)
(* affected order never runs out of records that may go next.              *)
(***************************************************************************)
Terminates == todo # {} ~> todo = {}
-----------------------------------------------------------------------------
\* What makes NothingCurrentOnBlocked inductive: what is behind the loop is
\* honest already, and nothing ahead of the loop can change that.
Inv ==
  /\ TypeOK
  /\ NothingCurrentOnBlocked
  /\ NoInputStillToCome
  /\ \A r \in Records \ todo : Honest(records, r)
=============================================================================
