---------------------- MODULE DerivationExecutorProofs ----------------------
(***************************************************************************)
(* Proofs about DerivationExecutor, for every acyclic graph of records,    *)
(* every set of handlers and everything they may return.                   *)
(***************************************************************************)
EXTENDS DerivationExecutor, TLAPS

\* affected_order: whatever depends on an affected record is affected.
LEMMA AffectedIsClosed ==
  ASSUME NEW changed, NEW r \in Records,
         Depends[r] \cap Affected(changed) # {}
  PROVE  r \in Affected(changed)
<1>1. PICK d \in Depends[r] : d \in Affected(changed)
  OBVIOUS
<1>2. ASSUME NEW X \in SUBSET Records, ClosedUnder(X, changed)
      PROVE  r \in X
  <2>1. d \in X
    BY <1>1, <1>2 DEF Affected
  <2>2. Depends[r] \cap (changed \cup X) # {}
    BY <2>1, <1>1
  <2> QED
    BY <1>2, <2>2 DEF ClosedUnder
<1> QED
  BY <1>2 DEF Affected

\* No record is an input of itself.
LEMMA NoSelfInput ==
  ASSUME NEW r \in Records
  PROVE  r \notin Depends[r]
<1>1. {r} \in (SUBSET Records) \ {{}}
  OBVIOUS
<1>2. \E s \in {r} : Depends[s] \cap {r} = {}
  BY <1>1, ExecutorAssumption
<1> QED
  BY <1>2

\* A working copy that is saved, or taken over from what is saved, with the
\* loop at rest is honest everywhere.
LEMMA InitInv == Init => Inv
<1> SUFFICES ASSUME Init PROVE Inv
  OBVIOUS
<1>1. TypeOK
  BY ExecutorAssumption DEF Init, TypeOK
<1>2. \A r \in Records : Honest(saved, r)
  <2> SUFFICES ASSUME NEW r \in Records, NEW d \in Depends[r] \cap Records,
                      saved[d].status \in Blocking
               PROVE  FALSE
    BY DEF Honest
  <2>1. saved[d].status = "valid"
    BY DEF Init
  <2> QED
    BY <2>1 DEF Blocking
<1>3. records = saved /\ todo = {}
  BY DEF Init
<1> QED
  BY <1>1, <1>2, <1>3 DEF Inv, NothingCurrentOnBlocked, NoInputStillToCome

\* recompute starts: the records outside of the affected set have no affected
\* input, and are as they were saved.
LEMMA BeginInv ==
  ASSUME Inv, NEW changed, Begin(changed)
  PROVE  Inv'
<1>1. todo' = Affected(changed) /\ records = saved
      /\ saved' = saved /\ records' = records
  BY DEF Begin
<1>2. TypeOK'
  BY <1>1 DEF Inv, TypeOK, Affected
<1>3. NothingCurrentOnBlocked'
  BY <1>1 DEF Inv, NothingCurrentOnBlocked, Honest
<1>4. NoInputStillToCome'
  BY <1>1, AffectedIsClosed DEF NoInputStillToCome
<1>5. (\A r \in Records \ todo : Honest(records, r))'
  BY <1>1 DEF Inv, NothingCurrentOnBlocked, Honest
<1> QED
  BY <1>2, <1>3, <1>4, <1>5 DEF Inv

\* One record is dealt with: the records behind the loop do not depend on it,
\* so they stay honest, and its own result is honest if it is unavailable or
\* none of its inputs blocks.
LEMMA ResultInv ==
  ASSUME Inv,
         NEW q \in Records, InOrder(q),
         NEW status \in Statuses, NEW freshness \in Freshnesses,
         Result(q, status, freshness),
         \/ ~Blocked(q)
         \/ status = "unavailable" /\ freshness = "unavailable"
  PROVE  Inv'
<1> DEFINE new == [status |-> status, freshness |-> freshness]
<1>1. /\ records' = [records EXCEPT ![q] = new]
      /\ todo' = todo \ {q}
      /\ saved' = saved
      /\ q \in todo /\ Depends[q] \cap todo = {}
  BY DEF Result, InOrder
<1>2. TypeOK'
  <2>1. new \in Record
    BY DEF Record
  <2> QED
    BY <1>1, <2>1 DEF Inv, TypeOK
<1>3. NothingCurrentOnBlocked'
  BY <1>1 DEF Inv, NothingCurrentOnBlocked, Honest
<1>4. NoInputStillToCome'
  BY <1>1 DEF Inv, NoInputStillToCome
<1>5. ASSUME NEW r \in Records \ todo'
      PROVE  Honest(records, r)'
  <2>1. q \notin Depends[r]
    BY <1>1, NoSelfInput DEF Inv, NoInputStillToCome
  <2>2. \A d \in Depends[r] \cap Records : records'[d] = records[d]
    BY <1>1, <2>1 DEF Inv, TypeOK
  <2>3. CASE r = q
    <3>1. records'[q] = new
      BY <1>1 DEF Inv, TypeOK
    <3>2. CASE ~Blocked(q)
      BY <2>2, <2>3, <3>2 DEF Blocked, Honest
    <3>3. CASE status = "unavailable" /\ freshness = "unavailable"
      BY <2>3, <3>1, <3>3 DEF Honest
    <3> QED
      BY <3>2, <3>3
  <2>4. CASE r # q
    <3>1. records'[r] = records[r]
      BY <1>1, <2>4 DEF Inv, TypeOK
    <3>2. Honest(records, r)
      BY <1>1, <2>4 DEF Inv
    <3> QED
      BY <2>2, <3>1, <3>2 DEF Honest
  <2> QED
    BY <2>3, <2>4
<1> QED
  BY <1>2, <1>3, <1>4, <1>5 DEF Inv

LEMMA ExecuteInv ==
  ASSUME Inv, NEW q \in Records, Execute(q)
  PROVE  Inv'
<1>1. CASE MarkUnavailable(q)
  BY <1>1, ResultInv DEF MarkUnavailable, Statuses, Freshnesses
<1>2. CASE MissingHandler(q)
  BY <1>2, ResultInv DEF MissingHandler, Statuses, Freshnesses
<1>3. CASE Recomputed(q)
  <2>1. PICK c \in Candidates : Result(q, c.status, c.freshness)
    BY <1>3 DEF Recomputed
  <2>2. c.status \in Statuses /\ c.freshness \in Freshnesses
    BY ExecutorAssumption DEF Record
  <2>3. InOrder(q) /\ ~Blocked(q)
    BY <1>3 DEF Recomputed
  <2> QED
    BY <2>1, <2>2, <2>3, ResultInv
<1>4. CASE HandlerFails(q)
  BY <1>4, ResultInv DEF HandlerFails, Statuses, Freshnesses
<1> QED
  BY <1>1, <1>2, <1>3, <1>4 DEF Execute

LEMMA SaveInv == Inv /\ Save => Inv'
  BY DEF Save, Inv, TypeOK, NothingCurrentOnBlocked, NoInputStillToCome, Honest

LEMMA CrashInv == Inv /\ Crash => Inv'
  BY DEF Crash, Inv, TypeOK, NothingCurrentOnBlocked, NoInputStillToCome, Honest

LEMMA StepInv == Inv /\ [Next]_vars => Inv'
<1> SUFFICES ASSUME Inv, [Next]_vars PROVE Inv'
  OBVIOUS
<1>1. CASE \E changed \in SUBSET (Records \cup Sources) : Begin(changed)
  BY <1>1, BeginInv
<1>2. CASE \E r \in Records : Execute(r)
  BY <1>2, ExecuteInv
<1>3. CASE Save
  BY <1>3, SaveInv
<1>4. CASE Crash
  BY <1>4, CrashInv
<1>5. CASE UNCHANGED vars
  BY <1>5 DEF vars, Inv, TypeOK, NothingCurrentOnBlocked, NoInputStillToCome, Honest
<1> QED
  BY <1>1, <1>2, <1>3, <1>4, <1>5 DEF Next

(***************************************************************************)
(* The inductive invariant of the executor.                                *)
(***************************************************************************)
THEOREM Invariance == Spec => []Inv
  BY InitInv, StepInv, PTL DEF Spec

(***************************************************************************)
(* The executor keeps exactly one well-formed record for every id: nothing *)
(* is lost or invented by a recomputation, a failure or a crash.           *)
(***************************************************************************)
THEOREM TypeCorrectness == Spec => []TypeOK
<1>1. Inv => TypeOK
  BY DEF Inv
<1> QED
  BY <1>1, Invariance, PTL

(***************************************************************************)
(* execution.py: downstream products are marked unavailable rather than    *)
(* presented as current, on every graph and after every history.           *)
(***************************************************************************)
THEOREM Honesty == Spec => []NothingCurrentOnBlocked
<1>1. Inv => NothingCurrentOnBlocked
  BY DEF Inv
<1> QED
  BY <1>1, Invariance, PTL

(***************************************************************************)
(* execution.py: affected products only, inputs before their consumers.    *)
(***************************************************************************)
THEOREM DependencyOrder == Spec => []NoInputStillToCome
<1>1. Inv => NoInputStillToCome
  BY DEF Inv
<1> QED
  BY <1>1, Invariance, PTL

(***************************************************************************)
(* The loop is never stuck: some affected record may always go next, and   *)
(* whatever it depends on is settled.  The safety half of Terminates.      *)
(***************************************************************************)
THEOREM LoopNeverStuck ==
  ASSUME TypeOK, todo # {}
  PROVE  \E r \in Records : InOrder(r)
<1>1. todo \in (SUBSET Records) \ {{}}
  BY DEF TypeOK
<1>2. PICK r \in todo : Depends[r] \cap todo = {}
  BY <1>1, ExecutorAssumption
<1> QED
  BY <1>1, <1>2 DEF InOrder

(***************************************************************************)
(* Where no record is an input of a record, as for the products of         *)
(* runtime/derived_products.py, the affected records are those that name a *)
(* changed input, and nothing ever blocks them: what DerivedProducts takes *)
(* a recomputation to be.                                                  *)
(***************************************************************************)
THEOREM FlatGraph ==
  ASSUME \A r \in Records : Depends[r] \subseteq Sources,
         NEW changed \in SUBSET Sources
  PROVE  /\ Affected(changed) = DirectlyAffected(changed)
         /\ \A r \in Records : ~Blocked(r)
<1>1. ClosedUnder(DirectlyAffected(changed), changed)
  BY ExecutorAssumption DEF ClosedUnder, DirectlyAffected
<1>2. DirectlyAffected(changed) \in SUBSET Records
  BY DEF DirectlyAffected
<1>3. Affected(changed) \subseteq DirectlyAffected(changed)
  BY <1>1, <1>2 DEF Affected
<1>4. DirectlyAffected(changed) \subseteq Affected(changed)
  BY DEF Affected, DirectlyAffected, ClosedUnder
<1>5. \A r \in Records : ~Blocked(r)
  BY ExecutorAssumption DEF Blocked
<1> QED
  BY <1>3, <1>4, <1>5

(***************************************************************************)
(* shared/dependencies.py, affected_order: which topological order is      *)
(* taken makes no difference.  Of two records that may both go next the    *)
(* one that does leaves the other as it was, still next, and with inputs   *)
(* that block it or not as before.                                         *)
(***************************************************************************)
OrderIrrelevant ==
  [][\A q, r \in Records : q # r /\ Execute(q) /\ InOrder(r) =>
       /\ records'[r] = records[r]
       /\ InOrder(r)'
       /\ \A d \in Depends[r] \cap Records : records'[d] = records[d]
       /\ Blocked(r)' <=> Blocked(r)]_vars

THEOREM AnyOrder == Spec => OrderIrrelevant
<1>1. ASSUME TypeOK, NEW q \in Records, NEW r \in Records, q # r,
             Execute(q), InOrder(r)
      PROVE  /\ records'[r] = records[r]
             /\ InOrder(r)'
             /\ \A d \in Depends[r] \cap Records : records'[d] = records[d]
             /\ Blocked(r)' <=> Blocked(r)
  <2>1. PICK status, freshness : Result(q, status, freshness) /\ q \in todo
    BY <1>1 DEF Execute, MarkUnavailable, MissingHandler, Recomputed, HandlerFails, InOrder
  <2>2. q \notin Depends[r]
    BY <1>1, <2>1 DEF InOrder
  <2>3. \A d \in Records \ {q} : records'[d] = records[d]
    BY <1>1, <2>1 DEF Result, TypeOK
  <2>4. InOrder(r)'
    BY <1>1, <2>1 DEF InOrder, Result
  <2>5. \A d \in Depends[r] \cap Records : records'[d] = records[d]
    BY <2>2, <2>3
  <2> QED
    BY <1>1, <2>3, <2>4, <2>5 DEF Blocked
<1>2. TypeOK /\ [Next]_vars =>
        [\A q, r \in Records : q # r /\ Execute(q) /\ InOrder(r) =>
           /\ records'[r] = records[r]
           /\ InOrder(r)'
           /\ \A d \in Depends[r] \cap Records : records'[d] = records[d]
           /\ Blocked(r)' <=> Blocked(r)]_vars
  BY <1>1
<1> QED
  BY <1>2, TypeCorrectness, PTL DEF Spec, OrderIrrelevant
=============================================================================
