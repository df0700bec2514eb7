--------------------------- MODULE LastKnownGood ---------------------------
(***************************************************************************)
(* What the API relies on when it serves persisted state (runtime/reload): *)
(* for every store, the value it holds is replaced only by the publication *)
(* that is in place and loads at that moment.  A missing or broken file,   *)
(* for whatever reason and in whatever order, takes nothing away.          *)
(***************************************************************************)
EXTENDS Naturals

CONSTANTS Stores, Loadable

Nothing == [n |-> 0, kind |-> "none"]
Kinds == Loadable \cup {"invalid"}

VARIABLES published, present, held

vars == <<published, present, held>>

Init ==
  /\ published = [s \in Stores |-> Nothing]
  /\ present = [s \in Stores |-> FALSE]
  /\ held = [s \in Stores |-> Nothing]

Publish(s) ==
  /\ \E k \in Kinds :
       published' = [published EXCEPT ![s] = [n |-> @.n + 1, kind |-> k]]
  /\ present' = [present EXCEPT ![s] = TRUE]
  /\ UNCHANGED held

ComeOrGo(s) ==
  /\ present' = [present EXCEPT ![s] = ~@]
  /\ UNCHANGED <<published, held>>

Adopt(s) ==
  /\ present[s]
  /\ published[s].kind \in Loadable
  /\ held' = [held EXCEPT ![s] = published[s]]
  /\ UNCHANGED <<published, present>>

Next == \E s \in Stores : Publish(s) \/ ComeOrGo(s) \/ Adopt(s)

Spec == Init /\ [][Next]_vars
=============================================================================
