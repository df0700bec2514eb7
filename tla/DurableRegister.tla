-------------------------- MODULE DurableRegister --------------------------
(***************************************************************************)
(* What atomic_write_text (runtime/atomic.py) promises to the stores that  *)
(* call it: the target is a register that always holds one whole text.  A  *)
(* replacement becomes visible in one step; it may or may not outlive a    *)
(* host failure until the containing directory has been committed; and a   *)
(* host failure falls back to some text that was visible since the last    *)
(* commit, never to a mixture.                                             *)
(***************************************************************************)
CONSTANTS Values, None

VARIABLES
  value,      \* the text a reader of the target sees, None when absent
  surviving   \* the texts a host failure at this moment may leave behind

vars == <<value, surviving>>

TypeOK ==
  /\ value \in Values \cup {None}
  /\ surviving \in SUBSET (Values \cup {None})

Init ==
  /\ value = None
  /\ surviving = {None}

Replace(v) ==
  /\ value' = v
  /\ surviving' = surviving \cup {v}

Commit ==
  /\ surviving' = {value}
  /\ UNCHANGED value

HostFailure ==
  \E v \in surviving :
    /\ value' = v
    /\ surviving' = {v}

Next ==
  \/ \E v \in Values : Replace(v)
  \/ Commit
  \/ HostFailure

Spec == Init /\ [][Next]_vars
=============================================================================
