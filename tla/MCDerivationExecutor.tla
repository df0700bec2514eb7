------------------------ MODULE MCDerivationExecutor ------------------------
(***************************************************************************)
(* b and c build on a, d joins them, e builds on c and has no handler.     *)
(***************************************************************************)
EXTENDS DerivationExecutor

Diamond ==
  [r \in Records |->
    CASE r = "a" -> {"x"}
      [] r = "b" -> {"a"}
      [] r = "c" -> {"a", "y"}
      [] r = "d" -> {"b", "c"}
      [] r = "e" -> {"c"}]

Returned ==
  {[status |-> "valid", freshness |-> "valid"],
   [status |-> "valid", freshness |-> "stale"],
   [status |-> "stale", freshness |-> "stale"]}
=============================================================================
