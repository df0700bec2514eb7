-------------------------- MODULE MCApiController --------------------------
(***************************************************************************)
(* Instances of ApiController in which some of the five stores change.     *)
(***************************************************************************)
EXTENDS ApiController, Functions

Total(saves) == FoldFunction(+, 0, saves)

\* Up to three publications, of which two may replace a reference or energy
\* state that could not be used.
ThreeSaves ==
  {saves \in [Stores -> 0..2] :
     /\ Total(saves) <= 3
     /\ saves["traffic"] <= 1
     /\ saves["runtime"] = 0 /\ saves["derived"] = 0}

OneReference ==
  {[s \in Stores |-> IF s = "reference" THEN n ELSE 0] : n \in 0..1}
=============================================================================
