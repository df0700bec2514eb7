SPECIFICATION FairSpec
CONSTANTS
  Records = {"a", "b", "c", "d", "e"}
  Sources = {"x", "y"}
  Depends <- Diamond
  Handled = {"a", "b", "c", "d"}
  Candidates <- Returned
INVARIANTS NothingCurrentOnBlocked NoInputStillToCome
PROPERTY Terminates
CHECK_DEADLOCK FALSE
