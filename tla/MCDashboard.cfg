CONSTANTS
  None = None
  p1 = p1
  p2 = p2
  m1 = m1
  m2 = m2
  PollSlots = {p1, p2}
  MapSlots = {m1, m2}
  Parts = {"system", "agents"}
  MaxVersion = 2
  MaxFailures = 1
  Limit = 1
  References <- MCReferences
  Views <- MCViews
  Home <- Near
SPECIFICATION Spec
INVARIANTS
  MapOfView
  VisibleOrTruncated
  AsNewAsToken
PROPERTIES
  CatchesUp
