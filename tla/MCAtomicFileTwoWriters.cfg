SPECIFICATION Spec
CONSTANTS
  Writers = {w1, w2}
  Readers = {}
  Inodes = {i1, i2}
  Values = {v1, v2}
  Blocks = 2
  None = None
SYMMETRY Symmetry
INVARIANT TargetNeverTorn
CHECK_DEADLOCK FALSE
