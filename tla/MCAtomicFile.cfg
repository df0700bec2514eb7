SPECIFICATION Spec
CONSTANTS
  Writers = {w1}
  Readers = {r1}
  Inodes = {i1, i2, i3}
  Values = {v1, v2}
  Blocks = 2
  None = None
SYMMETRY Symmetry
INVARIANTS TargetNeverTorn ReadersSeeOneText
PROPERTY ImplementsRegister
CHECK_DEADLOCK FALSE
