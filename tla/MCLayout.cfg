SPECIFICATION Spec
CONSTANTS
  Block = {b1, b2}
  Inst = {i1, i2, i3, i4}
  None = None
INVARIANT Linked
PROPERTY ImplementsLayoutSeq
CHECK_DEADLOCK FALSE
