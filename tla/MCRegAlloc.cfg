SPECIFICATION Spec
CONSTANTS
  NumPhys = 10
  Gpr <- MCGpr
  Csr <- MCCsr
  CalleeSaved <- MCCalleeSaved
  Functions <- MCFunctions
  MaxVReg = 60
  MaxPoint = 4194304
INVARIANTS
  NoConflict
  RangesCover
  Preserved
PROPERTY Terminates
