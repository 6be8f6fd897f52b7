SPECIFICATION Spec
CONSTANTS
  NumPhys = 10
  Gpr <- MCGpr
  Csr <- MCCsr
  CalleeSaved <- MCCalleeSaved
  Functions <- SubUnderPressure
  MaxVReg = 60
  MaxPoint = 4194304
INVARIANT Preserved
