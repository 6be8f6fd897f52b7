SPECIFICATION Spec
CONSTANTS
  v = v
  w = w
  Block <- MCBlock
  Reg = {v, w}
  NoPred = NoPred
  Functions <- MCFunctions
INVARIANTS
  LiveOutHasRange
  Sound
  Exact
  FirstPhiInputLiveOut
PROPERTY Terminates
