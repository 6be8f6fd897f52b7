SPECIFICATION Spec
CONSTANTS
    Parts = {"statements"}
    Inputs <- MCInputs
    Programs <- MCPrograms
    Sources <- MCSources
    TypeOf <- MCTypeOf
    MaxPasses = 2
    Functions <- AfterDoFunctions
INVARIANT SameTrace
CHECK_DEADLOCK FALSE
