SPECIFICATION Spec
CONSTANTS
    Parts = {"imports", "structs", "bindings", "statements"}
    Inputs <- MCInputs
    Programs <- MCPrograms
    Sources <- MCSources
    TypeOf <- MCTypeOf
    MaxPasses = 2
    Functions <- MCFunctions
INVARIANTS
    AcceptedRight
    InfiniteFound
    ScopesRespected
    ReadsLastWrite
    SameTrace
PROPERTIES
    Ends
    OffsetsSettle
CHECK_DEADLOCK FALSE
