SPECIFICATION Spec
CONSTANTS
    Parts = {"tree", "pass"}
    N = 4
    Graphs <- AllGraphs
    Inputs <- MCInputs
    MaxEvents = 4
    Fuel = 40
INVARIANTS
    IdomExact
    FrontierExact
    SameTrace
    WellFormed
CHECK_DEADLOCK FALSE
