SPECIFICATION BackendSpec
CONSTANTS
    Parts = {"select", "late", "frames"}
    Functions <- MCFunctions
    Inputs = {0, 1, 2, 96}
    Fuel = 60
    Allocated <- MCAllocated
    LateInputs = {0, 1, 2, 5}
    Code <- MCCode
    Main = "main"
    Val <- MCVal
    MaxDepth = 3
INVARIANTS
    SameMeaning
    Lowers
    SameRuns
    SlotsKept
    ReturnsHome
CHECK_DEADLOCK FALSE
