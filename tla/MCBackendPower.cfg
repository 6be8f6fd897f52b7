SPECIFICATION BackendSpec
CONSTANTS
    Parts = {"late"}
    Functions <- MCFunctions
    Inputs = {0, 1, 2, 96}
    Fuel = 60
    Allocated <- Power
    LateInputs = {1, 2, 5}
    Code <- MCCode
    Main = "main"
    Val <- MCVal
    MaxDepth = 3
INVARIANT PowerComputed
CHECK_DEADLOCK FALSE
