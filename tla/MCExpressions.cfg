SPECIFICATION Spec
CONSTANTS
    Parts = {"types", "resolve", "code", "fold"}
    TypeInputs <- MCTypeInputs
    TypeEnv <- MCTypeEnv
    TypeFields <- MCTypeFields
    ResolveInputs <- MCResolveInputs
    CodeInputs <- MCCodeInputs
    CallEnv <- MCCallEnv
    CallFields <- MCCallFields
    Library <- MCLibrary
    External <- MCExternal
    W = 3
    MaxExp = 5
    ExpBits = 2
    MinusBits = 12
    Exprs <- MCExprs
INVARIANTS
    CodeMatchesType
    LiteralPlaced
    FoldedIsComputed
    FirstFit
    CallHasCode
CHECK_DEADLOCK FALSE
