SPECIFICATION FunctionSpec
CONSTANTS
    VARIABLE_REGS <- MCVariableRegs
    SCRATCH_REGS <- MCScratchRegs
    ARG_REGS <- MCArgRegs
    X19 = "X19"
    X28 = "X28"
    NoReg = ""
    Vars = {}
    NoOffset <- MCNoOffset
    StpLimit = 512
    MaxDepth = 3
    MaxLive = 3
    NumParams = 0
    Calls = FALSE
INVARIANTS
    OperandsIntact
