SPECIFICATION Spec
CONSTANTS
    VARIABLE_REGS <- MCVariableRegs
    SCRATCH_REGS <- MCScratchRegs
    X19 = "X19"
    X28 = "X28"
    NoReg = ""
    Vars = {"a", "b", "c"}
INVARIANTS
    TypeOK
    MapExact
    LruExact
    LentPinned
    NoLostUpdate
    UndefinedOnlyIfAllLent
