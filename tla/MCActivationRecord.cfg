SPECIFICATION Spec
CONSTANTS
    EXTENDED_VARIABLE_REGS <- MCExtended
    Names = {"a", "X20"}
    NoOffset <- MCNoOffset
    StpLimit = 96
    MaxLive = 4
    CallerWords = 3
INVARIANTS
    TypeOK
    SlotsDisjoint
    InsideFrame
    RegistersRestored
    CallerFrameIntact
    NoFalseAlarm
