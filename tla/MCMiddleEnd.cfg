SPECIFICATION Spec
CONSTANTS
    Labels = {"L"}
    SimpleKinds = {"assign"}
    DroppedKinds = {"while"}
    MaxStatements = 4
    MaxDepth = 3
    MaxCases = 1
    WordBits = 4
    Fuel = 3
    StatementMenu <- MCStatementMenu
    MaxBody = 3
    Variables = {"a", "b", "c", "g"}
    Inputs <- MCInputs
CHECK_DEADLOCK FALSE
INVARIANTS
    FlowExact
    PassesPreserve
    
