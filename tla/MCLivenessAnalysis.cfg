SPECIFICATION FairSpec
CONSTANTS
    Blocks = {"a", "b", "c"}
    Functions = {"F", "G"}
    Vars = {"x", "y"}
    Programs <- MCPrograms
    NoBlock = "none"
INVARIANTS
    TypeOK
    UseDefExact
    Solved
    Least
    LivenessExact
    BoundaryPressure
PROPERTIES
    InSetsGrow
    Terminates
