SPECIFICATION Spec
CHECK_DEADLOCK FALSE
CONSTANTS
    Registers <- McRegisters
    FpRegisters <- McFpRegisters
    BaseRegisters <- McBaseRegisters
    Immediates = {0, 4, 8, 4095, 4096, 32760}
    Conditions = {"LT"}
    ShiftAmounts = {0, 1, 31, 32, 63}
    BitPatterns <- McBitPatterns
    AddressChunks <- McAddressChunks
    Distances <- McDistances
    WindowMenu <- McWindowMenu
    MaxWindow = 3
    RuntimeFunctions <- McRuntimeFunctions
    RuntimeAddress <- McRuntimeAddress
    Upper <- McUpper
    UserRoutines <- McUserRoutines
    Strings <- McStrings
    Floats <- McFloats
    Lists <- McLists
    MaxOps = 2
    CodeBase = 536870912
    DataBase = 1073741824
    MaxPasses = 5
INVARIANTS
    EncodingExact
    RelocationExact
    PeepholeSound
    LinkOutcome
    CallsReach
    LiteralsReadBack
PROPERTIES
    CompileEnds
