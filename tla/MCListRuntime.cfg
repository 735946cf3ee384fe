SPECIFICATION Spec
CONSTANTS
    INITIAL_FREELIST_CHUNK_SIZE = 2
    HEADER_FREELIST_CHUNK_SIZE = 1
    MaxChunks = 2
    MaxHeaderChunks = 1
    MaxLiterals = 1
    MaxLength = 2
    Ints = {1}
    Strings = {401, 402}
    StaticString = 501
INVARIANTS
    TypeOK
    NodesAccounted
    TailIsLast
    CarefulDefined
PROPERTIES
    ImplementsListSpec
