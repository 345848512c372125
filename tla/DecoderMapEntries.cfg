SPECIFICATION Spec
CONSTANTS
    Base = 8
    SIZE32 = 2
    SIZE64 = 4
    MAX_VARINT_SIZE = 6
    MAX_LENGTH_CODE_SIZE = 3
    FIELDNUM_SCALE = 8
    Schema <- OneOfEach
    Root = "M"
    Inputs <- NextInputs
    MaxCalls = 1
    Buffers <- SomeInputs
    Strings = {}
INVARIANTS
    MapEntriesInserted
CHECK_DEADLOCK FALSE
