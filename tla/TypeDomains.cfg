SPECIFICATION Spec
CONSTANTS
    Base = 2
    SIZE32 = 2
    SIZE64 = 4
    MAX_VARINT_SIZE = 8
    MAX_LENGTH_CODE_SIZE = 4
    FIELDNUM_SCALE = 8
    MaxVersions = 2
INVARIANTS
    IntegralsKeepValue
CHECK_DEADLOCK FALSE
