SPECIFICATION Spec
CONSTANTS
    Base = 8
    SIZE32 = 2
    SIZE64 = 4
    MAX_VARINT_SIZE = 6
    MAX_LENGTH_CODE_SIZE = 3
    FIELDNUM_SCALE = 8
    Versions <- Files
    Root = "M"
    Objects <- ObjectsOf
    Damaged <- CutOrOverwritten
    MaxVersions = 3
    Addresses = {0}
    MaxPos = 500
    MaxDepth = 3
INVARIANTS
    ArrivesAsMeant
PROPERTIES
    CallsEnd
