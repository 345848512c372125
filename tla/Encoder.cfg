SPECIFICATION Spec
CONSTANTS
    Base = 2
    SIZE32 = 2
    SIZE64 = 4
    MAX_VARINT_SIZE = 8
    MAX_LENGTH_CODE_SIZE = 4
    FIELDNUM_SCALE = 8
    FieldNums = {1, 2}
    Scalars <- SomeScalars
    ByteArrays <- SomeByteArrays
    Addresses = {1000, 5000}
    MaxPos = 12
    MaxDepth = 2
INVARIANTS
    TypeOK
    PointersInBuffer
    FramesNested
PROPERTIES
    WrittenStays
    ImplementsWireLog
