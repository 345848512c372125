SPECIFICATION FairSpec
CONSTANTS
    CommandLines <- Lines
    NumberOf <- Numbers
    PbsNames <- Pbs
    Placeholders <- Templates
    MIN_BENCHMARK = 1
    Contents <- ContentsOf
    MAX_CLOCK = 1
    MAX_ELAPSED = 3
    MAX_ROUNDS = 2
INVARIANTS
    TypeOK
    EachArgumentReadOnce
    GeneratedCodeCompiles
    OutputIsFilesInOrder
    MeasuresParsing
PROPERTIES
    Ends
CHECK_DEADLOCK FALSE
