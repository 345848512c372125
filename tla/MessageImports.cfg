SPECIFICATION Spec
CONSTANTS
    Parts = {"message"}
    INT32_MAX = 3
    Sources <- ShortTexts
    UINT64_MAX = 255
    MaxEnumStatements = 4
    EnumStatements <- EnumBodies
    MessageStatements <- MessageBodies
    LocalTypes <- DeclaredTypes
    CamelCase <- EntryNames
    U32 <- Word32
    U64 <- Word64
    FileStatements <- SmallFiles
    FirstBlock = 4
    MaxBlock = 8
    Texts <- SomeTexts
    Char = {"a", "b"}
    NUL = NUL
    Junk = Junk
    MaxViews = 5
INVARIANTS
    ImportedTypesOnlyWarn
CHECK_DEADLOCK FALSE
