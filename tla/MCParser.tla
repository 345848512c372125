------------------------------- MODULE MCParser -----------------------------
(***************************************************************************)
(* The parts of the schema parser, each on inputs of its own and by itself:*)
(* the lexer on short texts, one message body, one enum body, one file,    *)
(* and the pool with the tree of a ParsedProto.  A behaviour runs one      *)
(* part; the others stay as they are.                                      *)
(***************************************************************************)
EXTENDS Defaults, StringPool, EnumBody, MessageBody, ProtoFile, TLC

CONSTANT
    Parts           \* the parts to run

VARIABLE
    part

Lexed == INSTANCE LexerInputs
Messages == INSTANCE MessageInputs
Enums == INSTANCE EnumInputs
Files == INSTANCE FileInputs

ASSUME EnumStatementsAssumption == StatementsTyped

ASSUME MessageStatementsAssumption ==
    \A s \in Messages!Conflicting \cup Messages!SingleFields : WellFormed(s)

ASSUME FileStatementsAssumption ==
    \A s \in Files!Scoped \cup Files!Every : NamesFrom({"A", "B", "p"}, s)

ShortTexts == Lexed!ShortTexts
MessageBodies(before) == Messages!Bodies(before)
DeclaredTypes == Messages!Types
EntryNames == Messages!Entries
Word32 == Messages!Pow32
Word64 == Messages!Pow64
EnumBodies == Enums!Conflicting
SmallFiles(before) == Files!Files(before)

(* The message as it would be if every imported type were an enum.         *)
ImportsAsEnums == INSTANCE MessageBody WITH LocalTypes <- LocalTypes @@ ("Imported" :> "enum")

(* Strings for blocks of 4 and 8 characters: empty, short, long enough to  *)
(* end a block, to fill one exactly and to exceed the largest.             *)
SomeTexts == {<<>>, <<"a">>, <<"b", "a">>, <<"a", "b", "b">>,
              <<"b", "b", "a", "a", "b", "a", "b">>,
              <<"a", "a", "b", "b", "a", "b", "b", "a", "a">>}

parserVars == <<messageVars, enumVars, fileVars>>

Init ==
    /\ part \in Parts
    /\ LexerInitWith(IF part = "lexer" THEN Sources ELSE {<<>>})
    /\ MessageInit /\ (part = "message" \/ message_syntax = "proto2")
    /\ EnumInit /\ (part = "enum" \/ enum_syntax = "proto2")
    /\ FileInit
    /\ PoolInit

Next ==
    \/ /\ part = "lexer" /\ LexerNext
       /\ UNCHANGED <<part, parserVars, poolVars>>
    \/ /\ part = "message" /\ MessageNext
       /\ UNCHANGED <<part, lexerVars, enumVars, fileVars, poolVars>>
    \/ /\ part = "enum" /\ EnumNext
       /\ UNCHANGED <<part, lexerVars, messageVars, fileVars, poolVars>>
    \/ /\ part = "file" /\ FileNext
       /\ UNCHANGED <<part, lexerVars, messageVars, enumVars, poolVars>>
    \/ /\ part = "pool" /\ PoolNext
       /\ UNCHANGED <<part, lexerVars, parserVars>>

Spec == Init /\ [][Next]_<<part, lexerVars, parserVars, poolVars>>

-----------------------------------------------------------------------------
(* The documented treatment of a type that is not declared in the file: it *)
(* is a warning, and stops code generation only.  A message that is legal  *)
(* when the imported type is an enum is not rejected.                      *)
ImportedTypesOnlyWarn == message_status = "rejected" => ~ImportsAsEnums!Rules
=============================================================================
