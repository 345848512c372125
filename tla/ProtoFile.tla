------------------------------ MODULE ProtoFile -----------------------------
(***************************************************************************)
(* The parser on a file: the statements in their order, the messages and   *)
(* enums they declare in nested scopes, and the semantic pass that gives   *)
(* every custom type its fully qualified name.  Type names are looked up   *)
(* at the end of the file only, since a type may be declared, and even the *)
(* package named, after it is used.                                        *)
(*                                                                         *)
(* A name is the sequence of its components.  A field is its type          *)
(* reference; numbers, labels and options are the matter of MessageBody.   *)
(***************************************************************************)
EXTENDS Integers, Sequences, FiniteSets, SequencesExt

CONSTANT
    FileStatements(_)    \* the statements that may follow those read; none beyond the bound

VARIABLES
    syntax,          \* file.syntax; "proto2" when it is absent
    package,         \* file.package, <<>> when it is absent
    types,           \* the messages and enums of the tree: [path, kind, values]
    fields,          \* the fields of the tree: [scope, ref, default, type, type_name]
    imports,         \* how many imports are retained
    warnings,        \* the references warned about with DIAGNOSTIC_UNRESOLVED_TYPE
    scope,           \* the names of the messages being read, outermost first
    seen_syntax, seen_package, seen_statement,
    status,          \* "reading", "accepted" or "rejected"
    read             \* history: the statements read, with the syntax at the time

tree == <<package, types, fields, imports, warnings>>
seen == <<seen_syntax, seen_package, seen_statement>>
fileVars == <<syntax, tree, scope, seen, status, read>>

FileInit ==
    /\ syntax = "proto2"
    /\ package = <<>>
    /\ types = <<>>
    /\ fields = <<>>
    /\ imports = 0
    /\ warnings = {}
    /\ scope = <<>>
    /\ seen_syntax = FALSE /\ seen_package = FALSE /\ seen_statement = FALSE
    /\ status = "reading"
    /\ read = <<>>

-----------------------------------------------------------------------------
(* Statements.                                                             *)

Reading(s) ==
    /\ status = "reading"
    /\ read' = Append(read, [statement |-> s, syntax |-> syntax])

(* A statement other than syntax, at the top level.                        *)
TopLevel(s) ==
    /\ scope = <<>>
    /\ Reading(s)
    /\ seen_statement' = TRUE
    /\ UNCHANGED seen_syntax

(* A statement that may stand in a message too.                            *)
Element(s) ==
    /\ Reading(s)
    /\ seen_statement' = TRUE
    /\ UNCHANGED <<seen_syntax, seen_package>>

Reject ==
    /\ status' = "rejected"
    /\ UNCHANGED <<syntax, tree, scope>>

EmptyStatement(s) ==
    /\ s.kind = "empty"
    /\ Reading(s)
    /\ UNCHANGED <<syntax, tree, scope, seen, status>>

(* Mutant of SyntaxAllowed: the first syntax declaration counts, wherever  *)
(* it stands.                                                              *)
SyntaxAllowedOnce(s) == ~seen_syntax /\ s.value \in {"proto2", "proto3"}

SyntaxAllowed(s) ==
    /\ ~seen_statement /\ ~seen_syntax
    /\ s.value \in {"proto2", "proto3"}

ParseSyntax(s) ==
    /\ s.kind = "syntax"
    /\ scope = <<>>
    /\ Reading(s)
    /\ seen_syntax' = TRUE
    /\ UNCHANGED <<seen_package, seen_statement>>
    /\ IF SyntaxAllowed(s)
       THEN syntax' = s.value /\ UNCHANGED <<tree, scope, status>>
       ELSE Reject

ParsePackage(s) ==
    /\ s.kind = "package"
    /\ TopLevel(s)
    /\ seen_package' = TRUE
    /\ IF ~seen_package
       THEN /\ package' = s.path
            /\ UNCHANGED <<syntax, types, fields, imports, warnings, scope, status>>
       ELSE Reject

ParseImport(s) ==
    /\ s.kind = "import"
    /\ TopLevel(s)
    /\ imports' = imports + 1
    /\ UNCHANGED <<syntax, package, types, fields, warnings, scope, seen_package, status>>

(* Consumed and not retained.                                              *)
ParseOption(s) ==
    /\ s.kind = "option"
    /\ Element(s)
    /\ UNCHANGED <<syntax, tree, scope, status>>

(* The fields of an extend body are parsed and dropped.                    *)
ParseExtend(s) ==
    /\ s.kind = "extend"
    /\ Element(s)
    /\ IF syntax = "proto2"
       THEN UNCHANGED <<syntax, tree, scope, status>>
       ELSE Reject

OpenMessage(s) ==
    /\ s.kind = "message"
    /\ Element(s)
    /\ types' = Append(types, [path |-> Append(scope, s.name), kind |-> "message", values |-> {}])
    /\ scope' = Append(scope, s.name)
    /\ UNCHANGED <<syntax, package, fields, imports, warnings, status>>

ParseEnum(s) ==
    /\ s.kind = "enum"
    /\ Element(s)
    /\ types' = Append(types, [path |-> Append(scope, s.name), kind |-> "enum", values |-> s.values])
    /\ UNCHANGED <<syntax, package, fields, imports, warnings, scope, status>>

(* set_type and apply_default on a custom type.                            *)
ParseField(s) ==
    /\ s.kind = "field"
    /\ scope # <<>>
    /\ Element(s)
    /\ IF s.default = "none" \/ syntax = "proto2"
       THEN /\ fields' = Append(fields, [scope |-> scope, ref |-> s.ref, default |-> s.default,
                                         type |-> "message", type_name |-> <<>>])
            /\ UNCHANGED <<syntax, package, types, imports, warnings, scope, status>>
       ELSE Reject

CloseMessage(s) ==
    /\ s.kind = "end_message"
    /\ scope # <<>>
    /\ Element(s)
    /\ scope' = Front(scope)
    /\ UNCHANGED <<syntax, tree, status>>

(* A service, a field or a brace outside a message, or a statement of the  *)
(* top level inside one.                                                   *)
Unsupported(s) ==
    /\ \/ s.kind = "service"
       \/ scope = <<>> /\ s.kind \in {"field", "end_message"}
       \/ scope # <<>> /\ s.kind \in {"syntax", "package", "import"}
    /\ Element(s)
    /\ Reject

(* The grammar makes a name of components; A is a set of these.            *)
NamesFrom(A, s) ==
    /\ s.kind = "package" => s.path \in Seq(A)
    /\ s.kind \in {"message", "enum"} => s.name \in A
    /\ s.kind = "field" => s.ref.path \in Seq(A)

-----------------------------------------------------------------------------
(* The semantic pass.                                                      *)

FullName(type) == package \o type.path
Symbols == {FullName(types[i]) : i \in DOMAIN types}
KindOf(name) == types[CHOOSE i \in DOMAIN types : FullName(types[i]) = name].kind

Found == [found |-> TRUE, name |-> <<>>]
NotFound == [found |-> FALSE, name |-> <<>>]

(* Mutant of Lookup: the scopes outside the package are not tried.         *)
LookupInPackage(path, from) ==
    LET Try[k \in 0 .. Len(from)] ==
          LET candidate == SubSeq(from, 1, k) \o path
          IN  IF candidate \in Symbols THEN [Found EXCEPT !.name = candidate]
              ELSE IF k <= Len(package) THEN NotFound
              ELSE Try[k - 1]
    IN  Try[Len(from)]

(* A relative name, from the innermost scope to the outermost.             *)
Lookup(path, from) ==
    LET Try[k \in 0 .. Len(from)] ==
          LET candidate == SubSeq(from, 1, k) \o path
          IN  IF candidate \in Symbols THEN [Found EXCEPT !.name = candidate]
              ELSE IF k = 0 THEN NotFound
              ELSE Try[k - 1]
    IN  Try[Len(from)]

(* resolve_name.                                                           *)
ResolveName(ref, from) ==
    IF ~ref.absolute THEN Lookup(ref.path, from)
    ELSE IF ref.path \in Symbols THEN [Found EXCEPT !.name = ref.path]
    ELSE NotFound

Resolution(f) == ResolveName(f.ref, package \o f.scope)

Resolved(f) ==
    LET r == Resolution(f)
    IN  IF r.found THEN [f EXCEPT !.type = KindOf(r.name), !.type_name = r.name] ELSE f

(* What resolve_message and validate_default require of a default.         *)
DefaultResolves(f) ==
    f.default # "none" /\ Resolution(f).found => KindOf(Resolution(f).name) = "enum"

(* add_symbol refuses a second type of the same name.                      *)
SymbolsUnique == IsInjective([i \in DOMAIN types |-> FullName(types[i])])

Accepted == SymbolsUnique /\ \A i \in DOMAIN fields : DefaultResolves(fields[i])

SemanticPass ==
    /\ status = "reading"
    /\ scope = <<>>
    /\ IF Accepted
       THEN /\ status' = "accepted"
            /\ fields' = [i \in DOMAIN fields |-> Resolved(fields[i])]
            /\ warnings' = warnings \cup {[scope |-> f.scope, ref |-> f.ref] :
                                            f \in {g \in ToSet(fields) : ~Resolution(g).found}}
            /\ UNCHANGED <<syntax, package, types, imports, scope>>
       ELSE Reject
    /\ UNCHANGED <<seen, read>>

(* The file ends in a message.                                             *)
Unterminated ==
    /\ scope # <<>>
    /\ status = "reading"
    /\ Reject
    /\ UNCHANGED <<seen, read>>

FileNext ==
    \/ \E s \in FileStatements(read) :
         \/ EmptyStatement(s)
         \/ ParseSyntax(s)
         \/ ParsePackage(s)
         \/ ParseImport(s)
         \/ ParseOption(s)
         \/ ParseExtend(s)
         \/ OpenMessage(s)
         \/ ParseEnum(s)
         \/ ParseField(s)
         \/ CloseMessage(s)
         \/ Unsupported(s)
    \/ SemanticPass
    \/ Unterminated

FileSpec == FileInit /\ [][FileNext]_fileVars

-----------------------------------------------------------------------------
(* Every statement of a file that is not rejected was read, and checked,   *)
(* under the syntax the file turns out to have: the rules that depend on   *)
(* it are applied while it may still be unknown.                           *)
OneSyntax ==
    status # "rejected" =>
        \A i \in DOMAIN read :
            read[i].statement.kind \notin {"syntax", "empty"} => read[i].syntax = syntax

(* The full names of the types that a reference may mean, given the path   *)
(* of the message it stands in: the types whose name is the reference with *)
(* an enclosing scope, possibly none, put before it.                       *)
Meanings(f) ==
    {name \in Symbols :
        IF f.ref.absolute THEN name = f.ref.path
        ELSE /\ IsSuffix(f.ref.path, name)
             /\ IsPrefix(SubSeq(name, 1, Len(name) - Len(f.ref.path)), package \o f.scope)}

(* In an accepted file every reference is bound to the innermost type it   *)
(* may mean, with the kind that type was declared with; a reference is     *)
(* left for the linker, with a warning, exactly if it may mean none.  It   *)
(* makes no difference where in the file type and package are declared.    *)
BoundToInnermost ==
    status = "accepted" =>
        \A i \in DOMAIN fields :
            LET f == fields[i]
                warned == [scope |-> f.scope, ref |-> f.ref] \in warnings
            IN  IF Meanings(f) = {} THEN warned /\ f.type = "message" /\ f.type_name = <<>>
                ELSE /\ ~warned
                     /\ f.type_name \in Meanings(f)
                     /\ \A name \in Meanings(f) : Len(name) <= Len(f.type_name)
                     /\ \E j \in DOMAIN types :
                          package \o types[j].path = f.type_name /\ types[j].kind = f.type

(* The default of an enum field names a value of the enum.                 *)
EnumDefaultsDeclared ==
    status = "accepted" =>
        \A i \in DOMAIN fields :
            fields[i].default # "none" /\ fields[i].type = "enum" =>
                \E j \in DOMAIN types :
                    /\ package \o types[j].path = fields[i].type_name
                    /\ fields[i].default \in types[j].values
=============================================================================
