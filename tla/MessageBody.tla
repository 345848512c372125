----------------------------- MODULE MessageBody ----------------------------
(***************************************************************************)
(* The parser on the body of one message: each statement is checked when   *)
(* it is read, against what came before it; reserved and extension ranges  *)
(* against the fields at the closing brace; field names, numbers and types *)
(* in the semantic pass at the end of the file.  A rule that relates two   *)
(* statements is thus enforced at one of three times, and has to come out  *)
(* the same in whatever order the statements are written.                  *)
(*                                                                         *)
(* A statement is a record with its parts decoded; a list of ranges or of  *)
(* reserved names is several statements.  Only acceptance is modelled, not *)
(* which diagnostic is issued.                                             *)
(***************************************************************************)
EXTENDS NumberRanges, Sequences, FiniteSets, SequencesExt

CONSTANTS
    MessageStatements(_),    \* the statements that may follow those read; none beyond the bound
    LocalTypes,              \* custom type name -> "message" or "enum", if declared here
    CamelCase,               \* field name -> camel_case(field name)
    U32, U64                 \* 2^32 and 2^64

VARIABLES
    message_syntax,      \* of the file
    message,             \* the descriptor: field, oneof_decl, nested_type, enum_type
    message_reserved,    \* reserved_ranges and reserved_names
    extensions,          \* extension_ranges
    open_oneof,          \* the index of the oneof being read, 0 if none
    message_status,      \* "reading", "closed", "accepted" or "rejected"
    message_read         \* the statements read so far, the last one included

messageVars == <<message_syntax, message, message_reserved, extensions, open_oneof,
                 message_status, message_read>>

-----------------------------------------------------------------------------
(* Types and constants.                                                    *)

Signed == {"int32", "sint32", "sfixed32", "int64", "sint64", "sfixed64"}
Unsigned == {"uint32", "fixed32", "uint64", "fixed64"}
Wide == {"int64", "sint64", "sfixed64", "uint64", "fixed64"}
Builtin == Signed \cup Unsigned \cup {"double", "float", "bool", "string", "bytes"}

MapKeyTypes == Signed \cup Unsigned \cup {"bool", "string"}

(* The type set_type stores at first, and what the semantic pass makes of  *)
(* it: an imported type remains a message.                                 *)
TypeOf(name) ==
    CASE name \in Builtin -> name
      [] name \in DOMAIN LocalTypes -> LocalTypes[name]
      [] OTHER -> "message"

Unresolved(name) == name \notin Builtin \cup DOMAIN LocalTypes

Packable(type) == type \notin {"string", "bytes", "message"}

(* The constants a default may be written as.                              *)
DefaultKinds(name) ==
    CASE name \in {"string", "bytes"} -> {"string"}
      [] name = "bool" -> {"bool"}
      [] name \in {"float", "double"} -> {"integer", "float"}
      [] name \in Signed \cup Unsigned -> {"integer"}
      [] OTHER -> {"identifier"}

(* Mutant of Fits: both signs have the same limit.                         *)
FitsSymmetric(type, c) ==
    LET word == IF type \in Wide THEN U64 ELSE U32
    IN  CASE type \in Unsigned -> c.sign # "-" /\ c.magnitude < word
          [] type \in Signed -> c.magnitude < word \div 2

(* parse_signed_32 and its siblings, on the sign and the magnitude.        *)
Fits(type, c) ==
    LET word == IF type \in Wide THEN U64 ELSE U32
    IN  CASE type \in Unsigned -> c.sign # "-" /\ c.magnitude < word
          [] type \in Signed ->
               IF c.sign = "-" THEN c.magnitude <= word \div 2 ELSE c.magnitude < word \div 2

ValidDefault(name, c) ==
    CASE TypeOf(name) \in Signed \cup Unsigned -> Fits(name, c)
      [] TypeOf(name) = "message" -> Unresolved(name)
      [] OTHER -> TRUE

(* Field numbers, and the ends of ranges of them.                          *)
MAX_FIELD_NUMBER == 536870911
RangeEnd == 1 .. MAX_FIELD_NUMBER
IsFieldNumber(n) == n \in RangeEnd /\ n \notin 19000 .. 19999

ASSUME TypesAssumption ==
    /\ \A word \in {U32, U64} : word \in Nat \ {0} /\ word % 2 = 0
    /\ \A name \in DOMAIN LocalTypes : name \notin Builtin /\ LocalTypes[name] \in {"message", "enum"}

(* What the lexer and the grammar make sure of: the kinds of statement and *)
(* of label, and that an integer is one.                                   *)
WellFormed(s) ==
    /\ s.kind \in {"field", "map", "oneof", "end_oneof", "message", "enum", "reserved",
                   "reserved_name", "extensions"}
    /\ s.kind = "field" =>
         /\ s.label \in {"none", "optional", "required", "repeated"}
         /\ \A i \in DOMAIN s.options :
              s.options[i].value.kind = "integer" => s.options[i].value.magnitude \in Nat

-----------------------------------------------------------------------------
(* Fields.                                                                 *)

Options(s, name) == {i \in DOMAIN s.options : s.options[i].name = name}
Has(s, name) == Options(s, name) # {}
Option(s, name) == s.options[CHOOSE i \in Options(s, name) : TRUE].value

OptionsAllowed(s) ==
    /\ \A name \in {"default", "packed"} : \A i, j \in Options(s, name) : i = j
    /\ \A i \in Options(s, "packed") : s.options[i].value.kind = "bool"

LabelAllowed(s, in_oneof) ==
    /\ in_oneof => s.label = "none"
    /\ message_syntax = "proto2" /\ ~in_oneof => s.label # "none"
    /\ message_syntax = "proto3" => s.label # "required"

(* apply_default.                                                          *)
DefaultAllowed(s, in_oneof) ==
    Has(s, "default") =>
        /\ message_syntax # "proto3"
        /\ s.label # "repeated" /\ ~in_oneof
        /\ Option(s, "default").kind \in DefaultKinds(s.type)

FieldAllowed(s, in_oneof) ==
    /\ LabelAllowed(s, in_oneof)
    /\ s.type # "group"
    /\ IsFieldNumber(s.number)
    /\ OptionsAllowed(s)
    /\ DefaultAllowed(s, in_oneof)

(* Mutant of FieldOf: the oneof that was opened first.                     *)
FieldOfFirst(s, oneof) ==
    [name |-> s.name, number |-> s.number, type |-> s.type,
     label |-> IF s.label = "none" THEN "optional" ELSE s.label,
     oneof_index |-> IF oneof = 0 THEN 0 ELSE 1,
     options |-> s.options]

FieldOf(s, oneof) ==
    [name |-> s.name, number |-> s.number, type |-> s.type,
     label |-> IF s.label = "none" THEN "optional" ELSE s.label,
     oneof_index |-> oneof,
     options |-> s.options]

EntryName(s) == CamelCase[s.name]

MapAllowed(s) ==
    /\ s.key \in MapKeyTypes
    /\ IsFieldNumber(s.number)
    /\ OptionsAllowed(s)
    /\ ~Has(s, "default") /\ ~Has(s, "packed")

-----------------------------------------------------------------------------
MessageInit ==
    /\ message_syntax \in {"proto2", "proto3"}
    /\ message = [field |-> <<>>, oneof_decl |-> <<>>, nested_type |-> <<>>, enum_type |-> <<>>]
    /\ message_reserved = [ranges |-> <<>>, names |-> {}]
    /\ extensions = <<>>
    /\ open_oneof = 0
    /\ message_status = "reading"
    /\ message_read = <<>>

ReadingMessage(s) ==
    /\ message_status = "reading"
    /\ message_read' = Append(message_read, s)
    /\ UNCHANGED message_syntax

RejectMessage ==
    /\ message_status' = "rejected"
    /\ UNCHANGED <<message, message_reserved, extensions, open_oneof>>

ParseMessageField(s) ==
    /\ s.kind = "field"
    /\ ReadingMessage(s)
    /\ IF FieldAllowed(s, open_oneof # 0)
       THEN /\ message' = [message EXCEPT !.field = Append(@, FieldOf(s, open_oneof))]
            /\ UNCHANGED <<message_reserved, extensions, open_oneof, message_status>>
       ELSE RejectMessage

(* A map field and the message that stands for its entries.                *)
ParseMap(s) ==
    /\ s.kind = "map"
    /\ ReadingMessage(s)
    /\ IF open_oneof = 0 /\ MapAllowed(s)
       THEN LET field == [name |-> s.name, number |-> s.number, type |-> EntryName(s),
                          label |-> "repeated", oneof_index |-> 0, options |-> <<>>]
                entry == [name |-> EntryName(s), key |-> s.key, value |-> s.type]
            IN  /\ message' = [message EXCEPT !.field = Append(@, field),
                                              !.nested_type = Append(@, entry)]
                /\ UNCHANGED <<message_reserved, extensions, open_oneof, message_status>>
       ELSE RejectMessage

ParseOneof(s) ==
    /\ s.kind = "oneof"
    /\ open_oneof = 0
    /\ ReadingMessage(s)
    /\ IF s.name \notin ToSet(message.oneof_decl)
       THEN /\ message' = [message EXCEPT !.oneof_decl = Append(@, s.name)]
            /\ open_oneof' = Len(message.oneof_decl) + 1
            /\ UNCHANGED <<message_reserved, extensions, message_status>>
       ELSE RejectMessage

CloseOneof(s) ==
    /\ s.kind = "end_oneof"
    /\ open_oneof # 0
    /\ ReadingMessage(s)
    /\ open_oneof' = 0
    /\ UNCHANGED <<message, message_reserved, extensions, message_status>>

(* A message or enum declared in the message; its own body is another one. *)
ParseNested(s) ==
    /\ s.kind \in {"message", "enum"}
    /\ open_oneof = 0
    /\ ReadingMessage(s)
    /\ message' = IF s.kind = "message"
                  THEN [message EXCEPT !.nested_type =
                          Append(@, [name |-> s.name, key |-> "none", value |-> "none"])]
                  ELSE [message EXCEPT !.enum_type = Append(@, s.name)]
    /\ UNCHANGED <<message_reserved, extensions, open_oneof, message_status>>

ParseReservedRange(s) ==
    /\ s.kind = "reserved"
    /\ open_oneof = 0
    /\ ReadingMessage(s)
    /\ IF {s.first, s.last} \subseteq RangeEnd /\ RangeAllowed(message_reserved.ranges, s)
       THEN /\ message_reserved' = [message_reserved EXCEPT !.ranges = Append(@, s)]
            /\ UNCHANGED <<message, extensions, open_oneof, message_status>>
       ELSE RejectMessage

ParseReservedName(s) ==
    /\ s.kind = "reserved_name"
    /\ open_oneof = 0
    /\ ReadingMessage(s)
    /\ IF s.name \notin message_reserved.names
       THEN /\ message_reserved' = [message_reserved EXCEPT !.names = @ \cup {s.name}]
            /\ UNCHANGED <<message, extensions, open_oneof, message_status>>
       ELSE RejectMessage

ParseExtensions(s) ==
    /\ s.kind = "extensions"
    /\ open_oneof = 0
    /\ ReadingMessage(s)
    /\ IF message_syntax = "proto2" /\ {s.first, s.last} \subseteq RangeEnd /\ RangeAllowed(extensions, s)
       THEN /\ extensions' = Append(extensions, s)
            /\ UNCHANGED <<message, message_reserved, open_oneof, message_status>>
       ELSE RejectMessage

(* Mutant of ConstraintsHold: the fields are checked as they are read.     *)
ConstraintsOfLast ==
    /\ \A i \in DOMAIN message_reserved.ranges, j \in DOMAIN extensions :
         ~Overlap(message_reserved.ranges[i], extensions[j])
    /\ message.field = <<>> \/
         LET f == Last(message.field)
         IN  /\ f.name \notin message_reserved.names
             /\ \A j \in DOMAIN message_reserved.ranges : ~Covers(message_reserved.ranges[j], f.number)
             /\ \A j \in DOMAIN extensions : ~Covers(extensions[j], f.number)

(* validate_message_constraints.                                           *)
ConstraintsHold ==
    /\ \A i \in DOMAIN message_reserved.ranges, j \in DOMAIN extensions :
         ~Overlap(message_reserved.ranges[i], extensions[j])
    /\ \A i \in DOMAIN message.field :
         LET f == message.field[i]
         IN  /\ f.name \notin message_reserved.names
             /\ \A j \in DOMAIN message_reserved.ranges : ~Covers(message_reserved.ranges[j], f.number)
             /\ \A j \in DOMAIN extensions : ~Covers(extensions[j], f.number)

CloseBody ==
    /\ message_status = "reading"
    /\ open_oneof = 0
    /\ message_status' = IF ConstraintsHold THEN "closed" ELSE "rejected"
    /\ UNCHANGED <<message_syntax, message, message_reserved, extensions, open_oneof, message_read>>

NestedNames == message.enum_type \o [i \in DOMAIN message.nested_type |-> message.nested_type[i].name]

(* What resolve_message requires of a field whose type is resolved; the    *)
(* message's own entry types are messages.                                 *)
FieldResolves(f) ==
    /\ Has(f, "packed") => f.label = "repeated" /\ Packable(TypeOf(f.type))
    /\ f.oneof_index <= Len(message.oneof_decl)
    /\ Has(f, "default") => ValidDefault(f.type, Option(f, "default"))

(* Mutant of Resolves: only declared types are compared, not map entries.  *)
ResolvesDeclared ==
    /\ IsInjective(message.enum_type)
    /\ \A i, j \in DOMAIN message.field :
         i # j => /\ message.field[i].name # message.field[j].name
                  /\ message.field[i].number # message.field[j].number
    /\ \A i \in DOMAIN message.field : FieldResolves(message.field[i])

(* collect_message_symbols and resolve_message on this message.            *)
Resolves ==
    /\ IsInjective(NestedNames)
    /\ \A i, j \in DOMAIN message.field :
         i # j => /\ message.field[i].name # message.field[j].name
                  /\ message.field[i].number # message.field[j].number
    /\ \A i \in DOMAIN message.field : FieldResolves(message.field[i])

ResolveMessage ==
    /\ message_status = "closed"
    /\ message_status' = IF Resolves THEN "accepted" ELSE "rejected"
    /\ UNCHANGED <<message_syntax, message, message_reserved, extensions, open_oneof, message_read>>

(* In a oneof every other statement is taken for a field and refused.      *)
Misplaced(s) ==
    /\ s.kind \notin {"field", "map", "end_oneof"}
    /\ open_oneof # 0
    /\ ReadingMessage(s)
    /\ RejectMessage

(* The file ends before the closing brace.                                 *)
UnterminatedMessage ==
    /\ ReadingMessage([kind |-> "end_of_file"])
    /\ RejectMessage

MessageNext ==
    \/ \E s \in MessageStatements(message_read) :
         \/ Misplaced(s)
         \/ ParseMessageField(s)
         \/ ParseMap(s)
         \/ ParseOneof(s)
         \/ CloseOneof(s)
         \/ ParseNested(s)
         \/ ParseReservedRange(s)
         \/ ParseReservedName(s)
         \/ ParseExtensions(s)
    \/ UnterminatedMessage
    \/ CloseBody
    \/ ResolveMessage

MessageSpec == MessageInit /\ [][MessageNext]_messageVars

-----------------------------------------------------------------------------
(* The documented rules, on the statements and without regard to the order *)
(* in which the parser meets and checks them.                              *)

Inside(i) ==
    LET marks == {j \in 1 .. i - 1 : message_read[j].kind \in {"oneof", "end_oneof"}}
    IN  marks # {} /\ message_read[Max(marks)].kind = "oneof"

Kind(i) == message_read[i].kind
Member(i) == Kind(i) \in {"field", "map"}
IsRange(i) == Kind(i) \in {"reserved", "extensions"}
TypeNameOf(i) == IF Kind(i) = "map" THEN EntryName(message_read[i]) ELSE message_read[i].name
NamesType(i) == Kind(i) \in {"message", "enum", "map"}

Labels(in_oneof) ==
    IF in_oneof THEN {"none"}
    ELSE IF message_syntax = "proto2" THEN {"optional", "required", "repeated"}
    ELSE {"none", "optional", "repeated"}

(* The range of an integral type.                                          *)
Least(type) == IF type \in Unsigned THEN 0 ELSE -(IF type \in Wide THEN U64 \div 2 ELSE U32 \div 2)
Greatest(type) == Least(type) + (IF type \in Wide THEN U64 ELSE U32) - 1

(* A default is written as its type wants it, on a singular proto2 field   *)
(* outside a oneof, and holds a value of the type; only an unsigned type   *)
(* refuses -0.  No message has a default, but an imported type may be an   *)
(* enum.                                                                   *)
DefaultRule(s, in_oneof) ==
    Has(s, "default") =>
        LET c == Option(s, "default")
            value == IF c.sign = "-" THEN -c.magnitude ELSE c.magnitude
        IN  /\ message_syntax = "proto2" /\ s.label \in {"optional", "required"} /\ ~in_oneof
            /\ c.kind \in DefaultKinds(s.type)
            /\ s.type \in Signed \cup Unsigned => value \in Least(s.type) .. Greatest(s.type)
            /\ s.type \in Unsigned => c.sign # "-"
            /\ s.type \in DOMAIN LocalTypes => LocalTypes[s.type] = "enum"

PackedRule(s) ==
    Has(s, "packed") => s.label = "repeated" /\ Packable(TypeOf(s.type))

(* What a statement must satisfy by itself.                                *)
Sound(i) ==
    LET s == message_read[i]
    IN  CASE Kind(i) = "field" ->
               /\ s.label \in Labels(Inside(i)) /\ s.type # "group" /\ IsFieldNumber(s.number)
               /\ OptionsAllowed(s) /\ DefaultRule(s, Inside(i)) /\ PackedRule(s)
          [] Kind(i) = "map" -> MapAllowed(s) /\ ~Inside(i)
          [] IsRange(i) -> /\ {s.first, s.last} \subseteq RangeEnd /\ s.first <= s.last
                           /\ ~Inside(i) /\ (Kind(i) = "extensions" => message_syntax = "proto2")
          [] Kind(i) \in {"reserved_name", "message", "enum", "oneof"} -> ~Inside(i)
          [] Kind(i) = "end_oneof" -> Inside(i)
          [] Kind(i) = "end_of_file" -> FALSE

(* What two statements must satisfy together, whichever comes first.       *)
Compatible(i, j) ==
    LET s == message_read[i]
        t == message_read[j]
    IN  /\ Member(i) /\ Member(j) => s.name # t.name /\ s.number # t.number
        /\ Member(i) /\ IsRange(j) => s.number < t.first \/ t.last < s.number
        /\ IsRange(i) /\ IsRange(j) => s.last < t.first \/ t.last < s.first
        /\ Member(i) /\ Kind(j) = "reserved_name" => s.name # t.name
        /\ Kind(i) = Kind(j) /\ Kind(i) \in {"reserved_name", "oneof"} => s.name # t.name
        /\ NamesType(i) /\ NamesType(j) => TypeNameOf(i) # TypeNameOf(j)

Rules ==
    /\ \A i \in DOMAIN message_read : Sound(i)
    /\ \A i, j \in DOMAIN message_read : i # j => Compatible(i, j)

(* A message is accepted if and only if its statements keep the rules: the *)
(* three times at which the parser checks them leave no gap, and the order *)
(* of the statements makes no difference.                                  *)
MessageAcceptsByTheRules ==
    /\ message_status = "accepted" => Rules
    /\ message_status = "rejected" => ~Rules

(* The fields of a oneof, and no others, carry the index of the oneof they *)
(* were written in.                                                        *)
OneofMembersLinked ==
    message_status # "rejected" =>
        \A i \in DOMAIN message_read :
            Member(i) =>
                LET k == Cardinality({j \in 1 .. i : Member(j)})
                    oneofs == Cardinality({j \in 1 .. i : Kind(j) = "oneof"})
                IN  message.field[k].oneof_index = IF Inside(i) THEN oneofs ELSE 0

(* The type of an accepted map field names one nested message only, which  *)
(* has its key and value types: no second map and no declared type can     *)
(* take its place when codegen looks it up.                                *)
EntriesUnambiguous ==
    message_status = "accepted" =>
        \A i \in DOMAIN message_read :
            Kind(i) = "map" =>
                \A k \in DOMAIN message.nested_type :
                    message.nested_type[k].name = EntryName(message_read[i]) =>
                        /\ message.nested_type[k].key = message_read[i].key
                        /\ message.nested_type[k].value = message_read[i].type
=============================================================================
