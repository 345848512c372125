------------------------------- MODULE EnumBody -----------------------------
(***************************************************************************)
(* The parser on the body of one enum (Parser::parse_enum).  A value is    *)
(* checked against the reserved ranges and names when it is read, and once *)
(* more at the closing brace, for those that follow it; whether numbers    *)
(* may repeat is known only there, since allow_alias may come last, and    *)
(* may be set more than once.                                              *)
(***************************************************************************)
EXTENDS NumberRanges, Sequences, FiniteSets, SequencesExt

CONSTANTS
    EnumStatements,      \* the statements a body may consist of
    MaxEnumStatements    \* bound: statements in the body

VARIABLES
    enum_syntax,      \* of the file
    value,            \* the values of the descriptor
    allow_alias,
    enum_reserved,    \* reserved_ranges and reserved_names
    enum_status,      \* "reading", "accepted" or "rejected"
    enum_read         \* the statements read so far, the last one included

enumVars == <<enum_syntax, value, allow_alias, enum_reserved, enum_status, enum_read>>

(* What the lexer and the grammar make sure of: the kinds of statement,    *)
(* and that what stands for a number is one.                               *)
StatementsTyped ==
    \A s \in EnumStatements :
        /\ s.kind \in {"option", "reserved", "reserved_name", "value"}
        /\ s.kind = "reserved" => s.first \in Int /\ s.last \in Int
        /\ s.kind = "value" => s.number \in Int

Int32 == -INT32_MAX - 1 .. INT32_MAX

EnumInit ==
    /\ enum_syntax \in {"proto2", "proto3"}
    /\ value = <<>>
    /\ allow_alias = FALSE
    /\ enum_reserved = [ranges |-> <<>>, names |-> {}]
    /\ enum_status = "reading"
    /\ enum_read = <<>>

ReadingEnum(s) ==
    /\ enum_status = "reading"
    /\ Len(enum_read) < MaxEnumStatements
    /\ enum_read' = Append(enum_read, s)
    /\ UNCHANGED enum_syntax

RejectEnum ==
    /\ enum_status' = "rejected"
    /\ UNCHANGED <<value, allow_alias, enum_reserved>>

Free(v) ==
    /\ v.name \notin enum_reserved.names
    /\ \A r \in DOMAIN enum_reserved.ranges : ~Covers(enum_reserved.ranges[r], v.number)

EnumOption(s) ==
    /\ s.kind = "option"
    /\ ReadingEnum(s)
    /\ IF s.name = "allow_alias" /\ s.constant \notin {"true", "false"}
       THEN RejectEnum
       ELSE /\ allow_alias' = IF s.name = "allow_alias" THEN s.constant = "true" ELSE allow_alias
            /\ UNCHANGED <<value, enum_reserved, enum_status>>

ReservedRange(s) ==
    /\ s.kind = "reserved"
    /\ ReadingEnum(s)
    /\ IF {s.first, s.last} \subseteq Int32 /\ RangeAllowed(enum_reserved.ranges, s)
       THEN /\ enum_reserved' = [enum_reserved EXCEPT !.ranges = Append(@, s)]
            /\ UNCHANGED <<value, allow_alias, enum_status>>
       ELSE RejectEnum

ReservedName(s) ==
    /\ s.kind = "reserved_name"
    /\ ReadingEnum(s)
    /\ IF s.name \notin enum_reserved.names
       THEN /\ enum_reserved' = [enum_reserved EXCEPT !.names = @ \cup {s.name}]
            /\ UNCHANGED <<value, allow_alias, enum_status>>
       ELSE RejectEnum

EnumValue(s) ==
    /\ s.kind = "value"
    /\ ReadingEnum(s)
    /\ IF /\ \A i \in DOMAIN value : value[i].name # s.name
          /\ s.number \in Int32
          /\ Free(s)
          /\ s.options \cap {"default", "packed"} = {}
       THEN /\ value' = Append(value, [name |-> s.name, number |-> s.number])
            /\ UNCHANGED <<allow_alias, enum_reserved, enum_status>>
       ELSE RejectEnum

Numbers == [i \in DOMAIN value |-> value[i].number]

(* Mutant of Closes: the values were checked when they were read.          *)
ClosesUnchecked ==
    /\ enum_syntax = "proto3" /\ value # <<>> => value[1].number = 0
    /\ allow_alias \/ IsInjective(Numbers)

(* What the closing brace requires.                                        *)
Closes ==
    /\ \A i \in DOMAIN value : Free(value[i])
    /\ enum_syntax = "proto3" /\ value # <<>> => value[1].number = 0
    /\ allow_alias \/ IsInjective(Numbers)

CloseEnum ==
    /\ enum_status = "reading"
    /\ enum_status' = IF Closes THEN "accepted" ELSE "rejected"
    /\ UNCHANGED <<enum_syntax, value, allow_alias, enum_reserved, enum_read>>

(* The file ends before the closing brace.                                 *)
UnterminatedEnum ==
    /\ ReadingEnum([kind |-> "end_of_file"])
    /\ RejectEnum

EnumNext ==
    \/ \E s \in EnumStatements :
         \/ EnumOption(s)
         \/ ReservedRange(s)
         \/ ReservedName(s)
         \/ EnumValue(s)
    \/ UnterminatedEnum
    \/ CloseEnum

EnumSpec == EnumInit /\ [][EnumNext]_enumVars

-----------------------------------------------------------------------------
(* The documented rules, on the statements and without regard to order.    *)

OfKind(kind) == {i \in DOMAIN enum_read : enum_read[i].kind = kind}

Aliases ==
    LET settings == {i \in OfKind("option") : enum_read[i].name = "allow_alias"}
    IN  settings # {} /\ enum_read[Max(settings)].constant = "true"

EnumSound(s) ==
    /\ s.kind # "end_of_file"
    /\ s.kind = "option" /\ s.name = "allow_alias" => s.constant \in {"true", "false"}
    /\ s.kind = "reserved" => {s.first, s.last} \subseteq Int32 /\ s.first <= s.last
    /\ s.kind = "value" => s.number \in Int32 /\ s.options \cap {"default", "packed"} = {}

EnumCompatible(s, t) ==
    /\ s.kind = "value" /\ t.kind \in {"value", "reserved_name"} => s.name # t.name
    /\ s.kind = "reserved_name" /\ t.kind = "reserved_name" => s.name # t.name
    /\ s.kind \in {"value", "reserved"} /\ t.kind = "reserved" =>
         LET numbers == IF s.kind = "value" THEN {s.number} ELSE {s.first, s.last}
         IN  \A n \in numbers : n < t.first \/ t.last < n

EnumRules ==
    /\ \A i \in DOMAIN enum_read : EnumSound(enum_read[i])
    /\ \A i, j \in DOMAIN enum_read : i # j => EnumCompatible(enum_read[i], enum_read[j])
    /\ Aliases \/ \A i, j \in OfKind("value") : i # j => enum_read[i].number # enum_read[j].number
    /\ enum_syntax = "proto3" /\ OfKind("value") # {} => enum_read[Min(OfKind("value"))].number = 0

(* An enum is accepted if and only if its statements keep the documented   *)
(* rules: it makes no difference whether a value stands before or after    *)
(* the statement that reserves it, or the option that lets it repeat.      *)
EnumAcceptsByTheRules ==
    /\ enum_status = "accepted" => EnumRules
    /\ enum_status = "rejected" => ~EnumRules
=============================================================================
