---------------------------- MODULE MessageTypes ----------------------------
(***************************************************************************)
(* The message types of a program: what the generated decode() reads for   *)
(* each field number, and what a new object holds.                         *)
(***************************************************************************)
EXTENDS ScalarTypes, SequencesExt

CONSTANT Schema        \* message type -> field number -> [kind, type, required]

Kinds == {"scalar", "bytearray", "message", "repeated", "repeated_bytearray",
          "repeated_message", "map"}

(* A reader of the generated code is that of the type the field declares.  *)
ASSUME SchemaAssumption ==
    \A t \in DOMAIN Schema : \A f \in DOMAIN Schema[t] :
        /\ Schema[t][f].kind \in Kinds
        /\ Schema[t][f].kind \in {"scalar", "repeated"} => Schema[t][f].type \in NumericTypes
        /\ Schema[t][f].kind \in {"message", "repeated_message", "map"} =>
               Schema[t][f].type \in DOMAIN Schema

(* No struct has itself for a member, however indirectly.                  *)
ASSUME NestingAssumption ==
    \E rank \in [DOMAIN Schema -> 0 .. Cardinality(DOMAIN Schema)] :
        \A t \in DOMAIN Schema : \A f \in DOMAIN Schema[t] :
            Schema[t][f].kind = "message" => rank[Schema[t][f].type] < rank[t]

(* What a member of a new object holds, blank being that of its type.      *)
NewValue(F, blank) ==
    CASE F.kind = "scalar"  -> 0
      [] F.kind = "message" -> blank[F.type]
      [] OTHER              -> <<>>

(* Message objects: the fields, and the has_ flags that are set.           *)
Blank[t \in DOMAIN Schema] ==
    [has |-> {}, val |-> [f \in DOMAIN Schema[t] |-> NewValue(Schema[t][f], Blank)]]

Required(t) == {f \in DOMAIN Schema[t] : Schema[t][f].required}

(* The key and the value of a map entry are optional.                      *)
ASSUME EntryAssumption ==
    \A t \in DOMAIN Schema : \A f \in DOMAIN Schema[t] :
        Schema[t][f].kind = "map" => Required(Schema[t][f].type) = {}
=============================================================================
