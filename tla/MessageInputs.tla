---------------------------- MODULE MessageInputs ---------------------------
(***************************************************************************)
(* Bodies of a few statements that can conflict in every pairwise way, and *)
(* single fields in every combination of label, type, number and options.  *)
(***************************************************************************)
EXTENDS Integers, Sequences

(* 2^32 and 2^64 here, and the largest field number.                       *)
Pow32 == 16
Pow64 == 256
MAX_FIELD_NUMBER == 536870911

Number(sign, magnitude) == [kind |-> "integer", sign |-> sign, magnitude |-> magnitude]
Other(kind) == [kind |-> kind, sign |-> "", magnitude |-> 0]
Opt(name, value) == [name |-> name, value |-> value]

Field(label, type, name, number, options) ==
    [kind |-> "field", label |-> label, type |-> type, name |-> name, number |-> number,
     options |-> options]

MapField(key, type, name, number) ==
    [kind |-> "map", key |-> key, type |-> type, name |-> name, number |-> number,
     options |-> <<>>]

Named(kind, name) == [kind |-> kind, name |-> name]
Numbers(kind, first, last) == [kind |-> kind, first |-> first, last |-> last]

Types == [Msg |-> "message", Enum |-> "enum"]
Entries == [n \in {"a", "b", "by_id", "byId"} |->
              IF n \in {"by_id", "byId"} THEN "ByIdEntry" ELSE n \o "Entry"]

Conflicting ==
    { Field("optional", "int32", "a", 1, <<>>), Field("none", "Msg", "a", 3, <<>>),
      Field("repeated", "Enum", "b", 1, <<Opt("packed", Other("bool"))>>),
      Field("none", "Imported", "b", 4, <<>>),
      MapField("int32", "string", "by_id", 2), MapField("int32", "Msg", "byId", 4),
      Named("message", "ByIdEntry"), Named("enum", "ByIdEntry"),
      Named("oneof", "x"), Named("oneof", "y"), Named("end_oneof", ""),
      Named("reserved_name", "a"), Named("reserved_name", "by_id"),
      Numbers("reserved", 1, 2), Numbers("reserved", 3, 3),
      Numbers("extensions", 3, 6), Numbers("extensions", 6, MAX_FIELD_NUMBER) }

Defaults == {Number("", Pow32 \div 2), Number("-", Pow32 \div 2), Number("-", Pow32 \div 2 + 1), Number("-", 0),
             Number("", Pow32 - 1), Number("+", Pow32), Number("", Pow64), Other("float"), Other("bool"), Other("string"),
             Other("identifier"), Other("aggregate")}

SomeOptions ==
    {<<>>, <<Opt("packed", Other("bool"))>>, <<Opt("packed", Other("identifier"))>>,
     <<Opt("deprecated", Other("bool")), Opt("packed", Other("bool"))>>,
     <<Opt("packed", Other("bool")), Opt("packed", Other("bool"))>>,
     <<Opt("default", Other("bool")), Opt("default", Other("bool"))>>}
    \cup {<<Opt("default", c)>> : c \in Defaults}

FieldTypes == {"int32", "uint32", "sint64", "fixed64", "bool", "string", "float", "Msg", "Enum",
               "Imported", "group"}

(* A label matters to "packed" and "default" but not to what a default is. *)
SingleFields ==
    {Field("optional", type, "a", 1, options) : type \in FieldTypes, options \in SomeOptions}
    \cup {Field(label, type, "a", 1, options) :
            label \in {"none", "required", "repeated"}, type \in FieldTypes \ {"uint32", "fixed64"},
            options \in {<<>>, <<Opt("packed", Other("bool"))>>, <<Opt("default", Number("", 1))>>}}
    \cup {Field("optional", "int32", "a", n, <<>>) :
            n \in {0, 18999, 19000, 19999, 20000, MAX_FIELD_NUMBER, MAX_FIELD_NUMBER + 1}}
    \cup {MapField(key, "int32", "a", 1) : key \in {"int32", "bool", "string", "float", "bytes", "Enum"}}
    \cup {Numbers(kind, n, m) : kind \in {"reserved", "extensions"},
                                n, m \in {0, 1, 19500, MAX_FIELD_NUMBER, MAX_FIELD_NUMBER + 1}}
    \cup {Named("oneof", "x"), Named("end_oneof", "")}

StatementsOf(before) == {before[i] : i \in DOMAIN before}

(* Bounds: the statements of a body, one more where there are oneofs, which*)
(* take two statements each; and those of a body with single fields.       *)
MaxStatements == 4
MaxFields == 2

Limit(before) ==
    IF Named("oneof", "x") \in StatementsOf(before) THEN MaxStatements + 1 ELSE MaxStatements

Bodies(before) ==
    (IF Len(before) < Limit(before) /\ StatementsOf(before) \subseteq Conflicting THEN Conflicting ELSE {})
    \cup (IF Len(before) < MaxFields THEN SingleFields ELSE {})
=============================================================================
