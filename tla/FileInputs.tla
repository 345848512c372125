----------------------------- MODULE FileInputs -----------------------------
(***************************************************************************)
(* Files of a few statements: declarations and references with two type    *)
(* names, in packages that share their names with types or not; and files  *)
(* with every statement, in every order.                                   *)
(***************************************************************************)
EXTENDS Naturals, Sequences

Kind(kind) == [kind |-> kind]
Message(name) == [kind |-> "message", name |-> name]
Enum(name) == [kind |-> "enum", name |-> name, values |-> {"ZERO"}]
Package(path) == [kind |-> "package", path |-> path]
Syntax(value) == [kind |-> "syntax", value |-> value]
Field(absolute, path, default) ==
    [kind |-> "field", ref |-> [absolute |-> absolute, path |-> path], default |-> default]

Declarations ==
    { Message("A"), Message("B"), Enum("A"), Enum("B"), Kind("end_message"),
      Package(<<"p">>), Package(<<"A", "p">>) }

References ==
    { Field(FALSE, <<"A">>, "none"), Field(FALSE, <<"A", "B">>, "none"),
      Field(FALSE, <<"p", "A">>, "none"), Field(TRUE, <<"A">>, "none"),
      Field(TRUE, <<"p", "A">>, "none") }

Scoped == Declarations \cup References

Every ==
    { Syntax("proto2"), Syntax("proto3"), Syntax("other"), Kind("empty"), Kind("import"),
      Kind("option"), Kind("extend"), Kind("service"), Package(<<"p">>),
      Message("A"), Kind("end_message"), Enum("A"),
      Field(FALSE, <<"A">>, "none"), Field(FALSE, <<"A">>, "ZERO"), Field(FALSE, <<"A">>, "ONE") }

StatementsOf(before) == {before[i].statement : i \in DOMAIN before}

(* Bounds: the statements of a file of declarations and references, and of *)
(* one with every statement.                                               *)
MaxScoped == 6
MaxStatements == 5

Files(before) ==
    (IF Len(before) < MaxScoped /\ StatementsOf(before) \subseteq Scoped THEN Scoped ELSE {})
    \cup (IF Len(before) < MaxStatements /\ StatementsOf(before) \subseteq Every THEN Every ELSE {})
=============================================================================
