------------------------------ MODULE MCCodegen -----------------------------
(***************************************************************************)
(* Command lines of two kinds: short sequences of arguments of every form, *)
(* and sequences of files of every kind under each option that changes     *)
(* what is done with them.                                                 *)
(***************************************************************************)
EXTENDS Codegen

Long(name) == [kind |-> "long", name |-> name, value |-> NoValue]
LongWith(name, text) == [kind |-> "long", name |-> name, value |-> Word(text)]
Short(letters) == [kind |-> "short", letters |-> letters]
Dashes == [kind |-> "dashes"]

Numbers == [one |-> 1, two |-> 2, zero |-> 0]
Templates == [list |-> 1, assoc |-> 2, wide |-> 3]
Pbs == {"one.pbs", "two.pbs", "cut.pbs", "empty.pbs"}

-----------------------------------------------------------------------------
(* Files.                                                                  *)
Field(name, number, label, type) ==
    [ name |-> name, number |-> number, label |-> label, type |-> type, type_name |-> <<>>,
      packed |-> "none", default |-> Nothing ]
Ref(name, number, label, type_name) == [Field(name, number, label, "message") EXCEPT !.type_name = type_name]
Packed(field, packed) == [field EXCEPT !.packed = packed]
Default(field, text) == [field EXCEPT !.default = [kind |-> "text", text |-> text]]
Message(name, fields, nested) == [name |-> name, fields |-> fields, nested |-> nested]
Entry(name, fields) == [name |-> name, map_entry |-> TRUE, fields |-> fields]
NestedMessage(name) == [name |-> name, map_entry |-> FALSE, fields |-> <<Field("x", 1, "optional", "int32")>>]
File(package, syntax, types) == [package |-> package, syntax |-> syntax, messages |-> types]

Scalars == Message("S",
    << Field("a", 1, "required", "int32"), Default(Field("b", 2, "optional", "string"), "text"),
       Default(Field("c", 3, "optional", "bool"), "true"), Field("d", 4, "repeated", "fixed64"),
       Packed(Field("e", 5, "repeated", "enum"), "true"), Packed(Field("f", 6, "repeated", "sint32"), "false"),
       Field("g", 7, "repeated", "bytes"), Field("h", 8, "optional", "double") >>, <<>>)

Refs(package) == Message("R",
    << Ref("own", 1, "optional", package \o <<"R", "N">>), Ref("other", 2, "repeated", package \o <<"S">>),
       Ref("self", 3, "optional", package \o <<"R">>), Ref("far", 4, "required", <<"q", "S">>) >>,
    << NestedMessage("N") >>)

Maps(package) == Message("P",
    << Ref("m", 1, "repeated", package \o <<"P", "MEntry">>), Ref("n", 2, "repeated", package \o <<"R", "N">>) >>,
    << Entry("MEntry", <<Field("key", 1, "optional", "string"), Field("value", 2, "optional", "uint32")>>) >>)

MapOfMessages(package) == Message("Q",
    << Field("a", 1, "repeated", "int32"), Ref("m", 2, "repeated", package \o <<"Q", "MEntry">>) >>,
    << Entry("MEntry", <<Field("key", 1, "optional", "string"), Ref("value", 2, "optional", package \o <<"S">>)>>) >>)

HalfEntry == Message("H", <<>>, << Entry("MEntry", <<Field("key", 1, "optional", "string")>>) >>)

Proto2 == File(<<"a", "b">>, "proto2", <<Scalars, Refs(<<"a", "b">>), Maps(<<"a", "b">>)>>)
Proto3 == File(<<>>, "proto3", <<Refs(<<>>), Maps(<<>>), Scalars>>)
NoSyntax == File(<<"a">>, "", <<Maps(<<"a">>), Scalars>>)
Unsupported2 == File(<<"a">>, "proto2", <<Scalars, MapOfMessages(<<"a">>), Maps(<<"a">>)>>)

Source(contents) == [kind |-> "source", valid |-> TRUE, resolved |-> TRUE, file |-> contents]
Set(files_) == [kind |-> "set", whole |-> TRUE, files |-> files_]

Disk ==
    "proto2"    :> Source(Proto2)
    @@ "proto3"   :> Source(Proto3)
    @@ "plain"    :> Source(NoSyntax)
    @@ "imports"  :> [Source(Proto3) EXCEPT !.resolved = FALSE]
    @@ "invalid"  :> [Source(EmptyFile) EXCEPT !.valid = FALSE]
    @@ "maps"     :> Source(Unsupported2)
    @@ "empty"    :> [kind |-> "empty"]
    @@ "empty.pbs":> [kind |-> "empty"]
    @@ "one.pbs"  :> Set(<<NoSyntax>>)
    @@ "half"     :> Set(<<File(<<>>, "proto3", <<Scalars, HalfEntry>>)>>)
    @@ "two.pbs"  :> Set(<<Proto2, Proto3>>)
    @@ "cut.pbs"  :> [Set(<<Proto2>>) EXCEPT !.whole = FALSE]

ContentsOf(name) ==
    IF name.kind = "word" /\ name.text \in DOMAIN Disk THEN Disk[name.text] ELSE [kind |-> "missing"]

-----------------------------------------------------------------------------
(* Command lines.                                                          *)
Forms ==
    { Word("proto2"), Word("one.pbs"), Word("one"), Dashes,
      Long("no-required"), Long("no-such"), Short(<<"f", "x">>), Short(<<"e", "s", "d">>), Short(<<"c", "r">>),
      LongWith("no-class", "one"), Long("benchmark-ms"), LongWith("benchmark-ms", "zero"), LongWith("map-type", "assoc"),
      Long("benchmark-parser"), Long("print-descriptor"), Long("descriptor-set"), Long("packed"), Long("help") }

OptionLists ==
    { <<>>, <<Long("print-descriptor")>>, <<Long("descriptor-set")>>, <<Long("print-descriptor"), Long("descriptor-set")>>,
      <<Long("benchmark-parser"), LongWith("benchmark-ms", "two")>>, <<Long("packed")>>, <<Long("no-packed")>>,
      <<Short(<<"f">>)>>, <<Short(<<"e", "d">>), Long("no-default-values")>>,
      <<Short(<<"r">>), Word("assoc")>>, <<LongWith("map-type", "wide")>> }

(* Bounds: arguments of a line of arguments, and files of a line of files. *)
MaxArguments == 3
MaxFiles == 2

Lines ==
    UNION { [1..n -> Forms] : n \in 0..MaxArguments }
    \cup { options \o names : options \in OptionLists,
           names \in UNION { [1..n -> {Word(name) : name \in DOMAIN Disk \cup {"no such file"}}] : n \in 1..MaxFiles } }

(* The generator has code for the messages of these files.                 *)
ASSUME FilesSupported == AllSupported
=============================================================================
