---------------------------- MODULE CodeGenerator ---------------------------
(***************************************************************************)
(* The generator of C++ code: generator() walks the top-level messages of  *)
(* one descriptor and writes, for each, a struct, an encoder and a decoder *)
(* to stdout.  What it knows of the file and the message it is at is kept  *)
(* in global variables that outlive both.                                  *)
(*                                                                         *)
(* Code is abstracted to its decisions: a piece of output is a record of   *)
(* members, library calls and checks, not text.  A qualified name is the   *)
(* sequence of its components.  The command c gives the options.           *)
(***************************************************************************)
EXTENDS Naturals, Sequences, SequencesExt, FiniteSets

VARIABLES
    current_file_is_proto3,     \* these three are the globals
    package_name_prefix,
    msgtype_name_prefix,
    stdout,                     \* the pieces written so far
    messages                    \* messages of the file still to be generated

globals == <<current_file_is_proto3, package_name_prefix, msgtype_name_prefix>>
generatorVars == <<current_file_is_proto3, package_name_prefix, msgtype_name_prefix, stdout, messages>>

Nothing == [kind |-> "nothing"]
Fault == [kind |-> "fault"]             \* an exception

-----------------------------------------------------------------------------
(* Decisions about one field                                               *)

IsRepeated(field) == field.label = "repeated"

HasFieldEnabled(field, c) == ~IsRepeated(field) /\ "no-has-fields" \notin c.option

IsNumeric(field) == field.type \notin {"string", "bytes", "message", "group"}

PackedByDefault(field, c, proto3) ==
    CASE "packed" \in c.option -> TRUE
      [] "packed" \notin c.option /\ "no-packed" \in c.option -> FALSE
      [] OTHER -> IF field.packed = "none" THEN proto3 ELSE field.packed = "true"

(* Mutant of WriteAsPacked: any repeated field may be packed.              *)
PackedWhateverType(field, c, proto3) == IsRepeated(field) /\ PackedByDefault(field, c, proto3)

WriteAsPacked(field, c, proto3) ==
    IsRepeated(field) /\ IsNumeric(field) /\ PackedByDefault(field, c, proto3)

(* The initialiser of the member: the default's text, quoted for a byte    *)
(* array; scalars without a default are cleared.                           *)
DefaultValue(field, c) ==
    IF field.default # Nothing /\ "no-default-values" \notin c.option
    THEN [kind |-> "default", quoted |-> field.type \in {"string", "bytes"}, text |-> field.default]
    ELSE IF IsRepeated(field) \/ ~IsNumeric(field) THEN Nothing ELSE [kind |-> "zero"]

WithoutPrefix(prefix, name) ==
    IF IsStrictPrefix(prefix, name) THEN SubSeq(name, Len(prefix) + 1, Len(name)) ELSE name

(* The C++ name of a message: without the package, and then without the    *)
(* message being generated; a name from elsewhere is qualified with ::.    *)
QualifiedType(type_name, package, message) ==
    IF IsStrictPrefix(package, type_name)
    THEN [global |-> FALSE, path |-> WithoutPrefix(message, WithoutPrefix(package, type_name))]
    ELSE [global |-> TRUE, path |-> type_name]

CppScalar ==
    [ t \in {"int32", "sint32", "sfixed32", "enum"} |-> "int32_t" ]
    @@ [ t \in {"int64", "sint64", "sfixed64"} |-> "int64_t" ]
    @@ [ t \in {"uint32", "fixed32"} |-> "uint32_t" ]
    @@ [ t \in {"uint64", "fixed64"} |-> "uint64_t" ]
    @@ [ t \in {"string", "bytes"} |-> "string" ]
    @@ [ t \in {"double", "float", "bool"} |-> t ]
    @@ [ t \in {"group"} |-> "???group" ]

BaseType(field, package, message) ==
    IF field.type = "message"
    THEN [kind |-> "struct", struct |-> QualifiedType(field.type_name, package, message)]
    ELSE [kind |-> "scalar", name |-> CppScalar[field.type]]

-----------------------------------------------------------------------------
(* Map fields: repeated fields of a nested message marked as a map entry.  *)

Numbered(entry, number) == SelectLastInSeq(entry.fields, LAMBDA f : f.number = number)

MapEntries(message) == {n \in ToSet(message.nested) : n.map_entry}

MalformedEntry(message) ==
    \E n \in MapEntries(message) : Numbered(n, 1) = 0 \/ Numbered(n, 2) = 0

(* The entry a field refers to, or Nothing.                                *)
FindMapType(field, message, package, prefix) ==
    LET named == {n \in MapEntries(message) :
                    field.type = "message" /\ package \o prefix \o <<n.name>> = field.type_name}
    IN  IF ~IsRepeated(field) \/ named = {} THEN Nothing
        ELSE LET n == CHOOSE n \in named : TRUE
             IN  [kind |-> "map", key |-> n.fields[Numbered(n, 1)], value |-> n.fields[Numbered(n, 2)]]

Unsupported(map) == map # Nothing /\ map.value.type \in {"message", "group"}

(* A container template asks for more types than there are (myformat).     *)
BadTemplate(field, map, c) ==
    IF map # Nothing THEN "map-type" \in c.wide ELSE IsRepeated(field) /\ "repeated-type" \in c.wide

-----------------------------------------------------------------------------
(* Code for one field and for one message                                  *)

FieldCode(field, map, c, proto3, package, prefix) ==
    [ name     |-> field.name,
      number   |-> field.number,
      type     |-> IF map # Nothing
                   THEN <<"map", BaseType(map.key, package, prefix), BaseType(map.value, package, prefix)>>
                   ELSE <<IF IsRepeated(field) THEN "repeated" ELSE "single", BaseType(field, package, prefix)>>,
      init     |-> DefaultValue(field, c),
      has      |-> HasFieldEnabled(field, c),
      method   |-> IF map # Nothing THEN <<map.key.type, map.value.type>> ELSE <<field.type>>,
      put      |-> IF map # Nothing THEN "map" ELSE IF ~IsRepeated(field) THEN "single"
                   ELSE IF WriteAsPacked(field, c, proto3) THEN "packed" ELSE "repeated",
      get      |-> IF map # Nothing THEN "map" ELSE IF IsRepeated(field) THEN "repeated" ELSE "single",
      required |-> field.label = "required" /\ "no-required" \notin c.option ]

Switch == [class |-> "no-class", encoder |-> "no-encoder", decoder |-> "no-decoder"]

(* A piece that is not switched off.                                       *)
Piece(kind, name, fields, c) ==
    IF Switch[kind] \in c.option THEN <<>>
    ELSE << [kind |-> kind, message |-> name, fields |-> fields] >>

Pieces(name, fields, c) ==
    Piece("class", name, fields, c) \o Piece("encoder", name, fields, c) \o Piece("decoder", name, fields, c)

Faulty(message, map, c) ==
    \/ MalformedEntry(message)
    \/ \E i \in DOMAIN map : Unsupported(map[i]) \/ BadTemplate(message.fields[i], map[i], c)

(* The pieces of code of a message, or a fault: what is written is written *)
(* after the whole message has been generated.                             *)
CodeWithMaps(message, map, c, proto3, package, prefix) ==
    IF Faulty(message, map, c) THEN <<Fault>>
    ELSE Pieces(message.name,
                [i \in DOMAIN map |-> FieldCode(message.fields[i], map[i], c, proto3, package, prefix)], c)

MessageCode(message, c, proto3, package, prefix) ==
    CodeWithMaps(message,
                 [i \in DOMAIN message.fields |-> FindMapType(message.fields[i], message, package, prefix)],
                 c, proto3, package, prefix)

Header(name) == [kind |-> "header", file |-> name]

-----------------------------------------------------------------------------
(* The steps of generator(file)                                            *)

GeneratorInit ==
    /\ current_file_is_proto3 = FALSE
    /\ package_name_prefix = <<>>
    /\ msgtype_name_prefix = <<>>
    /\ stdout = <<>>
    /\ messages = <<>>

(* Mutant of Syntax: only a file that names its syntax sets it.            *)
SyntaxIfNamed(file) == IF file.syntax = "" THEN current_file_is_proto3 ELSE file.syntax = "proto3"

Syntax(file) == file.syntax = "proto3"

BeginFile(name, file) ==
    /\ stdout' = Append(stdout, Header(name))
    /\ current_file_is_proto3' = Syntax(file)
    /\ package_name_prefix' = file.package
    /\ messages' = file.messages
    /\ UNCHANGED msgtype_name_prefix

(* Mutant of CodeOf: the prefix of the message before is still in place.   *)
CodeWithOldPrefix(message, c) ==
    MessageCode(message, c, current_file_is_proto3, package_name_prefix, msgtype_name_prefix)

CodeOf(message, c) ==
    MessageCode(message, c, current_file_is_proto3, package_name_prefix, <<message.name>>)

(* After a fault nothing is written, and nothing more is generated.        *)
GenerateMessage(code) ==
    /\ msgtype_name_prefix' = <<Head(messages).name>>
    /\ stdout' = IF code = <<Fault>> THEN stdout ELSE stdout \o code
    /\ messages' = IF code = <<Fault>> THEN <<>> ELSE Tail(messages)
    /\ UNCHANGED <<current_file_is_proto3, package_name_prefix>>

-----------------------------------------------------------------------------
(* PROPERTIES of what is written                                           *)

(* What a file's code is, whatever was generated before it, and whether   *)
(* all of it can be generated.                                             *)
UpToFault(code) ==
    LET faulty == SelectInSeq(code, LAMBDA p : p = <<Fault>>)
    IN  [whole |-> faulty = 0, output |-> FlattenSeq(IF faulty = 0 THEN code ELSE SubSeq(code, 1, faulty - 1))]

CodeOfFile(name, file, c) ==
    UpToFault(<< <<Header(name)>> >> \o
              [i \in DOMAIN file.messages |->
                 MessageCode(file.messages[i], c, file.syntax = "proto3", file.package,
                             <<file.messages[i].name>>)])

(* The methods of the library.                                             *)
ScalarMethods == DOMAIN CppScalar \ {"group"}
LibraryHas(form, method) ==
    CASE form = "map" -> method[1] \in ScalarMethods /\ method[2] \in ScalarMethods \cup {"message"}
      [] form = "packed" -> method[1] \in ScalarMethods \ {"string", "bytes"}
      [] OTHER -> method[1] \in ScalarMethods \cup {"message"}

(* The code of a message is consistent: it calls methods that exist, with  *)
(* a variable of the right shape; a flag is used only where the struct has *)
(* one; and the decoder reads what the encoder writes.                     *)
GeneratedCodeCompiles ==
    \A i \in DOMAIN stdout : stdout[i].kind \in {"class", "encoder", "decoder"} =>
        \A j \in DOMAIN stdout[i].fields :
            LET f == stdout[i].fields[j]
            IN  /\ LibraryHas(f.put, f.method)
                /\ LibraryHas(f.get, f.method)
                /\ f.type[1] = f.get
                /\ f.required => f.has
                /\ f.put = "packed" => f.get = "repeated"
                /\ f.has => f.get = "single"
=============================================================================
