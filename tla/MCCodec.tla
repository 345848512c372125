------------------------------- MODULE MCCodec ------------------------------
(***************************************************************************)
(* Five versions of one message, with a field of every kind, that differ   *)
(* in what a .proto file may change without changing the wire format.      *)
(***************************************************************************)
EXTENDS Codec, TLC

Field(name, number, label, type) ==
    [ name |-> name, number |-> number, label |-> label, type |-> type, type_name |-> <<>>,
      packed |-> "none", default |-> Gen!Nothing ]
Ref(name, number, label, type_name) ==
    [Field(name, number, label, "message") EXCEPT !.type_name = type_name]
Message(name, fields, nested) == [name |-> name, fields |-> fields, nested |-> nested]
File(syntax, types) == [syntax |-> syntax, option |-> {}, messages |-> types]

EntryFields == <<Field("key", 1, "optional", "uint32"), Field("value", 2, "optional", "string")>>
Entry == [name |-> "Entry", map_entry |-> TRUE, fields |-> EntryFields]

Sub(label) ==
    Message("S", <<Field("x", 1, label, "fixed32"), Field("more", 2, "repeated", "uint32")>>, <<>>)

Full(label) ==
    Message("M",
        << Field("id", 1, label, "int32"), Ref("sub", 2, "optional", <<"S">>),
           Field("nums", 3, "repeated", "sint32"), Ref("map", 4, "repeated", <<"M", "Entry">>),
           Ref("subs", 5, "repeated", <<"S">>), Field("name", 6, "optional", "string") >>, <<Entry>>)

(* It does not look into sub-messages and map entries.                     *)
Relay ==
    Message("M",
        << Field("id", 1, "optional", "int32"), Field("sub", 2, "optional", "bytes"),
           [Field("nums", 3, "repeated", "sint32") EXCEPT !.packed = "true"], Ref("map", 4, "repeated", <<"E">>),
           Field("subs", 5, "repeated", "bytes"), Field("name", 6, "optional", "bytes") >>, <<>>)

(* It knows fewer fields, not even one that is required of S.              *)
Old == << Message("M", <<Field("id", 1, "required", "int32"), Ref("sub", 2, "optional", <<"S">>),
                         Field("nums", 3, "repeated", "sint32")>>, <<>>),
          Message("S", <<Field("more", 2, "repeated", "uint32")>>, <<>>) >>

(* What was single has become repeated.                                    *)
Wider ==
    Message("M",
        << Field("id", 1, "repeated", "int32"), Ref("sub", 2, "repeated", <<"S">>),
           Field("nums", 3, "repeated", "sint32"), Ref("map", 4, "repeated", <<"M", "Entry">>),
           Field("name", 6, "repeated", "string") >>, <<Entry>>)

Files ==
    [ proto2 |-> File("proto2", <<Full("required"), Sub("required")>>),
      proto3 |-> File("proto3", <<Full("optional"), Sub("optional")>>),
      relay  |-> File("proto2", <<Relay, Message("E", EntryFields, <<>>)>>),
      old    |-> File("proto2", Old),
      wider  |-> File("proto2", <<Wider, Sub("optional")>>) ]

-----------------------------------------------------------------------------
Value(val) == [has |-> {}, val |-> val]
SubValue(x, more) == Value(<<x, more>>)

Filled == Value(<<-2, SubValue(9, <<1, 2>>), <<-1, 40>>, (7 :> <<2>>) @@ (3 :> <<>>),
                  <<SubValue(0, <<>>), SubValue(200, <<5>>)>>, <<15>>>>)
Empty == Value(<<0, SubValue(0, <<>>), <<>>, <<>>, <<>>, <<>>>>)

Twice == Value((1 :> <<3, 4>>) @@ (2 :> <<SubValue(1, <<1>>), SubValue(2, <<>>), SubValue(3, <<3>>)>>)
               @@ (3 :> <<6>>) @@ (4 :> (1 :> <<1>>)) @@ (6 :> <<<<1>>, <<>>>>))
Nobody == Value([n \in {1, 2, 3, 4, 6} |-> <<>>])

ObjectsOf(v) ==
    CASE v \in {"proto2", "proto3"} -> {Filled, Empty}
      [] v = "wider" -> {Twice, Nobody}
      [] OTHER -> {}

(* A buffer that is cut, or has a byte overwritten.                        *)
CutOrOverwritten(bytes) ==
    {SubSeq(bytes, 1, n) : n \in 0 .. Len(bytes) - 1}
    \cup {[bytes EXCEPT ![i] = b] : i \in DOMAIN bytes, b \in {Group, 2 * Base - 1}}
=============================================================================
