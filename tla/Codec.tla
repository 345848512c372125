-------------------------------- MODULE Codec -------------------------------
(***************************************************************************)
(* A message that is handed from version to version of a program: encode() *)
(* and decode() as the generator writes them for each version, on the      *)
(* library's Encoder and Decoder.  A version decodes what the one before   *)
(* has encoded and encodes the object again, with an Encoder that result() *)
(* has cleared.                                                            *)
(*                                                                         *)
(* Encoder and Decoder take every step here that they take by themselves,  *)
(* and CodeGenerator decides which calls are made for a field.             *)
(***************************************************************************)
EXTENDS ScalarTypes, SequencesExt

CONSTANTS
    Versions,      \* version -> [messages, syntax, option]: its .proto file and options
    Root,          \* the name of the message that is handed on
    Objects(_),    \* the objects a version may begin with
    Damaged(_),    \* what a transport may make of a buffer
    MaxVersions,   \* bound: versions a message passes
    Addresses, MaxPos, MaxDepth     \* of the Encoder

VARIABLES
    enc, frames, thrown, out,               \* of the Encoder
    input, stack, err, object, fed,         \* of the Decoder
    calls,         \* the put_* calls that the running encode() has yet to make
    stage,         \* "object", "encode", "bytes" or "decode"
    passed,        \* history: the versions the message has come to
    meant,         \* history: its content as the rules have it
    fate           \* history: "whole", "refused" by the rules, or "unknown"

encoderVars == <<enc, frames, thrown, out>>
decoderVars == <<input, stack, err, object, fed>>
historyVars == <<passed, meant, fate>>
vars == <<encoderVars, decoderVars, calls, stage, historyVars>>

-----------------------------------------------------------------------------
(* The code that was generated for a version.                              *)
Gen == INSTANCE CodeGenerator WITH
    current_file_is_proto3 <- FALSE, package_name_prefix <- <<>>, msgtype_name_prefix <- <<>>,
    stdout <- <<>>, messages <- <<>>

Generated(v) ==
    FlattenSeq([i \in DOMAIN Versions[v].messages |->
        Gen!MessageCode(Versions[v].messages[i], [option |-> Versions[v].option, wide |-> {}],
                        Versions[v].syntax = "proto3", <<>>, <<Versions[v].messages[i].name>>)])

Code == [v \in DOMAIN Versions |->
            [t \in {piece.message : piece \in ToSet(Generated(v))} |->
                (CHOOSE piece \in ToSet(Generated(v)) : piece.message = t).fields]]

(* The struct of a message field.                                          *)
Struct(f) == Head(f.type[2].struct.path)

IsMessage(f) == f.method = <<"message">>
IsByteArray(f) == f.method[1] \in ByteArrayTypes

(* The case labels of decode(): how each field is read, for the Decoder.   *)
Reader(v, t, f) ==
    [ kind |-> CASE f.get = "map"      -> "map"
                 [] f.get = "single"   -> IF IsMessage(f) THEN "message"
                                          ELSE IF IsByteArray(f) THEN "bytearray" ELSE "scalar"
                 [] f.get = "repeated" -> IF IsMessage(f) THEN "repeated_message"
                                          ELSE IF IsByteArray(f) THEN "repeated_bytearray" ELSE "repeated",
      type |-> IF f.get = "map" THEN <<v, t, f.number>>
               ELSE IF IsMessage(f) THEN <<v, Struct(f)>> ELSE f.method[1],
      required |-> f.required ]

EntryReader(f) ==
    [i \in 1..2 |-> [ kind |-> IF f.method[i] \in ByteArrayTypes THEN "bytearray" ELSE "scalar",
                      type |-> f.method[i], required |-> FALSE ]]

FieldOf(code, n) == code[SelectInSeq(code, LAMBDA f : f.number = n)]
NumbersOf(code) == {code[i].number : i \in DOMAIN code}

MessageTypes == UNION { {<<v, t>> : t \in DOMAIN Code[v]} : v \in DOMAIN Versions }
EntryTypes == UNION { {<<type[1], type[2], n>> :
                          n \in {m \in NumbersOf(Code[type[1]][type[2]]) :
                                    FieldOf(Code[type[1]][type[2]], m).get = "map"}} : type \in MessageTypes }

Readers ==
    [type \in MessageTypes \cup EntryTypes |->
        LET code == Code[type[1]][type[2]]
        IN  IF Len(type) = 3 THEN EntryReader(FieldOf(code, type[3]))
            ELSE [n \in NumbersOf(code) |-> Reader(type[1], type[2], FieldOf(code, n))]]

NoInputs(before) == {}

Enc == INSTANCE Encoder WITH FieldNums <- {}, Scalars <- {}, ByteArrays <- {}
Dec == INSTANCE Decoder WITH Schema <- Readers, Inputs <- NoInputs

-----------------------------------------------------------------------------
(* The calls of encode(), which writes every field, set or not.            *)
WriterOf(type) ==
    CASE type \in VarintTypes          -> "varint"
      [] type \in ZigZagTypes          -> "zigzag"
      [] WireTypeFor(type) = Fixed32   -> "fixed32"
      [] WireTypeFor(type) = Fixed64   -> "fixed64"

PutCall(number, type, x) ==
    IF type \in ByteArrayTypes THEN [op |-> "bytes", number |-> number, bytes |-> x]
    ELSE [op |-> "scalar", number |-> number, scalar |-> <<WriterOf(type), x>>]

Put(v, f, x) ==
    IF IsMessage(f) THEN [op |-> "message", number |-> f.number, type |-> <<v, Struct(f)>>, object |-> x]
    ELSE PutCall(f.number, f.method[1], x)

(* Mutant of PutMap: the keys without their values.                        *)
PutMapKeys(f, x) ==
    LET keys == SetToSortSeq(DOMAIN x, <)
    IN  [i \in DOMAIN keys |->
            [ op |-> "delimited", kind |-> "message", number |-> f.number,
              body |-> <<PutCall(1, f.method[1], keys[i])>> ]]

(* put_map_TYPE1_TYPE2, in the order of a std::map.                        *)
PutMap(f, x) ==
    LET keys == SetToSortSeq(DOMAIN x, <)
    IN  [i \in DOMAIN keys |->
            [ op |-> "delimited", kind |-> "message", number |-> f.number,
              body |-> <<PutCall(1, f.method[1], keys[i]), PutCall(2, f.method[2], x[keys[i]])>> ]]

PutPacked(f, x) ==
    << [ op |-> "delimited", kind |-> "packed", number |-> f.number,
         body |-> [i \in DOMAIN x |-> [op |-> "element", scalar |-> <<WriterOf(f.method[1]), x[i]>>]] ] >>

PutField(v, f, x) ==
    CASE f.put = "single"   -> <<Put(v, f, x)>>
      [] f.put = "repeated" -> [i \in DOMAIN x |-> Put(v, f, x[i])]
      [] f.put = "packed"   -> PutPacked(f, x)
      [] f.put = "map"      -> PutMap(f, x)

(* write_length_delimited's second half.                                   *)
Commit == [op |-> "commit"]

EncodeCalls(type, obj) ==
    LET code == Code[type[1]][type[2]]
    IN  FlattenSeq([i \in DOMAIN code |-> PutField(type[1], code[i], obj.val[code[i].number])])

-----------------------------------------------------------------------------
Rules == INSTANCE VersionRules WITH Fields <- Readers

Version == Last(passed)
TypeAt(v) == <<v, Root>>

Init ==
    /\ \E v \in DOMAIN Versions : passed = <<v>> /\ object \in Objects(v)
    /\ meant = Rules!Content(TypeAt(Version), object)
    /\ fate = "whole"
    /\ stage = "object"
    /\ calls = <<>>
    /\ Enc!Init
    /\ input = <<>> /\ stack = <<>> /\ err = "none" /\ fed = <<>>

(* encode(const MessageType&).                                             *)
BeginEncoding ==
    /\ stage = "object" /\ fate = "whole"
    /\ Len(passed) < MaxVersions
    /\ stage' = "encode"
    /\ calls' = EncodeCalls(TypeAt(Version), object)
    /\ UNCHANGED <<encoderVars, decoderVars, historyVars>>

NextCall(op) == stage = "encode" /\ calls # <<>> /\ Head(calls).op = op

Made(further) ==
    /\ calls' = further \o Tail(calls)
    /\ UNCHANGED <<decoderVars, historyVars, stage>>

PutScalar ==
    /\ NextCall("scalar")
    /\ Enc!PutScalar(Head(calls).number, Head(calls).scalar)
    /\ Made(<<>>)

WriteElement ==
    /\ NextCall("element")
    /\ Enc!WriteElement(Head(calls).scalar)
    /\ Made(<<>>)

PutBytes ==
    /\ NextCall("bytes")
    /\ Enc!PutBytes(Head(calls).number, Head(calls).bytes)
    /\ Made(<<>>)

(* write_length_delimited runs a lambda between its two halves: encode()   *)
(* of the sub-message, or what the call has for a body.                    *)
OpenMessage ==
    /\ NextCall("message")
    /\ Enc!OpenField(Head(calls).number, "message")
    /\ Made(EncodeCalls(Head(calls).type, Head(calls).object) \o <<Commit>>)

OpenDelimited ==
    /\ NextCall("delimited")
    /\ Enc!OpenField(Head(calls).number, Head(calls).kind)
    /\ Made(Head(calls).body \o <<Commit>>)

CloseField ==
    /\ NextCall("commit")
    /\ Enc!CloseField
    /\ Made(<<>>)

Result ==
    /\ stage = "encode" /\ calls = <<>>
    /\ Enc!Result
    /\ stage' = "bytes"
    /\ UNCHANGED <<decoderVars, calls, historyVars>>

(* decode<MessageType>(buffer): a new object and the cursor on the buffer. *)
BeginDecoding(v, buffer) ==
    /\ stage = "bytes"
    /\ stage' = "decode"
    /\ passed' = Append(passed, v)
    /\ input' = buffer
    /\ object' = Dec!Blank[TypeAt(v)]
    /\ stack' = <<Dec!Activation(0, Len(buffer), TypeAt(v), object', "root", 0)>>
    /\ UNCHANGED <<encoderVars, err, fed, calls>>

(* The bytes come to another version, or to the same.                      *)
Deliver ==
    \E v \in DOMAIN Versions :
        /\ BeginDecoding(v, out)
        /\ meant' = Rules!AsRead(TypeAt(v), meant)
        /\ fate' = IF Rules!Whole(TypeAt(v), meant) THEN "whole" ELSE "refused"

(* The bytes come damaged; what is made of them is not handed on.  Bound:  *)
(* only on the first way.                                                  *)
DeliverDamaged ==
    /\ Len(passed) = 1
    /\ \E buffer \in Damaged(out) :
         /\ BeginDecoding(Version, buffer)
         /\ fate' = "unknown"
         /\ UNCHANGED meant

Decode ==
    /\ stage = "decode"
    /\ Dec!Work
    /\ stage' = IF stack' = <<>> THEN "object" ELSE "decode"
    /\ UNCHANGED <<encoderVars, calls, historyVars>>

Encode ==
    PutScalar \/ WriteElement \/ PutBytes \/ OpenMessage \/ OpenDelimited \/ CloseField \/ Result

(* The message has come to its last version, or to one that refused it.    *)
Finished ==
    /\ stage = "object"
    /\ fate # "whole" \/ Len(passed) = MaxVersions
    /\ UNCHANGED vars

Next == BeginEncoding \/ Encode \/ Deliver \/ DeliverDamaged \/ Decode \/ Finished

(* A message need not be handed on, but a call that has begun runs on.     *)
Spec == Init /\ [][Next]_vars /\ WF_vars(Decode)

-----------------------------------------------------------------------------
(* A message arrives as the rules say, after any number of versions: it is *)
(* refused only where a required field is missing that a version before    *)
(* did not know, and otherwise every field has the value it had, even if   *)
(* versions in between keep sub-messages as bytes, maps as repeated        *)
(* entries, or repeated fields packed (codegen.cpp:303 and 316).           *)
ArrivesAsMeant ==
    stage = "object" /\ fate # "unknown" =>
        /\ err = "none" <=> fate = "whole"
        /\ fate = "whole" => Rules!Agrees(Rules!Content(TypeAt(Version), object), meant)

(* A decode() call ends, with an object or an exception, whatever becomes  *)
(* of the bytes on their way.                                              *)
CallsEnd == stage = "decode" ~> stage = "object"
=============================================================================
