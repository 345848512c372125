----------------------------- MODULE MCDecoder -----------------------------
(***************************************************************************)
(* Decoder on one message type with a field of every kind, fed with whole, *)
(* repeated, incomplete and malformed fields in every order, in one call   *)
(* or several, and compared with DecodeReference.                          *)
(***************************************************************************)
EXTENDS DecoderResults

CONSTANTS
    Buffers,    \* buffers that consist of fields, sound or not
    Strings,    \* buffers of any bytes
    MaxCalls    \* bound: calls that decode into one object

Def(kind, type) == [kind |-> kind, type |-> type, required |-> FALSE]

OneOfEach ==
    [M |-> << Def("scalar", "int32"), Def("message", "Sub"), Def("repeated", "sint32"),
              Def("map", "Entry"), Def("bytearray", "bytes"), Def("repeated_message", "Sub"),
              Def("map", "Keyed"), Def("repeated_bytearray", "string") >>,
     Sub |-> << [Def("scalar", "fixed32") EXCEPT !.required = TRUE], Def("bytearray", "bytes") >>,
     Entry |-> << Def("scalar", "uint32"), Def("bytearray", "string") >>,
     Keyed |-> << Def("bytearray", "string"), Def("message", "Sub") >>]

TagOf(f, w) == VarintBytes(Tag(f, w))
Num(f, type, x) == TagOf(f, WireTypeFor(type)) \o WriterBytes(type, x)
Str(f, bytes) == TagOf(f, Delimited) \o VarintBytes(Len(bytes)) \o bytes

Whole == Num(1, "fixed32", 9)
Pieces ==
    { Num(1, "int32", -2), Num(1, "fixed32", 200),        \* int32, as VARINT and FIXED32
      Str(2, Whole), Str(2, Str(2, <<1>>)), Str(2, Whole \o Str(2, <<7, 7>>)),
      Str(3, WriterBytes("sint32", 3) \o WriterBytes("sint32", -40)),
      Num(3, "sint32", -1),
      Str(4, Num(1, "uint32", 6) \o Str(2, <<2>>)),
      Str(4, Num(1, "uint32", 6) \o Str(2, <<3, 4>>)), Str(4, Num(1, "uint32", 7)),
      Str(5, <<15, 15>>), Str(6, Whole), Str(8, <<5>>), Num(9, "fixed64", 1),
      Str(7, Str(2, Whole) \o Str(1, <<>>)), Str(7, Str(2, Whole) \o Str(2, Str(2, <<4>>))) }

BadPieces ==
    { TagOf(1, Varint), Num(5, "uint32", 1),              \* no value; a varint for bytes
      Str(3, WriterBytes("sint32", 3) \o <<Base>>),       \* the last element is cut
      Str(2, Whole \o Num(1, "double", 5) \o <<Base + 1>>),
      Str(6, Whole \o Str(2, <<1>>) \o <<9>>),
      Str(6, <<>>),                                       \* no required field
      TagOf(9, Group),
      Str(7, Str(1, <<>>) \o Str(2, <<>>)),
      TagOf(5, Delimited) \o VarintBytes(INT32_MAX + 1),
      [i \in 1 .. MAX_VARINT_SIZE |-> Base],              \* a varint without an end
      VarintBytes(U32 + 9) }

Cut(bytes) == {SubSeq(bytes, 1, n) : n \in 1 .. Len(bytes) - 1}

SomeInputs == Pieces \cup BadPieces \cup Cut(Str(4, Num(1, "uint32", 6) \o Str(2, <<2>>)))
              \cup Cut(Str(2, Whole) \o Num(9, "fixed64", 1))

(* Every string of five bytes, most of them malformed, over the tags of    *)
(* fields 1 to 4 in three wire types, and lengths and values up to 4.      *)
ShortInputs == [1 .. 5 -> {0, 1, 2, 3, 4, Base, Base + Delimited, Base + Fixed32}]

(* A string of any bytes is decoded into a new object only.                *)
NextInputs(before) ==
    IF before = <<>> THEN Buffers \cup Strings
    ELSE IF Len(before) < MaxCalls /\ before[1] \in Buffers THEN Buffers
    ELSE {}

=============================================================================
