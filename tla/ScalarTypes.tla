---------------------------- MODULE ScalarTypes ----------------------------
(***************************************************************************)
(* The ProtoBuf field types of easypb.hpp: how put_TYPE writes a value and *)
(* how get_TYPE and get_repeated_TYPE read one, as the two macro tables    *)
(* EASYPB_DEFINE_WRITERS and EASYPB_DEFINE_READERS instantiate them.       *)
(*                                                                         *)
(* Integral values are integers of the type's range.  A floating-point     *)
(* value is its bit pattern, of which a float is the leading half: exact   *)
(* when widened, truncated when narrowed.  Exponent ranges are left out.   *)
(***************************************************************************)
EXTENDS Wire

VarintTypes  == {"int32", "int64", "uint32", "uint64", "bool", "enum"}
ZigZagTypes  == {"sint32", "sint64"}
Fixed32Types == {"fixed32", "sfixed32"}
Fixed64Types == {"fixed64", "sfixed64"}
FPTypes      == {"float", "double"}
IntegralTypes == VarintTypes \cup Fixed32Types \cup Fixed64Types
NumericTypes == IntegralTypes \cup ZigZagTypes \cup FPTypes
ByteArrayTypes == {"string", "bytes"}

Signed32   == {"int32", "enum", "sint32", "sfixed32"}
Signed64   == {"int64", "sint64", "sfixed64"}
Unsigned32 == {"uint32", "fixed32", "float"}
Unsigned64 == {"uint64", "fixed64", "double"}

(* Conversion to the C++ type of a field.                                  *)
Cast(type, x) ==
    CASE type \in Signed32   -> ToI32(x)
      [] type \in Signed64   -> ToI64(x)
      [] type \in Unsigned32 -> ToU32(x)
      [] type \in Unsigned64 -> ToU64(x)
      [] type = "bool"       -> IF x = 0 THEN 0 ELSE 1

(* The values a C++ variable of the type can hold.                         *)
ValuesOf(type) ==
    CASE type \in Signed32   -> -(U32 \div 2) .. INT32_MAX
      [] type \in Signed64   -> -(U64 \div 2) .. (U64 \div 2) - 1
      [] type \in Unsigned32 -> 0 .. U32 - 1
      [] type \in Unsigned64 -> 0 .. U64 - 1
      [] type = "bool"       -> {0, 1}

-----------------------------------------------------------------------------
WireTypeFor(type) ==
    CASE type \in VarintTypes \cup ZigZagTypes     -> Varint
      [] type \in Fixed32Types \cup {"float"}      -> Fixed32
      [] type \in Fixed64Types \cup {"double"}     -> Fixed64
      [] type \in ByteArrayTypes \cup {"message"}  -> Delimited

(* WRITER(value): what follows the tag in put_TYPE, and the whole of one   *)
(* element in put_packed_TYPE.                                             *)
WriterBytes(type, x) ==
    CASE type \in VarintTypes                  -> VarintBytes(ToU64(x))
      [] type \in ZigZagTypes                  -> VarintBytes(ZigZag(x))
      [] type \in Fixed32Types \cup {"float"}  -> FixedBytes(ToU32(x), SIZE32)
      [] type \in Fixed64Types \cup {"double"} -> FixedBytes(ToU64(x), SIZE64)

-----------------------------------------------------------------------------
(* PARSER(): the value in a field of the given wire type.                  *)

Map(r, Op(_)) == IF r.err = "none" THEN [r EXCEPT !.val = Op(@)] ELSE r

(* Mutant of ParseInteger: FIXED64 is left to the type of the field.       *)
ParseShortInteger(wire_type, buf, p, end) ==
    CASE wire_type = Varint  -> ReadVarint(buf, p, end)
      [] wire_type = Fixed32 -> ReadFixed(buf, p, end, SIZE32)
      [] OTHER               -> Throw("wiretype_mismatch", p)

ParseInteger(wire_type, buf, p, end) ==
    CASE wire_type = Varint  -> ReadVarint(buf, p, end)
      [] wire_type = Fixed64 -> ReadFixed(buf, p, end, SIZE64)
      [] wire_type = Fixed32 -> ReadFixed(buf, p, end, SIZE32)
      [] OTHER               -> Throw("wiretype_mismatch", p)

(* Mutant of ParseZigZag: FIXED32 is widened without its sign.             *)
ParseZigZagUnsigned(wire_type, buf, p, end) ==
    CASE wire_type = Varint  -> Map(ReadVarint(buf, p, end), UnZigZag)
      [] wire_type = Fixed64 -> Map(ReadFixed(buf, p, end, SIZE64), ToI64)
      [] wire_type = Fixed32 -> ReadFixed(buf, p, end, SIZE32)
      [] OTHER               -> Throw("wiretype_mismatch", p)

ParseZigZag(wire_type, buf, p, end) ==
    CASE wire_type = Varint  -> Map(ReadVarint(buf, p, end), UnZigZag)
      [] wire_type = Fixed64 -> Map(ReadFixed(buf, p, end, SIZE64), ToI64)
      [] wire_type = Fixed32 -> Map(ReadFixed(buf, p, end, SIZE32), ToI32)
      [] OTHER               -> Throw("wiretype_mismatch", p)

Narrow(d) == d \div (U64 \div U32)
Widen(f)  == f * (U64 \div U32)

ParseFP(type, wire_type, buf, p, end) ==
    CASE wire_type = Fixed64 -> Map(ReadFixed(buf, p, end, SIZE64),
                                    LAMBDA d : IF type = "float" THEN Narrow(d) ELSE d)
      [] wire_type = Fixed32 -> Map(ReadFixed(buf, p, end, SIZE32),
                                    LAMBDA f : IF type = "float" THEN f ELSE Widen(f))
      [] OTHER               -> Throw("wiretype_mismatch", p)

(* get_TYPE of a numeric type.                                             *)
ParseScalar(type, wire_type, buf, p, end) ==
    LET r == CASE type \in IntegralTypes -> ParseInteger(wire_type, buf, p, end)
               [] type \in ZigZagTypes   -> ParseZigZag(wire_type, buf, p, end)
               [] type \in FPTypes       -> ParseFP(type, wire_type, buf, p, end)
    IN  Map(r, LAMBDA x : Cast(type, x))

(* READER(): one element of a packed field.                                *)
ReadElement(type, buf, p, end) ==
    LET r == CASE type \in VarintTypes                  -> ReadVarint(buf, p, end)
               [] type \in ZigZagTypes                  -> Map(ReadVarint(buf, p, end), UnZigZag)
               [] type \in Fixed32Types \cup {"float"}  -> ReadFixed(buf, p, end, SIZE32)
               [] type \in Fixed64Types \cup {"double"} -> ReadFixed(buf, p, end, SIZE64)
    IN  Map(r, LAMBDA x : Cast(type, x))

(* Mutant of AdvanceOver: the end of the slice is not checked.             *)
AdvanceUnchecked(p, end, n) == Read(n, p + n)

(* Decoder::advance_ptr.                                                   *)
AdvanceOver(p, end, n) == IF end - p < n THEN Throw("unexpected_eof", p) ELSE Read(n, p + n)

(* Mutant of PayloadAfter: the length is taken for an int32 unchecked.     *)
PayloadOfSignedLength(len, end) ==
    IF len.err # "none" THEN len
    ELSE AdvanceOver(len.ptr, end, ToI32(len.val))

(* The bytes that follow a length as it was read.                          *)
PayloadAfter(len, end) ==
    IF len.err # "none" THEN len
    ELSE IF len.val > INT32_MAX THEN Throw("length_too_long", len.ptr)
    ELSE AdvanceOver(len.ptr, end, len.val)

(* The payload of a length-delimited field: its length, and the offset     *)
(* after it.  The payload is the val bytes before ptr.                     *)
ParseByteArray(wire_type, buf, p, end) ==
    IF wire_type # Delimited THEN Throw("wiretype_mismatch", p)
    ELSE PayloadAfter(ReadVarint(buf, p, end), end)

Payload(buf, r) == SubSeq(buf, r.ptr - r.val + 1, r.ptr)

SkipField(wire_type, buf, p, end) ==
    CASE wire_type = Varint    -> ReadVarint(buf, p, end)
      [] wire_type = Fixed32   -> AdvanceOver(p, end, SIZE32)
      [] wire_type = Fixed64   -> AdvanceOver(p, end, SIZE64)
      [] wire_type = Delimited -> ParseByteArray(Delimited, buf, p, end)
      [] OTHER                 -> Throw("unsupported_wiretype", p)
=============================================================================
