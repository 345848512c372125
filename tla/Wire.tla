-------------------------------- MODULE Wire --------------------------------
(***************************************************************************)
(* The ProtoBuf wire format as easypb.hpp writes and reads it: varints,    *)
(* zigzag, fixed-width integers, length prefixes and field tags.           *)
(*                                                                         *)
(* The code's widths are the parameters.  In the program a varint byte     *)
(* carries 7 bits (Base = 128) and a continuation bit, a byte has          *)
(* 2 * Base = 256 values, and the two fixed widths are 4 and 8 bytes.  The *)
(* model checker runs a smaller machine in the same proportions; every     *)
(* formula below is the code's own, for any of them.                       *)
(***************************************************************************)
EXTENDS Integers, Sequences, FiniteSets, FiniteSetsExt

CONSTANTS
    Base,                 \* 128: the values one varint byte carries
    SIZE32,               \* 4: bytes of a FIXED32 value
    SIZE64,               \* 8: bytes of a FIXED64 value
    MAX_VARINT_SIZE,      \* 10: varint bytes that hold any 64-bit value
    MAX_LENGTH_CODE_SIZE, \* 5: varint bytes reserved for a message length
    FIELDNUM_SCALE        \* 8: scales a field number to a tag

ASSUME WidthAssumption ==
    /\ Base \in Nat \ {0, 1}
    /\ SIZE64 \in Nat /\ SIZE32 \in 1 .. SIZE64
    /\ MAX_VARINT_SIZE \in Nat /\ MAX_LENGTH_CODE_SIZE \in 1 .. MAX_VARINT_SIZE
    /\ FIELDNUM_SCALE \in Nat \ {0}

ByteValues == 2 * Base
Byte == 0 .. ByteValues - 1

U32 == ByteValues ^ SIZE32          \* uint32_t arithmetic is modulo this
U64 == ByteValues ^ SIZE64
INT32_MAX == (U32 \div 2) - 1

(***************************************************************************)
(* What ^ computes, for the powers that the shifts of the code stand for   *)
(* (the provers know nothing of it), that the two sizes hold the widths    *)
(* they name, and that a word holds any length a prefix can.               *)
(***************************************************************************)
ASSUME PowerAssumption ==
    /\ Base ^ 0 = 1
    /\ \A i \in 1 .. MAX_VARINT_SIZE : Base ^ i = Base ^ (i - 1) * Base
    /\ ByteValues ^ 0 = 1
    /\ \A i \in 1 .. SIZE64 : ByteValues ^ i = ByteValues ^ (i - 1) * ByteValues
    /\ U64 <= Base ^ MAX_VARINT_SIZE
    /\ U32 <= Base ^ MAX_LENGTH_CODE_SIZE
    /\ Base ^ MAX_LENGTH_CODE_SIZE <= U64

(* No fewer bytes hold every word.                                         *)
ASSUME VarintAssumption == Base ^ (MAX_VARINT_SIZE - 1) < U64

Varint    == 0
Fixed64   == 1
Delimited == 2
Group     == 3                       \* START_GROUP; END_GROUP is handled alike
Fixed32   == 5

-----------------------------------------------------------------------------
(* C++ integer conversions, as the value the target type ends up holding.  *)

ToU32(x) == x % U32
ToU64(x) == x % U64
ToI32(x) == ((x + U32 \div 2) % U32) - (U32 \div 2)
ToI64(x) == ((x + U64 \div 2) % U64) - (U64 \div 2)

-----------------------------------------------------------------------------
(* Writing.                                                                *)

(* Mutant of Digit: the bits of later bytes are not masked off.            *)
DigitUnmasked(v, i) == v \div Base ^ i

Digit(v, i) == (v \div Base ^ i) % Base

(* One byte, plus one for every shift of v that still exceeds seven bits.  *)
VarintSize(v) == 1 + Cardinality({k \in 1 .. MAX_VARINT_SIZE - 1 : v >= Base ^ k})

VarintBytes(v) ==
    LET n == VarintSize(v)
    IN  [i \in 1 .. n |-> Digit(v, i - 1) + (IF i < n THEN Base ELSE 0)]

(* The fixed-size varint of write_varint_at: continuation bits up to the   *)
(* last byte, which keeps whatever of the value one char can hold.         *)
PaddedVarint(v, n) ==
    [i \in 1 .. n |-> IF i < n THEN Digit(v, i - 1) + Base
                               ELSE (v \div Base ^ (n - 1)) % ByteValues]

(* Mutant of FitsPadded: a continuation bit in the last byte goes unseen.  *)
FitsWholeByte(v, n) == v \div Base ^ (n - 1) < ByteValues

FitsPadded(v, n) == v \div Base ^ (n - 1) < Base

FixedBytes(v, n) == [i \in 1 .. n |-> (v \div ByteValues ^ (i - 1)) % ByteValues]

ZigZag(x) == IF x >= 0 THEN 2 * x ELSE -(2 * x) - 1
UnZigZag(u) == IF u % 2 = 0 THEN u \div 2 ELSE -((u + 1) \div 2)

Tag(field_num, wire_type) == ToU32(field_num * FIELDNUM_SCALE + wire_type)

-----------------------------------------------------------------------------
(* Reading.  p and end are offsets into buf, which starts at offset 0.  A  *)
(* read returns either the value and the offset after it, or the error     *)
(* thrown, with the offset the pointer is left at.                         *)

Read(v, q) == [err |-> "none", val |-> v, ptr |-> q]
Throw(e, q) == [err |-> e, val |-> 0, ptr |-> q]

(* The number with these n digits to a base, the least significant first.  *)
Assemble(digit, base, n) ==
    LET value[k \in 0 .. n] ==
          IF k = 0 THEN 0 ELSE value[k - 1] + digit[k] * base ^ (k - 1)
    IN  value[n]

(* The value of the n varint bytes at p; bits above the word are lost.     *)
ValueOf(buf, p, n) == Assemble([i \in 1 .. n |-> buf[p + i] % Base], Base, n) % U64

(* How many of the n bytes at p continue, before the first that does not.  *)
Continued(buf, p, n) ==
    CHOOSE i \in 0 .. n :
        /\ i = n \/ buf[p + i + 1] < Base
        /\ \A j \in 0 .. i - 1 : buf[p + j + 1] >= Base

(* The byte at which the shift count reaches the width of the word.        *)
WORD_SHIFTED_OUT == Min({i \in 0 .. MAX_VARINT_SIZE : Base ^ i >= U64})

ReadVarintSlow(buf, p, end) ==
    LET i == Continued(buf, p, end - p)
    IN  IF p + WORD_SHIFTED_OUT < end /\ i >= WORD_SHIFTED_OUT
        THEN Throw("varint_too_long", p + WORD_SHIFTED_OUT)
        ELSE IF p + i = end THEN Throw("unexpected_eof", end)
        ELSE Read(ValueOf(buf, p, i + 1), p + i + 1)

ReadVarintFast(buf, p) ==
    LET i == Continued(buf, p, MAX_VARINT_SIZE)
    IN  IF i = MAX_VARINT_SIZE THEN Throw("varint_too_long", p)
        ELSE Read(ValueOf(buf, p, i + 1), p + i + 1)

ReadVarint(buf, p, end) ==
    IF end - p < MAX_VARINT_SIZE THEN ReadVarintSlow(buf, p, end)
                                 ELSE ReadVarintFast(buf, p)

ReadFixed(buf, p, end, n) ==
    IF end - p < n THEN Throw("unexpected_eof", p)
    ELSE Read(Assemble([i \in 1 .. n |-> buf[p + i]], ByteValues, n), p + n)
=============================================================================
