----------------------------- MODULE MCEncoder -----------------------------
(***************************************************************************)
(* A machine whose varint byte carries one bit: words of 16 and 256        *)
(* values, and byte arrays of INT32_MAX = 7 bytes.  The tag of field 1     *)
(* takes four bytes; that of field 2 is beyond uint32_t and wraps.         *)
(***************************************************************************)
EXTENDS Encoder

(* A varint of the largest size, a negative zigzag value, both fixed sizes *)
SomeScalars == {<<"varint", -1>>, <<"zigzag", -3>>, <<"fixed32", -2>>, <<"fixed64", 77>>}

Run(n) == [i \in 1 .. n |-> i % ByteValues]
SomeByteArrays == {<<>>, Run(INT32_MAX), Run(INT32_MAX + 1)}
=============================================================================
