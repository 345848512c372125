---------------------------- MODULE TypeEvolution ---------------------------
(***************************************************************************)
(* A field whose type changes from one version of a program to the next.   *)
(* Each version decodes the field that the version before it encoded, and  *)
(* encodes it again as the type it declares.  The README calls the changes *)
(* that keep the value a type domain; this module finds which do.          *)
(***************************************************************************)
EXTENDS ScalarTypes

CONSTANT MaxVersions        \* bound: versions of the program

VARIABLES
    stored,                 \* the value the first version was given
    versions,               \* the types declared so far, the latest last
    seen,                   \* what the latest version holds in the field
    field                   \* its encoding of it: the wire type and the bytes

vars == <<stored, versions, seen, field>>

Types == IntegralTypes \cup ZigZagTypes

Latest == versions[Len(versions)]

(* put_TYPE, the tag's field number aside.                                 *)
Put(type, x) == [wire |-> WireTypeFor(type), bytes |-> WriterBytes(type, x)]

(* get_TYPE on the field.                                                  *)
Get(type) == ParseScalar(type, field.wire, field.bytes, 0, Len(field.bytes))

Init ==
    \E type \in Types, x \in ValuesOf("int64") \cup ValuesOf("uint64") :
        /\ x \in ValuesOf(type)
        /\ stored = x
        /\ versions = <<type>>
        /\ seen = x
        /\ field = Put(type, x)

(* No integral wire type is refused: decoding cannot fail here.            *)
Upgrade(type) ==
    /\ Len(versions) < MaxVersions
    /\ Get(type).err = "none"
    /\ versions' = Append(versions, type)
    /\ seen' = Get(type).val
    /\ field' = Put(type, Get(type).val)
    /\ UNCHANGED stored

Next == \E type \in Types : Upgrade(type)

Spec == Init /\ [][Next]_vars

-----------------------------------------------------------------------------
FixedTypes == Fixed32Types \cup Fixed64Types

(* FIXED32 is widened without its sign by the integral readers and with it *)
(* by the zigzag readers, whichever the writer's type.                     *)
Missigned(old, new) ==
    \/ old = "sfixed32" /\ new \in Signed64 \ ZigZagTypes /\ stored < 0
    \/ old = "fixed32"  /\ new = "sint64" /\ stored > INT32_MAX

(* The changes of type that keep the value.                                *)
Keeps(old, new) ==
    /\ \/ {old, new} \subseteq IntegralTypes
       \/ old \in ZigZagTypes \cup FixedTypes /\ new \in ZigZagTypes
    /\ stored \in ValuesOf(new)
    /\ ~Missigned(old, new)

(* A value that fits every version's type passes through all of them,      *)
(* whatever mixture of VARINT, FIXED32 and FIXED64 they use, unless one of *)
(* them widens a FIXED32 against its sign.                                 *)
ValueSurvives ==
    (\A i \in 1 .. Len(versions) - 1 : Keeps(versions[i], versions[i + 1])) => seen = stored

(* No chain of integral types makes a decoder throw: each accepts each of  *)
(* the three integral wire types.                                          *)
NeverRefused == \A type \in Types : Get(type).err = "none"

(* The README's claim for the integrals domain with the fixed-width types: *)
(* a value that fits the old type and the new one is decoded correctly.    *)
IntegralsKeepValue ==
    (\A i \in 1 .. Len(versions) : versions[i] \in IntegralTypes /\ stored \in ValuesOf(versions[i]))
        => seen = stored
=============================================================================
