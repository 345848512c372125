------------------------------- MODULE Decoder ------------------------------
(***************************************************************************)
(* The Decoder class of easypb.hpp, driven by the decode() functions that  *)
(* codegen writes: one activation per Decoder cursor on the call stack,    *)
(* one step per field or packed element.                                   *)
(*                                                                         *)
(* An activation reads the slice of the input that its parent delimited:   *)
(* a sub-message straight into the parent's field, a repeated sub-message  *)
(* or a map entry into a local of its own, a packed field into the         *)
(* parent's container.  An exception unwinds the stack and leaves whatever *)
(* was decoded in place.                                                   *)
(***************************************************************************)
EXTENDS MessageTypes

CONSTANTS
    Root,          \* the message type that decode() is called for
    Inputs(_)      \* the buffers that may follow those in fed; none beyond the bound

ASSUME RootAssumption == Root \in DOMAIN Schema

VARIABLES
    input,         \* the buffer being decoded
    stack,         \* the open Decoder cursors, innermost last
    err,           \* the exception in flight or thrown by the last call
    object,        \* the destination, while no call runs
    fed            \* the buffers decoded into it so far, concatenated

vars == <<input, stack, err, object, fed>>

-----------------------------------------------------------------------------
(* get_TYPE(&x.field, &x.has_field).                                       *)
Assign(obj, f, v) == [obj EXCEPT !.val[f] = v, !.has = @ \cup {f}]

PushBack(obj, f, v) == [obj EXCEPT !.val[f] = Append(@, v)]

(* Mutant of InsertEntry: the first value of a key stays.                  *)
InsertIfAbsent(obj, f, key, v) ==
    [obj EXCEPT !.val[f] = [k \in DOMAIN @ \cup {key} |-> IF k \in DOMAIN @ THEN @[k] ELSE v]]

(* The assignment to field[key].                                           *)
InsertEntry(obj, f, key, v) ==
    [obj EXCEPT !.val[f] = [k \in DOMAIN @ \cup {key} |-> IF k = key THEN v ELSE @[k]]]

-----------------------------------------------------------------------------
Activation(p, end, type, obj, role, field) ==
    [ptr |-> p, end |-> end, type |-> type, obj |-> obj, role |-> role, field |-> field]

Top == Last(stack)
Parent == stack[Len(stack) - 1]
Running == stack # <<>> /\ err = "none"

Init ==
    /\ input = <<>>
    /\ stack = <<>>
    /\ err = "none"
    /\ object = Blank[Root]
    /\ fed = <<>>

(* decode(Decoder(buffer), object): the first call on a new object, or a   *)
(* further one that adds to what earlier calls decoded into it.            *)
Call ==
    /\ stack = <<>>
    /\ err = "none"
    /\ \E buffer \in Inputs(fed) :
         /\ input' = buffer
         /\ fed' = Append(fed, buffer)
         /\ stack' = <<Activation(0, Len(buffer), Root, object, "root", 0)>>
    /\ UNCHANGED <<err, object>>

(* get_next_field() and the switch on the field number.                    *)
TagRead == ReadVarint(input, Top.ptr, Top.end)
FieldNum == TagRead.val \div FIELDNUM_SCALE
WireType == TagRead.val % FIELDNUM_SCALE
Known == FieldNum \in DOMAIN Schema[Top.type]
Field == Schema[Top.type][FieldNum]

AtField == Running /\ Top.role # "packed" /\ Top.ptr < Top.end
TagOk == TagRead.err = "none" /\ TagRead.val < U32

(* Mutant of Complete: the has_ flag is set although the value is missing. *)
CompleteAnyway(r, obj) ==
    /\ err' = r.err
    /\ stack' = [stack EXCEPT ![Len(stack)].ptr = r.ptr, ![Len(stack)].obj = obj]
    /\ UNCHANGED <<input, object, fed>>

(* The field ends where r says, or throws what r says; obj is the message  *)
(* with the field's new value.                                             *)
Complete(r, obj) ==
    /\ err' = r.err
    /\ stack' = [stack EXCEPT ![Len(stack)].ptr = r.ptr,
                              ![Len(stack)].obj = IF r.err = "none" THEN obj ELSE @]
    /\ UNCHANGED <<input, object, fed>>

BadTag ==
    /\ AtField
    /\ ~TagOk
    /\ Complete([TagRead EXCEPT !.err = IF @ = "none" THEN "invalid_fieldnum" ELSE @], Top.obj)

(* The get_* methods.  What the parser returns, a value or an exception, is *)
(* bound by \E so that the model checker evaluates it once.                *)
GetScalar ==
    /\ Field.kind = "scalar"
    /\ \E r \in {ParseScalar(Field.type, WireType, input, TagRead.ptr, Top.end)} :
           Complete(r, Assign(Top.obj, FieldNum, r.val))

GetByteArray ==
    /\ Field.kind = "bytearray"
    /\ \E r \in {ParseByteArray(WireType, input, TagRead.ptr, Top.end)} :
           Complete(r, IF r.err = "none" THEN Assign(Top.obj, FieldNum, Payload(input, r))
                                         ELSE Top.obj)

GetRepeatedUnpacked ==
    /\ Field.kind = "repeated"
    /\ WireType # Delimited
    /\ \E r \in {ParseScalar(Field.type, WireType, input, TagRead.ptr, Top.end)} :
           Complete(r, PushBack(Top.obj, FieldNum, r.val))

GetRepeatedByteArray ==
    /\ Field.kind = "repeated_bytearray"
    /\ \E r \in {ParseByteArray(WireType, input, TagRead.ptr, Top.end)} :
           Complete(r, IF r.err = "none" THEN PushBack(Top.obj, FieldNum, Payload(input, r))
                                         ELSE Top.obj)

(* Mutant of Skip: a copy of the cursor is moved over the unknown field.    *)
SkipInPlace ==
    Complete([SkipField(WireType, input, TagRead.ptr, Top.end) EXCEPT !.ptr = Top.ptr], Top.obj)

Skip == Complete(SkipField(WireType, input, TagRead.ptr, Top.end), Top.obj)

(* parse_bytearray_value() and the Decoder on the slice it returns.        *)
OpenSlice(type, obj, role) ==
    \E r \in {ParseByteArray(WireType, input, TagRead.ptr, Top.end)} :
        /\ err' = r.err
        /\ stack' = LET s == [stack EXCEPT ![Len(stack)].ptr = r.ptr]
                        sub == Activation(r.ptr - r.val, r.ptr, type, obj, role, FieldNum)
                    IN  IF r.err = "none" THEN Append(s, sub) ELSE s
        /\ UNCHANGED <<input, object, fed>>

GetPacked ==
    /\ Field.kind = "repeated"
    /\ WireType = Delimited
    /\ OpenSlice(Field.type, <<>>, "packed")

GetMessage ==
    /\ Field.kind = "message"
    /\ OpenSlice(Field.type, Top.obj.val[FieldNum], "message")

GetRepeatedMessage ==
    /\ Field.kind = "repeated_message"
    /\ OpenSlice(Field.type, Blank[Field.type], "repeated_message")

GetMapEntry ==
    /\ Field.kind = "map"
    /\ OpenSlice(Field.type, Blank[Field.type], "map")

(* One round of the loop over a packed field.                              *)
PackedElement ==
    /\ Running
    /\ Top.role = "packed"
    /\ Top.ptr < Top.end
    /\ \E r \in {ReadElement(Top.type, input, Top.ptr, Top.end)} :
           /\ err' = r.err
           /\ stack' = [stack EXCEPT ![Len(stack)].ptr = r.ptr,
                          ![Len(stack) - 1].obj =
                              IF r.err = "none" THEN PushBack(@, Top.field, r.val) ELSE @]
    /\ UNCHANGED <<input, object, fed>>

(* What a finished activation hands to its parent.                         *)
Delivered ==
    CASE Top.role = "message"          -> Assign(Parent.obj, Top.field, Top.obj)
      [] Top.role = "repeated_message" -> PushBack(Parent.obj, Top.field, Top.obj)
      [] Top.role = "map" /\ {1, 2} \subseteq Top.obj.has ->
           InsertEntry(Parent.obj, Top.field, Top.obj.val[1], Top.obj.val[2])
      [] OTHER -> Parent.obj

(* Mutant of Missing: required fields are looked for in the top level only.*)
MissingAtRoot == Top.role = "root" /\ ~(Required(Top.type) \subseteq Top.obj.has)

(* The checks for required fields at the end of a generated decode().      *)
Missing ==
    /\ Top.role \in {"root", "message", "repeated_message"}
    /\ ~(Required(Top.type) \subseteq Top.obj.has)

AtEnd == Running /\ Top.ptr >= Top.end

MissingRequired ==
    /\ AtEnd
    /\ Missing
    /\ err' = "missing_required_field"
    /\ UNCHANGED <<input, stack, object, fed>>

Return ==
    /\ AtEnd
    /\ ~Missing
    /\ IF Len(stack) = 1
       THEN stack' = <<>> /\ object' = Top.obj
       ELSE stack' = [Front(stack) EXCEPT ![Len(stack) - 1].obj = Delivered] /\ UNCHANGED object
    /\ UNCHANGED <<input, err, fed>>

(* Mutant of Unwind: a sub-message that failed is flagged as present.      *)
UnwindFlagged ==
    /\ stack # <<>>
    /\ err # "none"
    /\ IF Len(stack) = 1
       THEN stack' = <<>> /\ object' = Top.obj
       ELSE /\ stack' = IF Top.role = "message"
                        THEN [Front(stack) EXCEPT ![Len(stack) - 1].obj =
                                Assign(@, Top.field, Top.obj)]
                        ELSE Front(stack)
            /\ UNCHANGED object
    /\ UNCHANGED <<input, err, fed>>

(* An exception leaves the innermost call: locals are lost, and what was   *)
(* decoded in place stays, without the has_ flag of its field.             *)
Unwind ==
    /\ stack # <<>>
    /\ err # "none"
    /\ IF Len(stack) = 1
       THEN stack' = <<>> /\ object' = Top.obj
       ELSE /\ stack' = IF Top.role = "message"
                        THEN [Front(stack) EXCEPT ![Len(stack) - 1].obj.val[Top.field] = Top.obj]
                        ELSE Front(stack)
            /\ UNCHANGED object
    /\ UNCHANGED <<input, err, fed>>

(* The switch of decode(), by the method that the case of the field calls. *)
GetField ==
    \/ GetScalar
    \/ GetByteArray
    \/ GetRepeatedUnpacked
    \/ GetRepeatedByteArray
    \/ GetPacked
    \/ GetMessage
    \/ GetRepeatedMessage
    \/ GetMapEntry

(* What a call that has begun does next.                                   *)
Work ==
    \/ BadTag
    \/ AtField /\ TagOk /\ Known /\ GetField
    \/ AtField /\ TagOk /\ ~Known /\ Skip
    \/ PackedElement
    \/ MissingRequired
    \/ Return
    \/ Unwind

Next == Call \/ Work

Spec == Init /\ [][Next]_vars

-----------------------------------------------------------------------------
Errors == {"none", "unexpected_eof", "varint_too_long", "length_too_long",
           "invalid_fieldnum", "wiretype_mismatch", "unsupported_wiretype",
           "missing_required_field"}

Roles == {"root", "message", "repeated_message", "map", "packed"}

(* Every variable has its type, up to the shape of the message objects.    *)
TypeOK ==
    /\ input \in Seq(Byte)
    /\ \A i \in DOMAIN stack :
         /\ stack[i].ptr \in Nat /\ stack[i].end \in Nat
         /\ stack[i].role \in Roles
         /\ stack[i].role = "packed" \/ stack[i].type \in DOMAIN Schema
    /\ err \in Errors
    /\ fed \in Seq(Seq(Byte))

(* ptr <= buf_end, as the class documents, and every cursor reads exactly  *)
(* the bytes its parent has stepped over: no field of a sub-message can    *)
(* come from outside it and none is read twice.                            *)
SlicesNested ==
    /\ \A i \in DOMAIN stack : stack[i].ptr <= stack[i].end /\ stack[i].end <= Len(input)
    /\ \A i \in DOMAIN stack : i > 1 => stack[i].end = stack[i - 1].ptr
=============================================================================
