------------------------------- MODULE Encoder ------------------------------
(***************************************************************************)
(* The Encoder class of easypb.hpp: a growing buffer, a write pointer into *)
(* it, and sub-messages whose length is patched in once it is known.       *)
(*                                                                         *)
(* The pointers are addresses, because a reallocation moves the buffer     *)
(* while sub-messages are open on the caller's stack.  The caller is the   *)
(* code generated for a message or hand-written in its style: any sequence *)
(* of put_* calls, with the write_length_delimited lambdas properly        *)
(* nested, and result() at the end or after an exception.                  *)
(***************************************************************************)
EXTENDS Wire, SequencesExt

CONSTANTS
    FieldNums,     \* field numbers passed to put_*
    Scalars,       \* pairs <<writer, value>> passed to put_* and put_packed_*
    ByteArrays,    \* strings passed to put_string and put_bytes
    Addresses,     \* where the allocator may place a buffer
    MaxPos,        \* bound: no write starts beyond this position
    MaxDepth       \* bound: open sub-messages

ASSUME CallerAssumption ==
    /\ FieldNums \subseteq Nat
    /\ Scalars \subseteq {"varint", "zigzag", "fixed32", "fixed64"} \X Int
    /\ ByteArrays \subseteq Seq(Byte)
    /\ Addresses \subseteq Nat
    /\ Addresses # {}

VARIABLES
    enc,           \* the object: buffer, its address data, ptr, buf_end
    frames,        \* start_pos and kind of the open write_length_delimited calls
    thrown,        \* did length_too_long leave the last put_* call
    out            \* the string the last call returned: <<>> but for result()

vars == <<enc, frames, thrown, out>>

-----------------------------------------------------------------------------
(* The object's own operations, as functions from object to object.        *)

Fresh(a) == [buffer |-> <<>>, data |-> a, ptr |-> a, buf_end |-> a]

Pos(e) == e.ptr - e.data

Grown(buffer, size) ==
    [i \in 1 .. size |-> IF i <= Len(buffer) THEN buffer[i] ELSE 0]

(* Mutant of Reserve: buf_end stays relative to the old buffer.            *)
ReserveStaleEnd(e, bytes, a) ==
    LET size == 2 * Len(e.buffer) + bytes
    IN  IF e.buf_end - e.ptr < bytes
        THEN [buffer |-> Grown(e.buffer, size), data |-> a, ptr |-> a + Pos(e),
              buf_end |-> e.buf_end + size - Len(e.buffer)]
        ELSE e

(* The check and the growth at the head of advance_ptr; a is the address   *)
(* of the buffer if it has to be reallocated.                              *)
Reserve(e, bytes, a) ==
    LET size == 2 * Len(e.buffer) + bytes
    IN  IF e.buf_end - e.ptr < bytes
        THEN [buffer |-> Grown(e.buffer, size), data |-> a,
              ptr |-> a + Pos(e), buf_end |-> a + size]
        ELSE e

(* Store bytes at position p of the buffer.                                *)
Poke(buffer, p, bytes) ==
    [i \in DOMAIN buffer |-> IF i \in p + 1 .. p + Len(bytes) THEN bytes[i - p]
                                                              ELSE buffer[i]]

(* Reserve room, store bytes at the pointer and move it past them.         *)
Emit(e, room, bytes, a) ==
    LET r == Reserve(e, room, a)
    IN  [r EXCEPT !.buffer = Poke(@, Pos(r), bytes), !.ptr = @ + Len(bytes)]

WriteVarint(e, v, a) == Emit(e, MAX_VARINT_SIZE, VarintBytes(v), a)

WriteFieldTag(e, field_num, wire_type, a) == WriteVarint(e, Tag(field_num, wire_type), a)

WireTypeOf(writer) ==
    CASE writer = "fixed32" -> Fixed32
      [] writer = "fixed64" -> Fixed64
      [] OTHER -> Varint

WriteScalar(e, s, a) ==
    CASE s[1] = "varint"  -> WriteVarint(e, ToU64(s[2]), a)
      [] s[1] = "zigzag"  -> WriteVarint(e, ZigZag(ToI64(s[2])), a)
      [] s[1] = "fixed32" -> Emit(e, SIZE32, FixedBytes(ToU32(s[2]), SIZE32), a)
      [] s[1] = "fixed64" -> Emit(e, SIZE64, FixedBytes(ToU64(s[2]), SIZE64), a)

WriteByteArray(e, bytes, a, b) ==
    Emit(WriteVarint(e, Len(bytes), a), Len(bytes), bytes, b)

(* Mutant of StartLengthDelimited: the position before the prefix.         *)
StartBeforePrefix(e, a) ==
    LET r == Reserve(e, MAX_LENGTH_CODE_SIZE, a)
    IN  [obj |-> [r EXCEPT !.ptr = @ + MAX_LENGTH_CODE_SIZE], start |-> Pos(r)]

StartLengthDelimited(e, a) ==
    LET r == Reserve(e, MAX_LENGTH_CODE_SIZE, a)
        o == [r EXCEPT !.ptr = @ + MAX_LENGTH_CODE_SIZE]
    IN  [obj |-> o, start |-> Pos(o)]

(* Mutant of PatchLength: the length includes its own prefix.              *)
PatchCountingPrefix(e, start) ==
    LET len == Pos(e) - start + MAX_LENGTH_CODE_SIZE
    IN  [e EXCEPT !.buffer = Poke(@, start - MAX_LENGTH_CODE_SIZE,
                                  PaddedVarint(len, MAX_LENGTH_CODE_SIZE))]

(* Mutant of PatchLength: the prefix goes where the payload starts.        *)
PatchPayload(e, start) ==
    LET len == Pos(e) - start
    IN  [e EXCEPT !.buffer = Poke(@, start, PaddedVarint(len, MAX_LENGTH_CODE_SIZE))]

(* The stores of commit_length_delimited, made before it can throw.        *)
PatchLength(e, start) ==
    LET len == Pos(e) - start
    IN  [e EXCEPT !.buffer = Poke(@, start - MAX_LENGTH_CODE_SIZE,
                                  PaddedVarint(len, MAX_LENGTH_CODE_SIZE))]

-----------------------------------------------------------------------------
Object == [buffer : Seq(Byte), data : Addresses, ptr : Int, buf_end : Int]

InBuffer(e) ==
    /\ e.buf_end = e.data + Len(e.buffer)
    /\ e.data <= e.ptr
    /\ e.ptr <= e.buf_end

Frame == [start : Int, kind : {"message", "packed"}]

Init ==
    /\ enc \in {Fresh(a) : a \in Addresses}
    /\ frames = <<>>
    /\ thrown = FALSE
    /\ out = <<>>

Writing == ~thrown /\ Pos(enc) <= MaxPos

InPacked == frames # <<>> /\ Last(frames).kind = "packed"

(* put_TYPE of a scalar type.                                              *)
PutScalar(field_num, s) ==
    /\ Writing /\ ~InPacked
    /\ \E a, b \in Addresses :
         enc' = WriteScalar(WriteFieldTag(enc, field_num, WireTypeOf(s[1]), a), s, b)
    /\ out' = <<>>
    /\ UNCHANGED <<frames, thrown>>

(* One element of put_packed_TYPE.                                         *)
WriteElement(s) ==
    /\ Writing /\ InPacked
    /\ \E a \in Addresses : enc' = WriteScalar(enc, s, a)
    /\ out' = <<>>
    /\ UNCHANGED <<frames, thrown>>

PutBytes(field_num, bytes) ==
    /\ Writing /\ ~InPacked
    /\ Len(bytes) <= INT32_MAX
    /\ \E a, b, c \in Addresses :
         enc' = WriteByteArray(WriteFieldTag(enc, field_num, Delimited, a), bytes, b, c)
    /\ out' = <<>>
    /\ UNCHANGED <<frames, thrown>>

(* The length is checked when the tag has been written already, and the    *)
(* exception unwinds every open write_length_delimited without a commit.   *)
PutBytesTooLong(field_num, bytes) ==
    /\ Writing /\ ~InPacked
    /\ Len(bytes) > INT32_MAX
    /\ \E a \in Addresses : enc' = WriteFieldTag(enc, field_num, Delimited, a)
    /\ frames' = <<>>
    /\ thrown' = TRUE
    /\ out' = <<>>

(* put_message, one entry of put_map_*_* and put_packed_* begin alike.     *)
OpenField(field_num, kind) ==
    /\ Writing /\ ~InPacked
    /\ Len(frames) < MaxDepth
    /\ \E a, b \in Addresses :
         LET s == StartLengthDelimited(WriteFieldTag(enc, field_num, Delimited, a), b)
         IN  /\ enc' = s.obj
             /\ frames' = Append(frames, [start |-> s.start, kind |-> kind])
    /\ out' = <<>>
    /\ UNCHANGED thrown

OpenLength == Pos(enc) - Last(frames).start

CloseField ==
    /\ ~thrown
    /\ frames # <<>>
    /\ FitsPadded(OpenLength, MAX_LENGTH_CODE_SIZE)
    /\ enc' = PatchLength(enc, Last(frames).start)
    /\ frames' = Front(frames)
    /\ out' = <<>>
    /\ UNCHANGED thrown

CloseFieldTooLong ==
    /\ ~thrown
    /\ frames # <<>>
    /\ ~FitsPadded(OpenLength, MAX_LENGTH_CODE_SIZE)
    /\ enc' = PatchLength(enc, Last(frames).start)
    /\ frames' = <<>>
    /\ thrown' = TRUE
    /\ out' = <<>>

(* Of the finished message, or of what an exception left behind.           *)
Result ==
    /\ frames = <<>>
    /\ out' = SubSeq(enc.buffer, 1, Pos(enc))
    /\ \E a \in Addresses : enc' = Fresh(a)
    /\ thrown' = FALSE
    /\ UNCHANGED frames

Next ==
    \/ \E f \in FieldNums, s \in Scalars : PutScalar(f, s)
    \/ \E s \in Scalars : WriteElement(s)
    \/ \E f \in FieldNums, bytes \in ByteArrays : PutBytes(f, bytes)
    \/ \E f \in FieldNums, bytes \in ByteArrays : PutBytesTooLong(f, bytes)
    \/ \E f \in FieldNums, kind \in {"message", "packed"} : OpenField(f, kind)
    \/ CloseField
    \/ CloseFieldTooLong
    \/ Result

Spec == Init /\ [][Next]_vars

-----------------------------------------------------------------------------
(* Every variable has its type: the object's addresses are integers and    *)
(* its buffer holds bytes, whatever was encoded into it.                   *)
TypeOK ==
    /\ enc \in Object
    /\ frames \in Seq(Frame)
    /\ thrown \in BOOLEAN
    /\ out \in Seq(Byte)

(* The two invariants the class states for itself: buf_end is the end of   *)
(* the buffer and ptr lies within it, across every reallocation.           *)
PointersInBuffer == InBuffer(enc)

(* Each open sub-message owns a length prefix that overlaps no other       *)
(* prefix, and all of them lie in what has been written: a commit can      *)
(* patch neither a neighbour nor memory past the pointer.                  *)
FramesNested ==
    /\ \A i \in DOMAIN frames :
         MAX_LENGTH_CODE_SIZE <= frames[i].start /\ frames[i].start <= Pos(enc)
    /\ \A i, j \in DOMAIN frames :
         i < j => frames[i].start + MAX_LENGTH_CODE_SIZE <= frames[j].start

(* The prefix of the innermost open sub-message.                           *)
InnerPrefix ==
    IF frames = <<>> THEN {}
    ELSE Last(frames).start - MAX_LENGTH_CODE_SIZE + 1 .. Last(frames).start

(* No call changes a byte that has been written, except that closing a     *)
(* sub-message fills that sub-message's own prefix; only result() moves    *)
(* the pointer back, and it returns every byte written.                    *)
WrittenStays ==
    [][\/ /\ Pos(enc') >= Pos(enc)
          /\ Pos(enc') <= Len(enc'.buffer)
          /\ \A i \in 1 .. Pos(enc) :
               enc'.buffer[i] # enc.buffer[i] => i \in InnerPrefix /\ frames' # frames
       \/ /\ Pos(enc') = 0
          /\ out' = SubSeq(enc.buffer, 1, Pos(enc))]_vars

-----------------------------------------------------------------------------
(* The encoder implements WireLog: the payload of each open sub-message is *)
(* the slice of the buffer between its prefix and the next one's.          *)
SliceOf(i) ==
    LET lo == IF i = 1 THEN 0 ELSE frames[i - 1].start
        hi == IF i <= Len(frames) THEN frames[i].start - MAX_LENGTH_CODE_SIZE ELSE Pos(enc)
    IN  SubSeq(enc.buffer, lo + 1, hi)

OpenSlices == IF thrown THEN <<>> ELSE [i \in 1 .. Len(frames) + 1 |-> SliceOf(i)]

TagBytes(field_num, wire_type) == VarintBytes(Tag(field_num, wire_type))

ScalarBytes(s) ==
    CASE s[1] = "varint"  -> VarintBytes(ToU64(s[2]))
      [] s[1] = "zigzag"  -> VarintBytes(ZigZag(ToI64(s[2])))
      [] s[1] = "fixed32" -> FixedBytes(ToU32(s[2]), SIZE32)
      [] s[1] = "fixed64" -> FixedBytes(ToU64(s[2]), SIZE64)

ScalarChunks == {TagBytes(f, WireTypeOf(s[1])) \o ScalarBytes(s) : f \in FieldNums, s \in Scalars}

BytesChunk(f, bytes) == TagBytes(f, Delimited) \o VarintBytes(Len(bytes)) \o bytes

ShortArrays == {bytes \in ByteArrays : Len(bytes) <= INT32_MAX}

FieldChunks == ScalarChunks \cup {BytesChunk(f, bytes) : f \in FieldNums, bytes \in ShortArrays}

ElementChunks == {ScalarBytes(s) : s \in Scalars}

DelimitedTags == {TagBytes(f, Delimited) : f \in FieldNums}

Log == INSTANCE WireLog WITH
    Chunks    <- FieldChunks \cup ElementChunks,
    Tags      <- DelimitedTags,
    Oversized <- \E bytes \in ByteArrays : Len(bytes) > INT32_MAX,
    open      <- OpenSlices,
    failed    <- thrown

(* Every behaviour of the encoder is one of the payload stack.             *)
ImplementsWireLog == Log!Spec
=============================================================================
