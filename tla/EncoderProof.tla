---------------------------- MODULE EncoderProof ----------------------------
(***************************************************************************)
(* Proofs about Encoder, for every width, caller and allocator.            *)
(***************************************************************************)
EXTENDS Encoder, WireProof

-----------------------------------------------------------------------------
(* What every write to the object does: it keeps the class invariants,     *)
(* never moves the pointer back and changes no byte behind it.             *)
Extends(e, o) ==
    /\ o \in Object
    /\ InBuffer(o)
    /\ Pos(o) >= Pos(e)
    /\ \A i \in 1 .. Pos(e) : o.buffer[i] = e.buffer[i]

LEMMA AddressType ==
  ASSUME NEW a \in Addresses
  PROVE  a \in Nat
BY CallerAssumption

LEMMA ObjectType ==
  ASSUME NEW e \in Object
  PROVE  /\ e.buffer \in Seq(Byte) /\ Len(e.buffer) \in Nat
         /\ e.data \in Nat /\ e.ptr \in Int /\ e.buf_end \in Int
<1>1. e.buffer \in Seq(Byte) /\ e.data \in Addresses /\ e.ptr \in Int /\ e.buf_end \in Int
  BY DEF Object
<1> QED BY <1>1, AddressType

LEMMA PosType ==
  ASSUME NEW e \in Object, InBuffer(e)
  PROVE  Pos(e) \in Nat /\ Pos(e) <= Len(e.buffer)
<1>1. e.data \in Nat /\ e.ptr \in Int /\ Len(e.buffer) \in Nat
  BY ObjectType
<1> QED BY <1>1 DEF InBuffer, Pos

LEMMA ExtendsTransitive ==
  ASSUME NEW e \in Object, InBuffer(e), NEW o, NEW p, Extends(e, o), Extends(o, p)
  PROVE  Extends(e, p)
<1>1. o \in Object /\ InBuffer(o)
  BY DEF Extends
<1>2. Pos(e) \in Nat /\ Pos(o) \in Nat
  BY <1>1, PosType
<1>3. p \in Object /\ InBuffer(p) /\ Pos(p) \in Nat
  BY PosType DEF Extends
<1> QED BY <1>2, <1>3 DEF Extends

(* A buffer that grows keeps its bytes.                                    *)
LEMMA GrownType ==
  ASSUME NEW b \in Seq(Byte), NEW size \in Nat, size >= Len(b)
  PROVE  /\ Grown(b, size) \in Seq(Byte)
         /\ Len(Grown(b, size)) = size
         /\ \A i \in 1 .. Len(b) : Grown(b, size)[i] = b[i]
<1>1. 0 \in Byte
  BY Widths DEF Byte
<1> QED BY <1>1 DEF Grown

(* advance_ptr makes room without moving the position or losing a byte.    *)
LEMMA ReserveMakesRoom ==
  ASSUME NEW e \in Object, InBuffer(e), NEW room \in Nat, NEW a \in Addresses
  PROVE  LET r == Reserve(e, room, a)
         IN  /\ Extends(e, r)
             /\ Pos(r) = Pos(e)
             /\ Pos(r) + room <= Len(r.buffer)
<1> DEFINE size == 2 * Len(e.buffer) + room
           g == [buffer |-> Grown(e.buffer, size), data |-> a,
                 ptr |-> a + Pos(e), buf_end |-> a + size]
<1>1. e.buffer \in Seq(Byte) /\ Len(e.buffer) \in Nat /\ a \in Nat /\ e.data \in Nat
  BY ObjectType, AddressType
<1>2. Pos(e) \in Nat /\ Pos(e) <= Len(e.buffer)
  BY PosType
<1>3. CASE e.buf_end - e.ptr < room
  <2>1. Reserve(e, room, a) = g
    BY <1>3 DEF Reserve
  <2>2. size \in Nat /\ size >= Len(e.buffer)
    BY <1>1
  <2>3. /\ g.buffer \in Seq(Byte)
        /\ Len(g.buffer) = size
        /\ \A i \in 1 .. Len(e.buffer) : g.buffer[i] = e.buffer[i]
    BY <1>1, <2>2, GrownType
  <2>4. g.data = a /\ g.ptr = a + Pos(e) /\ g.buf_end = a + size
    OBVIOUS
  <2>5. g \in Object
    BY <1>1, <1>2, <2>2, <2>3 DEF Object
  <2> HIDE DEF g
  <2>6. Pos(g) = Pos(e)
    BY <1>1, <1>2, <2>4 DEF Pos
  <2>7. InBuffer(g)
    BY <1>1, <1>2, <2>2, <2>3, <2>4 DEF InBuffer
  <2>8. Pos(g) + room <= Len(g.buffer)
    BY <1>1, <1>2, <2>3, <2>6
  <2>9. Extends(e, g)
    BY <1>1, <1>2, <2>3, <2>5, <2>6, <2>7 DEF Extends
  <2> QED BY <2>1, <2>6, <2>8, <2>9
<1>4. CASE ~(e.buf_end - e.ptr < room)
  <2>1. Reserve(e, room, a) = e
    BY <1>4 DEF Reserve
  <2>2. Pos(e) + room <= Len(e.buffer)
    BY <1>1, <1>4 DEF Pos, InBuffer, Object
  <2>3. Extends(e, e)
    BY <1>2 DEF Extends
  <2> QED BY <2>1, <2>2, <2>3
<1> QED BY <1>3, <1>4

(* A store at a position changes the bytes from there on, as many as it    *)
(* stores, and no other.                                                   *)
LEMMA PokeType ==
  ASSUME NEW b \in Seq(Byte), NEW s \in Seq(Byte), NEW p \in Nat
  PROVE  /\ Poke(b, p, s) \in Seq(Byte)
         /\ Len(Poke(b, p, s)) = Len(b)
         /\ \A i \in 1 .. Len(b) : i \notin p + 1 .. p + Len(s) => Poke(b, p, s)[i] = b[i]
<1> DEFINE n == Len(b)
           c(i) == IF i \in p + 1 .. p + Len(s) THEN s[i - p] ELSE b[i]
<1>1. n \in Nat /\ DOMAIN b = 1 .. n /\ Len(s) \in Nat
  OBVIOUS
<1>2. ASSUME NEW i \in 1 .. n
      PROVE  c(i) \in Byte
  <2>1. CASE i \in p + 1 .. p + Len(s)
    <3>1. i - p \in 1 .. Len(s)
      BY <1>1, <2>1
    <3>2. s[i - p] \in Byte
      BY <3>1
    <3> QED BY <2>1, <3>2
  <2>2. CASE i \notin p + 1 .. p + Len(s)
    BY <2>2
  <2> QED BY <2>1, <2>2
<1>3. Poke(b, p, s) = [i \in 1 .. n |-> c(i)]
  BY <1>1 DEF Poke
<1>4. \A i \in 1 .. n : i \notin p + 1 .. p + Len(s) => c(i) = b[i]
  OBVIOUS
<1> HIDE DEF c
<1> QED BY <1>1, <1>2, <1>3, <1>4

-----------------------------------------------------------------------------
(* Every write operation extends the object.                               *)
LEMMA EmitExtends ==
  ASSUME NEW e \in Object, InBuffer(e), NEW room \in Nat, NEW a \in Addresses,
         NEW s \in Seq(Byte), Len(s) <= room
  PROVE  Extends(e, Emit(e, room, s, a)) /\ Pos(Emit(e, room, s, a)) = Pos(e) + Len(s)
<1> DEFINE r == Reserve(e, room, a)
           b == Poke(r.buffer, Pos(r), s)
           n == Len(s)
           o == Emit(e, room, s, a)
<1>1. Extends(e, r) /\ Pos(r) = Pos(e) /\ Pos(r) + room <= Len(r.buffer)
  BY ReserveMakesRoom
<1>2. r \in Object /\ InBuffer(r)
  BY <1>1 DEF Extends
<1>3. /\ r.buffer \in Seq(Byte) /\ Len(r.buffer) \in Nat
      /\ r.data \in Nat /\ r.ptr \in Int /\ r.buf_end \in Int
  BY <1>2, ObjectType
<1>4. Pos(r) \in Nat /\ n \in Nat /\ n <= room
  BY <1>2, PosType
<1>5. /\ b \in Seq(Byte) /\ Len(b) = Len(r.buffer)
      /\ \A i \in 1 .. Len(r.buffer) : i \notin Pos(r) + 1 .. Pos(r) + n => b[i] = r.buffer[i]
  BY <1>3, <1>4, PokeType
<1>6. o = [r EXCEPT !.buffer = b, !.ptr = @ + n]
  BY DEF Emit
<1> HIDE DEF r, b, n, o
<1>7. /\ o.buffer = b /\ o.data = r.data
      /\ o.ptr = r.ptr + n /\ o.buf_end = r.buf_end /\ o \in Object
  <2>1. o = [buffer |-> b, data |-> r.data, ptr |-> r.ptr + n, buf_end |-> r.buf_end]
    BY <1>2, <1>6 DEF Object
  <2>2. r.data \in Addresses
    BY <1>2 DEF Object
  <2> QED BY <2>1, <2>2, <1>3, <1>4, <1>5 DEF Object
<1>8. Pos(o) = Pos(e) + n
  BY <1>1, <1>3, <1>4, <1>7 DEF Pos
<1>9. InBuffer(o)
  <2>1. r.buf_end = r.data + Len(r.buffer) /\ r.data <= r.ptr
    BY <1>2 DEF InBuffer
  <2>2. (r.ptr - r.data) + n <= Len(r.buffer)
    <3>1. Pos(r) + room <= Len(r.buffer) /\ room \in Nat
      BY <1>1
    <3>2. Pos(r) + n <= Len(r.buffer)
      BY <3>1, <1>3, <1>4
    <3> QED BY <3>2 DEF Pos
  <2>3. o.buf_end = o.data + Len(o.buffer)
    BY <2>1, <1>5, <1>7
  <2>4. o.data <= o.ptr /\ o.ptr <= o.buf_end
    BY <2>1, <2>2, <1>3, <1>4, <1>7
  <2> QED BY <2>3, <2>4 DEF InBuffer
<1>10. Extends(r, o)
  <2>1. ASSUME NEW i \in 1 .. Pos(r)
        PROVE  o.buffer[i] = r.buffer[i]
    <3>1. i \in 1 .. Len(r.buffer) /\ i \notin Pos(r) + 1 .. Pos(r) + n
      BY <1>1, <1>3, <1>4
    <3> QED BY <1>5, <1>7, <3>1
  <2> QED BY <1>1, <1>4, <1>7, <1>8, <1>9, <2>1 DEF Extends
<1> QED BY <1>1, <1>8, <1>10, ExtendsTransitive DEF o, r, n

LEMMA WriteVarintExtends ==
  ASSUME NEW e \in Object, InBuffer(e), NEW v \in Nat, NEW a \in Addresses
  PROVE  Extends(e, WriteVarint(e, v, a))
<1>1. VarintBytes(v) \in Seq(Byte) /\ Len(VarintBytes(v)) <= MAX_VARINT_SIZE
  BY VarintBytesType, Widths
<1> QED BY <1>1, Widths, EmitExtends DEF WriteVarint

LEMMA WordType ==
  ASSUME NEW x \in Int
  PROVE  ToU32(x) \in Nat /\ ToU64(x) \in Nat /\ ToI64(x) \in Int
BY WordTypes, Powers, HalfWords

LEMMA WriteFieldTagExtends ==
  ASSUME NEW e \in Object, InBuffer(e), NEW f \in Nat, NEW w \in Nat, NEW a \in Addresses
  PROVE  Extends(e, WriteFieldTag(e, f, w, a))
<1>1. f * FIELDNUM_SCALE + w \in Int
  BY WidthAssumption
<1>2. Tag(f, w) \in Nat
  BY <1>1, WordType DEF Tag
<1> QED BY <1>2, WriteVarintExtends DEF WriteFieldTag

LEMMA WireTypeOfType ==
  ASSUME NEW w
  PROVE  WireTypeOf(w) \in Nat
BY DEF WireTypeOf, Fixed32, Fixed64, Varint

LEMMA WriteScalarExtends ==
  ASSUME NEW e \in Object, InBuffer(e), NEW s \in Scalars, NEW a \in Addresses
  PROVE  Extends(e, WriteScalar(e, s, a))
<1>1. s[1] \in {"varint", "zigzag", "fixed32", "fixed64"} /\ s[2] \in Int
  BY CallerAssumption
<1>2. ToU32(s[2]) \in Nat /\ ToU64(s[2]) \in Nat /\ ToI64(s[2]) \in Int
  BY <1>1, WordType
<1>3. CASE s[1] = "varint"
  <2>1. WriteScalar(e, s, a) = WriteVarint(e, ToU64(s[2]), a)
    BY <1>3 DEF WriteScalar
  <2> QED BY <1>2, <2>1, WriteVarintExtends
<1>4. CASE s[1] = "zigzag"
  <2>1. WriteScalar(e, s, a) = WriteVarint(e, ZigZag(ToI64(s[2])), a)
    BY <1>4 DEF WriteScalar
  <2>2. ZigZag(ToI64(s[2])) \in Nat
    BY <1>2 DEF ZigZag
  <2> QED BY <2>1, <2>2, WriteVarintExtends
<1>5. CASE s[1] = "fixed32"
  <2>1. WriteScalar(e, s, a) = Emit(e, SIZE32, FixedBytes(ToU32(s[2]), SIZE32), a)
    BY <1>5 DEF WriteScalar
  <2>2. /\ FixedBytes(ToU32(s[2]), SIZE32) \in Seq(Byte)
        /\ Len(FixedBytes(ToU32(s[2]), SIZE32)) <= SIZE32 /\ SIZE32 \in Nat
    BY <1>2, FixedBytesType, WidthAssumption
  <2> QED BY <2>1, <2>2, EmitExtends
<1>6. CASE s[1] = "fixed64"
  <2>1. WriteScalar(e, s, a) = Emit(e, SIZE64, FixedBytes(ToU64(s[2]), SIZE64), a)
    BY <1>6 DEF WriteScalar
  <2>2. /\ FixedBytes(ToU64(s[2]), SIZE64) \in Seq(Byte)
        /\ Len(FixedBytes(ToU64(s[2]), SIZE64)) <= SIZE64 /\ SIZE64 \in Nat
    BY <1>2, FixedBytesType, WidthAssumption
  <2> QED BY <2>1, <2>2, EmitExtends
<1> QED BY <1>1, <1>3, <1>4, <1>5, <1>6

LEMMA WriteByteArrayExtends ==
  ASSUME NEW e \in Object, InBuffer(e), NEW s \in Seq(Byte),
         NEW a \in Addresses, NEW b \in Addresses
  PROVE  Extends(e, WriteByteArray(e, s, a, b))
<1>1. Len(s) \in Nat
  OBVIOUS
<1>2. Extends(e, WriteVarint(e, Len(s), a))
  BY <1>1, WriteVarintExtends
<1>3. Extends(WriteVarint(e, Len(s), a), WriteByteArray(e, s, a, b))
  BY <1>1, <1>2, EmitExtends DEF WriteByteArray, Extends
<1> QED BY <1>2, <1>3, ExtendsTransitive

(* A sub-message starts behind a prefix of its own.                        *)
LEMMA StartExtends ==
  ASSUME NEW e \in Object, InBuffer(e), NEW a \in Addresses
  PROVE  LET s == StartLengthDelimited(e, a)
         IN  /\ Extends(e, s.obj)
             /\ s.start = Pos(s.obj)
             /\ s.start = Pos(e) + MAX_LENGTH_CODE_SIZE
<1> DEFINE n == MAX_LENGTH_CODE_SIZE
           r == Reserve(e, n, a)
           o == [r EXCEPT !.ptr = @ + n]
<1>1. n \in Nat
  BY Widths
<1>2. Extends(e, r) /\ Pos(r) = Pos(e) /\ Pos(r) + n <= Len(r.buffer)
  BY <1>1, ReserveMakesRoom
<1>3. r \in Object /\ InBuffer(r)
  BY <1>2 DEF Extends
<1>4. /\ r.buffer \in Seq(Byte) /\ Len(r.buffer) \in Nat
      /\ r.data \in Nat /\ r.ptr \in Int /\ r.buf_end \in Int /\ Pos(r) \in Nat
  BY <1>3, ObjectType, PosType
<1>5. StartLengthDelimited(e, a) = [obj |-> o, start |-> Pos(o)]
  BY DEF StartLengthDelimited
<1> HIDE DEF r
<1>6. /\ o.buffer = r.buffer /\ o.data = r.data
      /\ o.ptr = r.ptr + n /\ o.buf_end = r.buf_end /\ o \in Object
  BY <1>1, <1>3, <1>4, SMTT(60) DEF Object
<1> HIDE DEF o, n
<1>7. Pos(o) = Pos(e) + n
  BY <1>1, <1>2, <1>4, <1>6 DEF Pos
<1>8. InBuffer(o)
  BY <1>1, <1>2, <1>3, <1>4, <1>6, SMTT(60) DEF InBuffer, Pos
<1>9. Extends(r, o)
  BY <1>1, <1>2, <1>4, <1>6, <1>7, <1>8 DEF Extends
<1>10. Extends(e, o)
  BY <1>2, <1>9, ExtendsTransitive
<1> QED BY <1>5, <1>7, <1>10 DEF n

(* A commit changes the prefix of its sub-message only.                    *)
LEMMA PatchFillsPrefix ==
  ASSUME NEW e \in Object, InBuffer(e), NEW start \in Int,
         MAX_LENGTH_CODE_SIZE <= start, start <= Pos(e)
  PROVE  LET o == PatchLength(e, start)
         IN  /\ o \in Object /\ InBuffer(o) /\ Pos(o) = Pos(e)
             /\ \A i \in 1 .. Pos(e) :
                  i \notin start - MAX_LENGTH_CODE_SIZE + 1 .. start => o.buffer[i] = e.buffer[i]
<1> DEFINE n == MAX_LENGTH_CODE_SIZE
           s == PaddedVarint(Pos(e) - start, n)
           b == Poke(e.buffer, start - n, s)
           o == PatchLength(e, start)
<1>1. n \in Nat /\ Pos(e) \in Nat /\ Pos(e) <= Len(e.buffer) /\ e.buffer \in Seq(Byte)
  BY Widths, PosType, ObjectType
<1>2. s \in Seq(Byte) /\ Len(s) = n
  BY <1>1, PaddedVarintType
<1>3. start - n \in Nat
  BY <1>1
<1> HIDE DEF s
<1>4. /\ b \in Seq(Byte) /\ Len(b) = Len(e.buffer)
      /\ \A i \in 1 .. Len(e.buffer) :
           i \notin (start - n) + 1 .. (start - n) + Len(s) => b[i] = e.buffer[i]
  BY <1>1, <1>2, <1>3, PokeType
<1>5. o = [e EXCEPT !.buffer = b]
  BY DEF PatchLength, s
<1> HIDE DEF o, b
<1>6. /\ o \in Object /\ o.buffer = b /\ o.data = e.data
      /\ o.ptr = e.ptr /\ o.buf_end = e.buf_end
  BY <1>4, <1>5 DEF Object
<1>7. InBuffer(o) /\ Pos(o) = Pos(e)
  BY <1>4, <1>6 DEF InBuffer, Pos
<1>8. ASSUME NEW i \in 1 .. Pos(e), i \notin start - n + 1 .. start
      PROVE  o.buffer[i] = e.buffer[i]
  <2>1. i \in 1 .. Len(e.buffer)
    BY <1>1
  <2>2. i \notin (start - n) + 1 .. (start - n) + Len(s)
    BY <1>1, <1>2, <1>8
  <2> QED BY <1>4, <1>6, <2>1, <2>2
<1> QED BY <1>6, <1>7, <1>8 DEF o, n

-----------------------------------------------------------------------------
(* The inductive invariant.  The class invariants alone are not enough: a  *)
(* commit stores where an open sub-message says, so they hold only as long *)
(* as every open sub-message lies within what has been written.            *)
IInv == TypeOK /\ PointersInBuffer /\ FramesNested

LEMMA IInvFacts ==
  ASSUME IInv
  PROVE  /\ enc \in Object /\ InBuffer(enc)
         /\ Pos(enc) \in Nat /\ Pos(enc) <= Len(enc.buffer) /\ enc.buffer \in Seq(Byte)
         /\ frames \in Seq(Frame) /\ Len(frames) \in Nat /\ DOMAIN frames = 1 .. Len(frames)
         /\ \A i \in 1 .. Len(frames) : frames[i].start \in Int
<1>1. enc \in Object /\ InBuffer(enc) /\ frames \in Seq(Frame)
  BY DEF IInv, TypeOK, PointersInBuffer
<1>2. \A i \in 1 .. Len(frames) : frames[i] \in Frame
  BY <1>1
<1> QED BY <1>1, <1>2, PosType, ObjectType DEF Frame

(* A write inside the innermost sub-message, or at the top level.          *)
LEMMA WriteKeepsIInv ==
  ASSUME IInv, Extends(enc, enc'), frames' = frames, thrown' = thrown, out' = <<>>
  PROVE  IInv'
<1>1. enc' \in Object /\ InBuffer(enc') /\ Pos(enc') >= Pos(enc)
  BY DEF Extends
<1>2. Pos(enc) \in Nat /\ Pos(enc') \in Nat
  BY <1>1, IInvFacts, PosType
<1>3. TypeOK'
  BY <1>1 DEF IInv, TypeOK
<1>4. PointersInBuffer'
  BY <1>1 DEF PointersInBuffer
<1>5. \A i \in 1 .. Len(frames) : frames[i].start <= Pos(enc')
  BY <1>1, <1>2, IInvFacts DEF IInv, FramesNested
<1>6. FramesNested'
  BY <1>5, IInvFacts DEF IInv, FramesNested
<1> QED BY <1>3, <1>4, <1>6 DEF IInv

(* An exception: whatever was written stays, no sub-message remains open.  *)
LEMMA UnwindKeepsIInv ==
  ASSUME IInv, enc' \in Object, InBuffer(enc'), frames' = <<>>, thrown' \in BOOLEAN,
         out' \in Seq(Byte)
  PROVE  IInv'
BY DEF IInv, TypeOK, PointersInBuffer, FramesNested

LEMMA OpenKeepsIInv ==
  ASSUME IInv, Extends(enc, enc'), thrown' = thrown, out' = <<>>,
         NEW start \in Int, NEW kind \in {"message", "packed"},
         frames' = Append(frames, [start |-> start, kind |-> kind]),
         start = Pos(enc'), Pos(enc) + MAX_LENGTH_CODE_SIZE <= start
  PROVE  IInv'
<1> DEFINE n == Len(frames)
           f == [start |-> start, kind |-> kind]
<1>1. enc' \in Object /\ InBuffer(enc') /\ Pos(enc') \in Nat
  BY PosType DEF Extends
<1>2. /\ n \in Nat /\ frames \in Seq(Frame) /\ Pos(enc) \in Nat
      /\ DOMAIN frames = 1 .. n /\ \A i \in 1 .. n : frames[i].start \in Int
  BY IInvFacts
<1>3. f \in Frame /\ f.start = start
  BY DEF Frame
<1> HIDE DEF f
<1>4. /\ frames' \in Seq(Frame) /\ Len(frames') = n + 1 /\ DOMAIN frames' = 1 .. n + 1
      /\ frames'[n + 1] = f /\ \A i \in 1 .. n : frames'[i] = frames[i]
  BY <1>2, <1>3 DEF f
<1>5. TypeOK'
  BY <1>1, <1>4 DEF IInv, TypeOK
<1>6. PointersInBuffer'
  BY <1>1 DEF PointersInBuffer
<1>7. ASSUME NEW i \in 1 .. n + 1
      PROVE  MAX_LENGTH_CODE_SIZE <= frames'[i].start /\ frames'[i].start <= Pos(enc')
  <2>1. CASE i = n + 1
    BY <1>1, <1>2, <1>3, <1>4, <2>1, Widths
  <2>2. CASE i \in 1 .. n
    <3>1. MAX_LENGTH_CODE_SIZE <= frames[i].start /\ frames[i].start <= Pos(enc)
      BY <1>2, <2>2 DEF IInv, FramesNested
    <3> QED BY <1>1, <1>2, <1>4, <2>2, <3>1, Widths
  <2> QED BY <1>2, <2>1, <2>2
<1>8. ASSUME NEW i \in 1 .. n + 1, NEW j \in 1 .. n + 1, i < j
      PROVE  frames'[i].start + MAX_LENGTH_CODE_SIZE <= frames'[j].start
  <2>1. i \in 1 .. n
    BY <1>2, <1>8
  <2>2. CASE j = n + 1
    <3>1. frames[i].start <= Pos(enc)
      BY <1>2, <2>1 DEF IInv, FramesNested
    <3> QED BY <1>2, <1>3, <1>4, <2>1, <2>2, <3>1, Widths
  <2>3. CASE j \in 1 .. n
    <3>1. frames[i].start + MAX_LENGTH_CODE_SIZE <= frames[j].start
      BY <1>2, <1>8, <2>1, <2>3 DEF IInv, FramesNested
    <3> QED BY <1>4, <2>1, <2>3, <3>1
  <2> QED BY <1>2, <2>2, <2>3
<1>9. FramesNested'
  BY <1>4, <1>7, <1>8 DEF FramesNested
<1> QED BY <1>5, <1>6, <1>9 DEF IInv

(* The innermost open sub-message, where a commit stores.                  *)
LEMMA InnermostFrame ==
  ASSUME IInv, frames # <<>>
  PROVE  /\ Last(frames) = frames[Len(frames)] /\ Last(frames).start \in Int
         /\ MAX_LENGTH_CODE_SIZE <= Last(frames).start /\ Last(frames).start <= Pos(enc)
<1>1. Len(frames) \in 1 .. Len(frames)
  BY IInvFacts
<1> QED BY <1>1, IInvFacts DEF IInv, FramesNested, Last

LEMMA CommitKeepsIInv ==
  ASSUME IInv, frames # <<>>, enc' = PatchLength(enc, Last(frames).start),
         frames' = Front(frames), thrown' = thrown, out' = <<>>
  PROVE  IInv'
<1> DEFINE n == Len(frames)
<1>1. /\ n \in Nat /\ frames \in Seq(Frame) /\ DOMAIN frames = 1 .. n /\ n >= 1
      /\ enc \in Object /\ InBuffer(enc)
  BY IInvFacts
<1>2. enc' \in Object /\ InBuffer(enc') /\ Pos(enc') = Pos(enc)
  BY <1>1, InnermostFrame, PatchFillsPrefix
<1>3. /\ frames' \in Seq(Frame) /\ DOMAIN frames' = 1 .. n - 1
      /\ \A i \in 1 .. n - 1 : frames'[i] = frames[i]
  BY <1>1 DEF Front
<1>4. TypeOK'
  BY <1>2, <1>3 DEF IInv, TypeOK
<1>5. PointersInBuffer'
  BY <1>2 DEF PointersInBuffer
<1>6. FramesNested'
  BY <1>1, <1>2, <1>3 DEF IInv, FramesNested
<1> QED BY <1>4, <1>5, <1>6 DEF IInv

LEMMA FreshObject ==
  ASSUME NEW a \in Addresses
  PROVE  Fresh(a) \in Object /\ InBuffer(Fresh(a)) /\ Pos(Fresh(a)) = 0
<1>1. a \in Nat
  BY AddressType
<1> QED BY <1>1 DEF Fresh, Object, InBuffer, Pos

(* A new Encoder has an empty buffer and no open sub-message.              *)
THEOREM InitIInv == Init => IInv
<1> SUFFICES ASSUME Init PROVE IInv
  OBVIOUS
<1>1. enc \in Object /\ InBuffer(enc)
  BY FreshObject DEF Init
<1>2. frames = <<>> /\ thrown = FALSE /\ out = <<>>
  BY DEF Init
<1>3. TypeOK
  <2>1. <<>> \in Seq(Frame) /\ <<>> \in Seq(Byte)
    OBVIOUS
  <2> QED BY <1>1, <1>2, <2>1 DEF TypeOK
<1>4. FramesNested
  BY <1>2 DEF FramesNested
<1> QED BY <1>1, <1>3, <1>4 DEF IInv, PointersInBuffer

(* How each kind of step moves the object, for the invariant and for       *)
(* WrittenStays alike.                                                     *)
LEMMA PutScalarExtends ==
  ASSUME IInv, NEW f \in FieldNums, NEW s \in Scalars, PutScalar(f, s)
  PROVE  Extends(enc, enc')
<1>1. enc \in Object /\ InBuffer(enc) /\ f \in Nat /\ WireTypeOf(s[1]) \in Nat
  BY IInvFacts, WireTypeOfType, CallerAssumption
<1>2. PICK a \in Addresses, b \in Addresses :
        enc' = WriteScalar(WriteFieldTag(enc, f, WireTypeOf(s[1]), a), s, b)
  BY DEF PutScalar
<1> DEFINE o == WriteFieldTag(enc, f, WireTypeOf(s[1]), a)
<1>3. Extends(enc, o)
  BY <1>1, WriteFieldTagExtends
<1>4. Extends(o, enc')
  BY <1>2, <1>3, WriteScalarExtends DEF Extends
<1> QED BY <1>1, <1>3, <1>4, ExtendsTransitive

LEMMA WriteElementExtends ==
  ASSUME IInv, NEW s \in Scalars, WriteElement(s)
  PROVE  Extends(enc, enc')
BY IInvFacts, WriteScalarExtends DEF WriteElement

LEMMA PutBytesExtends ==
  ASSUME IInv, NEW f \in FieldNums, NEW bytes \in ByteArrays,
         PutBytes(f, bytes) \/ PutBytesTooLong(f, bytes)
  PROVE  Extends(enc, enc')
<1>1. enc \in Object /\ InBuffer(enc) /\ f \in Nat /\ Delimited \in Nat /\ bytes \in Seq(Byte)
  BY IInvFacts, CallerAssumption DEF Delimited
<1>2. CASE PutBytes(f, bytes)
  <2>1. PICK a \in Addresses, b \in Addresses, c \in Addresses :
          enc' = WriteByteArray(WriteFieldTag(enc, f, Delimited, a), bytes, b, c)
    BY <1>2 DEF PutBytes
  <2> DEFINE o == WriteFieldTag(enc, f, Delimited, a)
  <2>2. Extends(enc, o)
    BY <1>1, WriteFieldTagExtends
  <2>3. Extends(o, enc')
    BY <1>1, <2>1, <2>2, WriteByteArrayExtends DEF Extends
  <2> QED BY <1>1, <2>2, <2>3, ExtendsTransitive
<1>3. CASE PutBytesTooLong(f, bytes)
  <2>1. PICK a \in Addresses : enc' = WriteFieldTag(enc, f, Delimited, a)
    BY <1>3 DEF PutBytesTooLong
  <2> QED BY <1>1, <2>1, WriteFieldTagExtends
<1> QED BY <1>2, <1>3

LEMMA OpenFieldExtends ==
  ASSUME IInv, NEW f \in FieldNums, NEW kind \in {"message", "packed"}, OpenField(f, kind)
  PROVE  /\ Extends(enc, enc')
         /\ Pos(enc) + MAX_LENGTH_CODE_SIZE <= Pos(enc')
         /\ frames' = Append(frames, [start |-> Pos(enc'), kind |-> kind])
<1>1. enc \in Object /\ InBuffer(enc) /\ f \in Nat /\ Delimited \in Nat
  BY IInvFacts, CallerAssumption DEF Delimited
<1>2. PICK a \in Addresses, b \in Addresses :
        LET s == StartLengthDelimited(WriteFieldTag(enc, f, Delimited, a), b)
        IN  /\ enc' = s.obj
            /\ frames' = Append(frames, [start |-> s.start, kind |-> kind])
  BY DEF OpenField
<1> DEFINE o == WriteFieldTag(enc, f, Delimited, a)
           s == StartLengthDelimited(o, b)
<1>3. Extends(enc, o)
  BY <1>1, WriteFieldTagExtends
<1>4. /\ Extends(o, s.obj) /\ s.start = Pos(s.obj)
      /\ s.start = Pos(o) + MAX_LENGTH_CODE_SIZE
  BY <1>3, StartExtends DEF Extends
<1> HIDE DEF o, s
<1>5. enc' = s.obj /\ frames' = Append(frames, [start |-> s.start, kind |-> kind])
  BY <1>2 DEF o, s
<1>6. Extends(enc, enc')
  BY <1>1, <1>3, <1>4, <1>5, ExtendsTransitive
<1>7. Pos(enc) \in Nat /\ Pos(o) \in Nat /\ Pos(o) >= Pos(enc)
  BY <1>1, <1>3, PosType DEF Extends
<1>8. s.start = Pos(enc')
  BY <1>4, <1>5
<1>9. Pos(enc) + MAX_LENGTH_CODE_SIZE <= Pos(enc')
  BY <1>4, <1>7, <1>8, Widths
<1> QED BY <1>5, <1>6, <1>8, <1>9

(* What commit_length_delimited changes, whether or not it then throws.    *)
LEMMA CommitFillsInnerPrefix ==
  ASSUME IInv, frames # <<>>, enc' = PatchLength(enc, Last(frames).start)
  PROVE  /\ enc' \in Object /\ InBuffer(enc') /\ Pos(enc') = Pos(enc)
         /\ \A i \in 1 .. Pos(enc) : i \notin InnerPrefix => enc'.buffer[i] = enc.buffer[i]
<1>1. enc \in Object /\ InBuffer(enc)
  BY IInvFacts
<1> QED BY <1>1, InnermostFrame, PatchFillsPrefix DEF InnerPrefix

(* Every call, exceptions included, keeps the object typed, its pointers in*)
(* the buffer and its frames nested.                                       *)
THEOREM StepIInv == IInv /\ [Next]_vars => IInv'
<1> SUFFICES ASSUME IInv, [Next]_vars PROVE IInv'
  OBVIOUS
<1>1. ASSUME NEW f \in FieldNums, NEW s \in Scalars, PutScalar(f, s) PROVE IInv'
  BY <1>1, PutScalarExtends, WriteKeepsIInv DEF PutScalar
<1>2. ASSUME NEW s \in Scalars, WriteElement(s) PROVE IInv'
  BY <1>2, WriteElementExtends, WriteKeepsIInv DEF WriteElement
<1>3. ASSUME NEW f \in FieldNums, NEW bytes \in ByteArrays, PutBytes(f, bytes) PROVE IInv'
  BY <1>3, PutBytesExtends, WriteKeepsIInv DEF PutBytes
<1>4. ASSUME NEW f \in FieldNums, NEW bytes \in ByteArrays, PutBytesTooLong(f, bytes)
      PROVE  IInv'
  <2>1. enc' \in Object /\ InBuffer(enc')
    BY <1>4, PutBytesExtends DEF Extends
  <2>2. frames' = <<>> /\ thrown' \in BOOLEAN /\ out' \in Seq(Byte)
    BY <1>4 DEF PutBytesTooLong
  <2> QED BY <2>1, <2>2, UnwindKeepsIInv
<1>5. ASSUME NEW f \in FieldNums, NEW kind \in {"message", "packed"}, OpenField(f, kind)
      PROVE  IInv'
  <2>1. /\ Extends(enc, enc')
        /\ Pos(enc) + MAX_LENGTH_CODE_SIZE <= Pos(enc')
        /\ frames' = Append(frames, [start |-> Pos(enc'), kind |-> kind])
    BY <1>5, OpenFieldExtends
  <2>2. Pos(enc') \in Int
    BY <2>1, PosType DEF Extends
  <2>3. thrown' = thrown /\ out' = <<>>
    BY <1>5 DEF OpenField
  <2> QED BY <2>1, <2>2, <2>3, OpenKeepsIInv
<1>6. CASE CloseField
  BY <1>6, CommitKeepsIInv DEF CloseField
<1>7. CASE CloseFieldTooLong
  <2>1. enc' \in Object /\ InBuffer(enc')
    BY <1>7, CommitFillsInnerPrefix DEF CloseFieldTooLong
  <2>2. frames' = <<>> /\ thrown' \in BOOLEAN /\ out' \in Seq(Byte)
    BY <1>7 DEF CloseFieldTooLong
  <2> QED BY <2>1, <2>2, UnwindKeepsIInv
<1>8. CASE Result
  <2>1. enc' \in Object /\ InBuffer(enc')
    BY <1>8, FreshObject DEF Result
  <2>2. frames' = <<>> /\ thrown' \in BOOLEAN
    BY <1>8 DEF Result
  <2>3. out' \in Seq(Byte)
    BY <1>8, IInvFacts DEF Result
  <2> QED BY <2>1, <2>2, <2>3, UnwindKeepsIInv
<1>9. CASE UNCHANGED vars
  BY <1>9 DEF vars, IInv, TypeOK, PointersInBuffer, FramesNested
<1> QED BY <1>1, <1>2, <1>3, <1>4, <1>5, <1>6, <1>7, <1>8, <1>9 DEF Next

(* The inductive invariant holds in every state the encoder reaches.       *)
THEOREM Invariance == Spec => []IInv
BY InitIInv, StepIInv, PTL DEF Spec

(* Every variable keeps its type.                                          *)
THEOREM TypeCorrect == Spec => []TypeOK
BY Invariance, PTL DEF IInv

(* The invariants the class documents hold after every call, whatever was  *)
(* reallocated and whichever sub-messages were open.                       *)
THEOREM PointersStayInBuffer == Spec => []PointersInBuffer
BY Invariance, PTL DEF IInv

(* Open sub-messages never share a prefix, and none reaches past what has  *)
(* been written.                                                           *)
THEOREM FramesStayNested == Spec => []FramesNested
BY Invariance, PTL DEF IInv

-----------------------------------------------------------------------------
(* WrittenStays, as a predicate of one step.                               *)
KeepsWritten ==
  \/ /\ Pos(enc') >= Pos(enc)
     /\ Pos(enc') <= Len(enc'.buffer)
     /\ \A i \in 1 .. Pos(enc) :
          enc'.buffer[i] # enc.buffer[i] => i \in InnerPrefix /\ frames' # frames
  \/ /\ Pos(enc') = 0
     /\ out' = SubSeq(enc.buffer, 1, Pos(enc))

LEMMA ExtendsKeepsWritten ==
  ASSUME IInv, Extends(enc, enc')
  PROVE  KeepsWritten
<1>1. enc' \in Object /\ InBuffer(enc')
  BY DEF Extends
<1>2. Pos(enc') <= Len(enc'.buffer)
  BY <1>1, PosType
<1> QED BY <1>2 DEF Extends, KeepsWritten

LEMMA CommitKeepsWritten ==
  ASSUME IInv, frames # <<>>, enc' = PatchLength(enc, Last(frames).start), frames' # frames
  PROVE  KeepsWritten
<1>1. /\ enc' \in Object /\ InBuffer(enc') /\ Pos(enc') = Pos(enc)
      /\ \A i \in 1 .. Pos(enc) : i \notin InnerPrefix => enc'.buffer[i] = enc.buffer[i]
  BY CommitFillsInnerPrefix
<1>2. Pos(enc') \in Nat /\ Pos(enc') <= Len(enc'.buffer)
  BY <1>1, PosType
<1> QED BY <1>1, <1>2 DEF KeepsWritten

LEMMA StepKeepsWritten == IInv /\ [Next]_vars => [KeepsWritten]_vars
<1> SUFFICES ASSUME IInv, Next PROVE KeepsWritten
  OBVIOUS
<1>1. ASSUME NEW f \in FieldNums, NEW s \in Scalars, PutScalar(f, s) PROVE KeepsWritten
  BY <1>1, PutScalarExtends, ExtendsKeepsWritten
<1>2. ASSUME NEW s \in Scalars, WriteElement(s) PROVE KeepsWritten
  BY <1>2, WriteElementExtends, ExtendsKeepsWritten
<1>3. ASSUME NEW f \in FieldNums, NEW bytes \in ByteArrays,
             PutBytes(f, bytes) \/ PutBytesTooLong(f, bytes)
      PROVE  KeepsWritten
  BY <1>3, PutBytesExtends, ExtendsKeepsWritten
<1>4. ASSUME NEW f \in FieldNums, NEW kind \in {"message", "packed"}, OpenField(f, kind)
      PROVE  KeepsWritten
  BY <1>4, OpenFieldExtends, ExtendsKeepsWritten
<1>5. CASE CloseField
  <2>1. /\ frames \in Seq(Frame) /\ Len(frames) \in Nat /\ DOMAIN frames = 1 .. Len(frames)
        /\ frames # <<>> /\ frames' = Front(frames)
    BY <1>5, IInvFacts DEF CloseField
  <2>2. Len(frames) >= 1
    BY <2>1
  <2>3. Len(Front(frames)) = Len(frames) - 1
    BY <2>1, <2>2 DEF Front
  <2>4. frames' # frames
    BY <2>1, <2>3
  <2> QED BY <1>5, <2>4, CommitKeepsWritten DEF CloseField
<1>6. CASE CloseFieldTooLong
  <2>1. frames' # frames
    BY <1>6 DEF CloseFieldTooLong
  <2> QED BY <1>6, <2>1, CommitKeepsWritten DEF CloseFieldTooLong
<1>7. CASE Result
  BY <1>7, FreshObject DEF Result, KeepsWritten
<1> QED BY <1>1, <1>2, <1>3, <1>4, <1>5, <1>6, <1>7 DEF Next

(* No call changes what has been written, but for the one prefix that a    *)
(* commit fills; result() returns all of it.                               *)
THEOREM WrittenBytesStay == Spec => WrittenStays
BY Invariance, StepKeepsWritten, PTL DEF Spec, WrittenStays, KeepsWritten

-----------------------------------------------------------------------------
(* Encoder implements WireLog.                                             *)

(* A slice of a sequence, element by element.                              *)
LEMMA SliceIs ==
  ASSUME NEW S, NEW s \in Seq(S), NEW lo \in Nat, NEW hi \in Nat, lo <= hi, hi <= Len(s)
  PROVE  /\ SubSeq(s, lo + 1, hi) \in Seq(S)
         /\ Len(SubSeq(s, lo + 1, hi)) = hi - lo
         /\ \A i \in 1 .. hi - lo : SubSeq(s, lo + 1, hi)[i] = s[lo + i]
OBVIOUS

LEMMA SequencesEqual ==
  ASSUME NEW S, NEW T, NEW s \in Seq(S), NEW t \in Seq(T), Len(s) = Len(t), \A i \in 1 .. Len(s) : s[i] = t[i]
  PROVE  s = t
OBVIOUS

LEMMA JoinIs ==
  ASSUME NEW S, NEW s \in Seq(S), NEW t \in Seq(S)
  PROVE  /\ s \o t \in Seq(S) /\ Len(s \o t) = Len(s) + Len(t)
         /\ \A i \in 1 .. Len(s) : (s \o t)[i] = s[i]
         /\ \A i \in 1 .. Len(t) : (s \o t)[Len(s) + i] = t[i]
OBVIOUS

(* The bytes c come to stand at the pointer, which moves past them.        *)
Appends(e, o, c) ==
  /\ Extends(e, o)
  /\ c \in Seq(Byte)
  /\ Pos(o) = Pos(e) + Len(c)
  /\ \A i \in 1 .. Len(c) : o.buffer[Pos(e) + i] = c[i]

LEMMA AppendsTransitive ==
  ASSUME NEW e \in Object, InBuffer(e), NEW o, NEW p, NEW c, NEW d, Appends(e, o, c), Appends(o, p, d)
  PROVE  Appends(e, p, c \o d)
<1>1. o \in Object /\ InBuffer(o) /\ p \in Object /\ InBuffer(p) /\ Extends(e, o) /\ Extends(o, p)
  BY DEF Appends, Extends
<1>2. Extends(e, p)
  BY <1>1, ExtendsTransitive
<1>3. Pos(e) \in Nat /\ Pos(o) \in Nat /\ Pos(p) \in Nat
  BY <1>1, PosType
<1>4. c \in Seq(Byte) /\ d \in Seq(Byte) /\ Len(c) \in Nat /\ Len(d) \in Nat
  BY DEF Appends
<1>5. /\ c \o d \in Seq(Byte) /\ Len(c \o d) = Len(c) + Len(d)
      /\ \A i \in 1 .. Len(c) : (c \o d)[i] = c[i]
      /\ \A i \in 1 .. Len(d) : (c \o d)[Len(c) + i] = d[i]
  BY <1>4, JoinIs
<1>6. Pos(o) = Pos(e) + Len(c) /\ Pos(p) = Pos(e) + Len(c \o d)
  BY <1>3, <1>4, <1>5 DEF Appends
<1>7. ASSUME NEW i \in 1 .. Len(c \o d)
      PROVE  p.buffer[Pos(e) + i] = (c \o d)[i]
  <2>1. CASE i \in 1 .. Len(c)
    <3>1. Pos(e) + i \in 1 .. Pos(o)
      BY <1>3, <1>4, <1>6, <2>1
    <3>2. p.buffer[Pos(e) + i] = o.buffer[Pos(e) + i]
      BY <1>1, <3>1 DEF Extends
    <3>3. o.buffer[Pos(e) + i] = c[i]
      BY <2>1 DEF Appends
    <3> QED BY <1>5, <2>1, <3>2, <3>3
  <2>2. CASE i \notin 1 .. Len(c)
    <3> DEFINE j == i - Len(c)
    <3>1. j \in 1 .. Len(d) /\ i = Len(c) + j /\ Pos(e) + i = Pos(o) + j
      BY <1>3, <1>4, <1>5, <1>6, <2>2
    <3> HIDE DEF j
    <3>2. p.buffer[Pos(o) + j] = d[j]
      BY <3>1 DEF Appends
    <3> QED BY <1>5, <3>1, <3>2
  <2> QED BY <2>1, <2>2
<1> QED BY <1>2, <1>5, <1>6, <1>7 DEF Appends

(* A store at a position puts its bytes there.                             *)
LEMMA PokeStores ==
  ASSUME NEW b \in Seq(Byte), NEW s \in Seq(Byte), NEW p \in Nat, p + Len(s) <= Len(b)
  PROVE  \A i \in 1 .. Len(s) : Poke(b, p, s)[p + i] = s[i]
<1>1. ASSUME NEW i \in 1 .. Len(s)
      PROVE  Poke(b, p, s)[p + i] = s[i]
  <2>1. p + i \in DOMAIN b /\ p + i \in p + 1 .. p + Len(s) /\ (p + i) - p = i
    BY <1>1
  <2> QED BY <2>1 DEF Poke
<1> QED BY <1>1

LEMMA EmitAppends ==
  ASSUME NEW e \in Object, InBuffer(e), NEW room \in Nat, NEW a \in Addresses,
         NEW s \in Seq(Byte), Len(s) <= room
  PROVE  Appends(e, Emit(e, room, s, a), s)
<1> DEFINE r == Reserve(e, room, a)
           o == Emit(e, room, s, a)
<1>1. Extends(e, o) /\ Pos(o) = Pos(e) + Len(s)
  BY EmitExtends
<1>2. Extends(e, r) /\ Pos(r) = Pos(e) /\ Pos(r) + room <= Len(r.buffer)
  BY ReserveMakesRoom
<1>3. r \in Object /\ InBuffer(r)
  BY <1>2 DEF Extends
<1>4. r.buffer \in Seq(Byte) /\ Pos(r) \in Nat /\ Len(s) \in Nat /\ Len(r.buffer) \in Nat
  BY <1>3, ObjectType, PosType
<1>5. o.buffer = Poke(r.buffer, Pos(r), s)
  BY <1>3 DEF Emit, Object
<1> HIDE DEF r, o
<1>6. Pos(r) + Len(s) <= Len(r.buffer)
  BY <1>2, <1>4
<1>7. \A i \in 1 .. Len(s) : o.buffer[Pos(e) + i] = s[i]
  BY <1>2, <1>4, <1>5, <1>6, PokeStores
<1> QED BY <1>1, <1>7 DEF Appends, o

LEMMA WriteVarintAppends ==
  ASSUME NEW e \in Object, InBuffer(e), NEW v \in Nat, NEW a \in Addresses
  PROVE  Appends(e, WriteVarint(e, v, a), VarintBytes(v))
<1>1. VarintBytes(v) \in Seq(Byte) /\ Len(VarintBytes(v)) <= MAX_VARINT_SIZE
  BY VarintBytesType, Widths
<1> QED BY <1>1, Widths, EmitAppends DEF WriteVarint

LEMMA WriteFieldTagAppends ==
  ASSUME NEW e \in Object, InBuffer(e), NEW f \in Nat, NEW w \in Nat, NEW a \in Addresses
  PROVE  Appends(e, WriteFieldTag(e, f, w, a), TagBytes(f, w))
<1>1. f * FIELDNUM_SCALE + w \in Int
  BY WidthAssumption
<1>2. Tag(f, w) \in Nat
  BY <1>1, WordType DEF Tag
<1> QED BY <1>2, WriteVarintAppends DEF WriteFieldTag, TagBytes

LEMMA WriteScalarAppends ==
  ASSUME NEW e \in Object, InBuffer(e), NEW s \in Scalars, NEW a \in Addresses
  PROVE  Appends(e, WriteScalar(e, s, a), ScalarBytes(s))
<1>1. s[1] \in {"varint", "zigzag", "fixed32", "fixed64"} /\ s[2] \in Int
  BY CallerAssumption
<1>2. ToU32(s[2]) \in Nat /\ ToU64(s[2]) \in Nat /\ ToI64(s[2]) \in Int
  BY <1>1, WordType
<1>3. CASE s[1] = "varint"
  <2>1. WriteScalar(e, s, a) = WriteVarint(e, ToU64(s[2]), a) /\ ScalarBytes(s) = VarintBytes(ToU64(s[2]))
    BY <1>3 DEF WriteScalar, ScalarBytes
  <2> QED BY <1>2, <2>1, WriteVarintAppends
<1>4. CASE s[1] = "zigzag"
  <2>1. /\ WriteScalar(e, s, a) = WriteVarint(e, ZigZag(ToI64(s[2])), a)
        /\ ScalarBytes(s) = VarintBytes(ZigZag(ToI64(s[2])))
    BY <1>4 DEF WriteScalar, ScalarBytes
  <2>2. ZigZag(ToI64(s[2])) \in Nat
    BY <1>2 DEF ZigZag
  <2> QED BY <2>1, <2>2, WriteVarintAppends
<1>5. CASE s[1] = "fixed32"
  <2>1. /\ WriteScalar(e, s, a) = Emit(e, SIZE32, FixedBytes(ToU32(s[2]), SIZE32), a)
        /\ ScalarBytes(s) = FixedBytes(ToU32(s[2]), SIZE32)
    BY <1>5 DEF WriteScalar, ScalarBytes
  <2>2. /\ FixedBytes(ToU32(s[2]), SIZE32) \in Seq(Byte)
        /\ Len(FixedBytes(ToU32(s[2]), SIZE32)) <= SIZE32 /\ SIZE32 \in Nat
    BY <1>2, FixedBytesType, Widths
  <2> QED BY <2>1, <2>2, EmitAppends
<1>6. CASE s[1] = "fixed64"
  <2>1. /\ WriteScalar(e, s, a) = Emit(e, SIZE64, FixedBytes(ToU64(s[2]), SIZE64), a)
        /\ ScalarBytes(s) = FixedBytes(ToU64(s[2]), SIZE64)
    BY <1>6 DEF WriteScalar, ScalarBytes
  <2>2. /\ FixedBytes(ToU64(s[2]), SIZE64) \in Seq(Byte)
        /\ Len(FixedBytes(ToU64(s[2]), SIZE64)) <= SIZE64 /\ SIZE64 \in Nat
    BY <1>2, FixedBytesType, Widths
  <2> QED BY <2>1, <2>2, EmitAppends
<1> QED BY <1>1, <1>3, <1>4, <1>5, <1>6

LEMMA WriteByteArrayAppends ==
  ASSUME NEW e \in Object, InBuffer(e), NEW s \in Seq(Byte),
         NEW a \in Addresses, NEW b \in Addresses
  PROVE  Appends(e, WriteByteArray(e, s, a, b), VarintBytes(Len(s)) \o s)
<1> DEFINE o == WriteVarint(e, Len(s), a)
<1>1. Len(s) \in Nat
  OBVIOUS
<1>2. Appends(e, o, VarintBytes(Len(s)))
  BY <1>1, WriteVarintAppends
<1>3. o \in Object /\ InBuffer(o)
  BY <1>2 DEF Appends, Extends
<1>4. WriteByteArray(e, s, a, b) = Emit(o, Len(s), s, b)
  BY DEF WriteByteArray
<1> HIDE DEF o
<1>5. Appends(o, Emit(o, Len(s), s, b), s)
  BY <1>1, <1>3, EmitAppends
<1> QED BY <1>2, <1>4, <1>5, AppendsTransitive

-----------------------------------------------------------------------------
(* Two buffers agree between two positions; bytes stand at a position.     *)
Agree(b, d, lo, hi) == \A i \in lo + 1 .. hi : d[i] = b[i]
Between(b, lo, hi) == SubSeq(b, lo + 1, hi)
Stands(d, p, c) == \A i \in 1 .. Len(c) : d[p + i] = c[i]

(* The payloads of the open sub-messages, as functions of the buffer, the  *)
(* frames and the position.                                                *)
Low(fr, i) == IF i = 1 THEN 0 ELSE fr[i - 1].start
High(fr, pos, i) == IF i <= Len(fr) THEN fr[i].start - MAX_LENGTH_CODE_SIZE ELSE pos
PayloadIn(b, fr, pos, i) == Between(b, Low(fr, i), High(fr, pos, i))
Payloads(b, fr, pos) == [i \in 1 .. Len(fr) + 1 |-> PayloadIn(b, fr, pos, i)]

WellFramed(b, fr, pos) ==
  /\ b \in Seq(Byte) /\ pos \in Nat /\ pos <= Len(b)
  /\ fr \in Seq(Frame)
  /\ \A i \in DOMAIN fr : MAX_LENGTH_CODE_SIZE <= fr[i].start /\ fr[i].start <= pos
  /\ \A i, j \in DOMAIN fr : i < j => fr[i].start + MAX_LENGTH_CODE_SIZE <= fr[j].start

LEMMA OpenSlicesIs == OpenSlices = IF thrown THEN <<>> ELSE Payloads(enc.buffer, frames, Pos(enc))
BY DEF OpenSlices, SliceOf, Payloads, PayloadIn, Low, High, Between

LEMMA IInvFrames ==
  ASSUME IInv
  PROVE  WellFramed(enc.buffer, frames, Pos(enc))
BY IInvFacts DEF WellFramed, IInv, FramesNested

(* Where each payload lies.                                                *)
LEMMA Bounds ==
  ASSUME NEW b, NEW fr, NEW pos, WellFramed(b, fr, pos), NEW i \in 1 .. Len(fr) + 1
  PROVE  /\ Len(fr) \in Nat
         /\ Low(fr, i) \in Nat /\ High(fr, pos, i) \in Nat
         /\ Low(fr, i) <= High(fr, pos, i) /\ High(fr, pos, i) <= pos /\ pos <= Len(b)
         /\ i \in 1 .. Len(fr) => High(fr, pos, i) + MAX_LENGTH_CODE_SIZE <= pos
<1> DEFINE n == Len(fr)
           M == MAX_LENGTH_CODE_SIZE
<1>1. n \in Nat /\ DOMAIN fr = 1 .. n /\ M \in Nat /\ pos \in Nat /\ pos <= Len(b)
  BY Widths DEF WellFramed
<1>2. ASSUME NEW k \in 1 .. n
      PROVE  fr[k].start \in Nat /\ M <= fr[k].start /\ fr[k].start <= pos
  <2>1. fr[k] \in Frame
    BY <1>1 DEF WellFramed
  <2>2. fr[k].start \in Int
    BY <2>1 DEF Frame
  <2> QED BY <1>1, <2>2 DEF WellFramed
<1>3. ASSUME NEW k \in 1 .. n, k - 1 \in 1 .. n
      PROVE  fr[k - 1].start + M <= fr[k].start
  <2>1. k - 1 < k /\ k \in DOMAIN fr /\ k - 1 \in DOMAIN fr
    BY <1>1, <1>3
  <2> QED BY <2>1 DEF WellFramed
<1>4. i \in 1 .. n \/ i = n + 1
  BY <1>1
<1>5. i = 1 \/ (i # 1 /\ i - 1 \in 1 .. n)
  BY <1>1
<1> HIDE DEF n, M
<1>6. Low(fr, i) \in Nat /\ High(fr, pos, i) \in Nat
  <2>1. Low(fr, i) \in Nat
    BY <1>1, <1>2, <1>5 DEF Low
  <2>2. CASE i \in 1 .. n
    <3>1. i <= n /\ fr[i].start - M \in Nat
      BY <1>1, <1>2, <2>2
    <3> QED BY <2>1, <3>1 DEF High, n, M
  <2>3. CASE i = n + 1
    <3>1. ~(i <= n)
      BY <1>1, <2>3
    <3> QED BY <1>1, <2>1, <3>1 DEF High, n
  <2> QED BY <1>4, <2>2, <2>3
<1>7. Low(fr, i) <= High(fr, pos, i) /\ High(fr, pos, i) <= pos /\ (i \in 1 .. n => High(fr, pos, i) + M <= pos)
  <2>1. CASE i \in 1 .. n
    <3>1. High(fr, pos, i) = fr[i].start - M
      <4>1. i <= n
        BY <1>1, <2>1
      <4> QED BY <4>1 DEF High, n, M
    <3>2. fr[i].start \in Nat /\ M <= fr[i].start /\ fr[i].start <= pos
      BY <1>2, <2>1
    <3>3. Low(fr, i) <= fr[i].start - M
      <4>1. CASE i = 1
        BY <1>1, <3>2, <4>1 DEF Low
      <4>2. CASE i # 1
        <5>1. i - 1 \in 1 .. n /\ fr[i - 1].start + M <= fr[i].start /\ fr[i - 1].start \in Nat
          BY <1>2, <1>3, <1>5, <2>1, <4>2
        <5> QED BY <1>1, <3>2, <4>2, <5>1 DEF Low
      <4> QED BY <4>1, <4>2
    <3> QED BY <1>1, <3>1, <3>2, <3>3
  <2>2. CASE i = n + 1
    <3>1. High(fr, pos, i) = pos /\ i \notin 1 .. n
      <4>1. ~(i <= n)
        BY <1>1, <2>2
      <4> QED BY <1>1, <4>1 DEF High, n
    <3>2. Low(fr, i) <= pos
      BY <1>1, <1>2, <1>5 DEF Low
    <3> QED BY <1>1, <3>1, <3>2
  <2> QED BY <1>4, <2>1, <2>2
<1> QED BY <1>1, <1>6, <1>7 DEF n, M

LEMMA SameSlice ==
  ASSUME NEW b \in Seq(Byte), NEW b2 \in Seq(Byte), NEW lo \in Nat, NEW hi \in Nat,
         lo <= hi, hi <= Len(b), hi <= Len(b2), Agree(b, b2, lo, hi)
  PROVE  Between(b2, lo, hi) = Between(b, lo, hi)
<1>1. ASSUME NEW i \in 1 .. hi - lo
      PROVE  b2[lo + i] = b[lo + i]
  <2>1. lo + i \in lo + 1 .. hi
    BY <1>1
  <2> QED BY <2>1 DEF Agree
<1>2. /\ SubSeq(b, lo + 1, hi) \in Seq(Byte) /\ Len(SubSeq(b, lo + 1, hi)) = hi - lo
      /\ \A i \in 1 .. hi - lo : SubSeq(b, lo + 1, hi)[i] = b[lo + i]
  BY SliceIs
<1>3. /\ SubSeq(b2, lo + 1, hi) \in Seq(Byte) /\ Len(SubSeq(b2, lo + 1, hi)) = hi - lo
      /\ \A i \in 1 .. hi - lo : SubSeq(b2, lo + 1, hi)[i] = b2[lo + i]
  BY SliceIs
<1>4. \A i \in 1 .. hi - lo : SubSeq(b2, lo + 1, hi)[i] = SubSeq(b, lo + 1, hi)[i]
  BY <1>1, <1>2, <1>3
<1>5. SubSeq(b2, lo + 1, hi) = SubSeq(b, lo + 1, hi)
  BY <1>2, <1>3, <1>4, SequencesEqual, ZenonT(60)
<1> QED BY <1>5 DEF Between

(* A slice of what has been written and what is appended to it.            *)
LEMMA LongerSlice ==
  ASSUME NEW b \in Seq(Byte), NEW b2 \in Seq(Byte), NEW c \in Seq(Byte), NEW lo \in Nat, NEW hi \in Nat,
         lo <= hi, hi <= Len(b), hi + Len(c) <= Len(b2),
         Agree(b, b2, lo, hi), Stands(b2, hi, c), NEW to, to = hi + Len(c)
  PROVE  Between(b2, lo, to) = Between(b, lo, hi) \o c
<1> DEFINE n == Len(c)
           s == SubSeq(b, lo + 1, hi)
           t == SubSeq(b2, lo + 1, hi + n)
<1>1. n \in Nat
  OBVIOUS
<1>2. s \in Seq(Byte) /\ Len(s) = hi - lo /\ \A i \in 1 .. hi - lo : s[i] = b[lo + i]
  BY SliceIs
<1>3. t \in Seq(Byte) /\ Len(t) = (hi + n) - lo /\ \A i \in 1 .. (hi + n) - lo : t[i] = b2[lo + i]
  <2>1. hi + n \in Nat /\ lo <= hi + n
    BY <1>1
  <2> QED BY <2>1, SliceIs
<1>4. /\ s \o c \in Seq(Byte) /\ Len(s \o c) = Len(s) + n
      /\ \A i \in 1 .. Len(s) : (s \o c)[i] = s[i]
      /\ \A i \in 1 .. n : (s \o c)[Len(s) + i] = c[i]
  BY <1>2, JoinIs
<1>5. Between(b, lo, hi) = s /\ Between(b2, lo, to) = t
  BY DEF Between
<1> HIDE DEF s, t, n
<1>6. ASSUME NEW i \in 1 .. Len(t)
      PROVE  t[i] = (s \o c)[i]
  <2>1. CASE i <= hi - lo
    <3>1. i \in 1 .. hi - lo /\ lo + i \in lo + 1 .. hi /\ i \in 1 .. (hi + n) - lo
      BY <1>1, <1>3, <2>1
    <3>2. t[i] = b2[lo + i] /\ b2[lo + i] = b[lo + i] /\ (s \o c)[i] = b[lo + i]
      BY <1>2, <1>3, <1>4, <3>1 DEF Agree
    <3> QED BY <3>2
  <2>2. CASE i > hi - lo
    <3> DEFINE j == i - (hi - lo)
    <3>1. j \in 1 .. n /\ i = Len(s) + j /\ lo + i = hi + j
      BY <1>1, <1>2, <1>3, <2>2, SMTT(60)
    <3>2. i \in 1 .. (hi + n) - lo
      BY <1>3
    <3> HIDE DEF j
    <3>3. t[i] = b2[hi + j] /\ b2[hi + j] = c[j]
      BY <1>3, <3>1, <3>2 DEF n, Stands
    <3> QED BY <1>4, <3>1, <3>3
  <2>3. i <= hi - lo \/ i > hi - lo
    BY <1>1, <1>3
  <2> QED BY <2>1, <2>2, <2>3
<1>7. Len(t) = Len(s \o c)
  BY <1>1, <1>2, <1>3, <1>4
<1>8. t = s \o c
  BY <1>3, <1>4, <1>6, <1>7, SequencesEqual
<1> QED BY <1>5, <1>8

(* What is appended belongs to the innermost payload.                      *)
Extended(P, c) == [P EXCEPT ![Len(P)] = @ \o c]

LEMMA AppendPayload ==
  ASSUME NEW b, NEW fr, NEW pos, WellFramed(b, fr, pos),
         NEW c \in Seq(Byte), NEW b2 \in Seq(Byte), pos + Len(c) <= Len(b2),
         Agree(b, b2, 0, pos), Stands(b2, pos, c), NEW to, to = pos + Len(c)
  PROVE  /\ WellFramed(b2, fr, to)
         /\ Payloads(b2, fr, to) = Extended(Payloads(b, fr, pos), c)
<1> DEFINE n == Len(fr)
           pos2 == pos + Len(c)
<1>1. /\ n \in Nat /\ DOMAIN fr = 1 .. n /\ pos \in Nat /\ pos <= Len(b) /\ b \in Seq(Byte)
      /\ Len(c) \in Nat /\ pos2 \in Nat /\ pos <= pos2
  BY DEF WellFramed
<1>2. WellFramed(b2, fr, pos2)
  <2>1. ASSUME NEW i \in DOMAIN fr
        PROVE  MAX_LENGTH_CODE_SIZE <= fr[i].start /\ fr[i].start <= pos2
    <3>1. fr[i] \in Frame /\ MAX_LENGTH_CODE_SIZE <= fr[i].start /\ fr[i].start <= pos
      BY DEF WellFramed
    <3> QED BY <1>1, <3>1 DEF Frame
  <2> QED BY <1>1, <2>1 DEF WellFramed
<1>3. ASSUME NEW i \in 1 .. n
      PROVE  PayloadIn(b2, fr, pos2, i) = PayloadIn(b, fr, pos, i)
  <2>1. i \in 1 .. n + 1 /\ i <= n
    BY <1>1
  <2>2. /\ Low(fr, i) \in Nat /\ High(fr, pos, i) \in Nat
        /\ Low(fr, i) <= High(fr, pos, i) /\ High(fr, pos, i) <= pos
    BY <2>1, Bounds
  <2>3. High(fr, pos2, i) = High(fr, pos, i)
    BY <2>1 DEF High
  <2>4. Agree(b, b2, Low(fr, i), High(fr, pos, i))
    BY <1>1, <2>2 DEF Agree
  <2>5. High(fr, pos, i) <= Len(b) /\ High(fr, pos, i) <= Len(b2)
    BY <1>1, <2>2
  <2> DEFINE lo == Low(fr, i)
             hi == High(fr, pos, i)
  <2>6. PayloadIn(b, fr, pos, i) = Between(b, lo, hi) /\ PayloadIn(b2, fr, pos2, i) = Between(b2, lo, hi)
    BY <2>3 DEF PayloadIn
  <2> HIDE DEF lo, hi
  <2>7. Between(b2, lo, hi) = Between(b, lo, hi)
    BY <1>1, <2>2, <2>4, <2>5, SameSlice DEF lo, hi
  <2> QED BY <2>6, <2>7
<1>4. PayloadIn(b2, fr, pos2, n + 1) = PayloadIn(b, fr, pos, n + 1) \o c
  <2> DEFINE lo == Low(fr, n + 1)
  <2>1. n + 1 \in 1 .. n + 1 /\ ~(n + 1 <= n)
    BY <1>1
  <2>2. High(fr, pos, n + 1) = pos /\ High(fr, pos2, n + 1) = pos2
    BY <2>1 DEF High
  <2>3. lo \in Nat /\ lo <= pos
    BY <2>1, <2>2, Bounds
  <2> HIDE DEF lo
  <2>4. Agree(b, b2, lo, pos)
    BY <1>1, <2>3 DEF Agree
  <2>5. Between(b2, lo, pos2) = Between(b, lo, pos) \o c
    <3>1. lo <= pos /\ pos <= Len(b) /\ pos + Len(c) <= Len(b2)
      BY <1>1, <2>3
    <3>2. pos2 = pos + Len(c)
      OBVIOUS
    <3> HIDE DEF pos2
    <3> QED BY <1>1, <2>3, <2>4, <3>1, <3>2, LongerSlice, SMTT(60)
  <2> QED BY <2>2, <2>5 DEF PayloadIn, lo
<1> DEFINE P == Payloads(b, fr, pos)
<1>5. P = [i \in 1 .. n + 1 |-> PayloadIn(b, fr, pos, i)]
  BY DEF Payloads
<1>6. \A i \in 1 .. n + 1 : i \in 1 .. n \/ i = n + 1
  BY <1>1
<1>7. n + 1 \in 1 .. n + 1 /\ n + 1 \notin 1 .. n
  BY <1>1
<1> HIDE DEF P
<1>8. Payloads(b2, fr, pos2) = [i \in 1 .. n + 1 |-> PayloadIn(b2, fr, pos2, i)]
  BY DEF Payloads
<1> HIDE DEF n, pos2
<1>9. [P EXCEPT ![n + 1] = @ \o c] = [i \in 1 .. n + 1 |-> IF i = n + 1 THEN P[n + 1] \o c ELSE P[i]]
  BY <1>5, <1>7
<1>10. \A i \in 1 .. n + 1 : PayloadIn(b2, fr, pos2, i) = IF i = n + 1 THEN P[n + 1] \o c ELSE P[i]
  BY <1>3, <1>4, <1>5, <1>6, <1>7
<1>11. Payloads(b2, fr, pos2) = [P EXCEPT ![n + 1] = @ \o c]
  BY <1>8, <1>9, <1>10
<1>12. Len(P) = n + 1
  BY <1>1, <1>5 DEF n
<1>13. Payloads(b2, fr, pos2) = Extended(P, c)
  BY <1>11, <1>12 DEF Extended
<1> QED BY <1>2, <1>13 DEF pos2, P

LEMMA EmptySlice ==
  ASSUME NEW b \in Seq(Byte), NEW p \in Nat
  PROVE  Between(b, p, p) = <<>>
BY DEF Between

LEMMA StartIn ==
  ASSUME NEW b, NEW fr, NEW pos, WellFramed(b, fr, pos), NEW i \in 1 .. Len(fr)
  PROVE  /\ fr[i].start \in Nat /\ fr[i].start - MAX_LENGTH_CODE_SIZE \in Nat
         /\ fr[i].start <= pos
<1>1. i \in DOMAIN fr /\ fr[i] \in Frame
  BY DEF WellFramed
<1>2. fr[i].start \in Int
  BY <1>1 DEF Frame
<1> QED BY <1>1, <1>2, Widths DEF WellFramed

(* A sub-message that is opened gets an empty payload behind its prefix.   *)
LEMMA OpenPayload ==
  ASSUME NEW b, NEW fr, NEW pos, WellFramed(b, fr, pos),
         NEW d \in Seq(Byte), pos + MAX_LENGTH_CODE_SIZE <= Len(d), Agree(b, d, 0, pos),
         NEW f \in Frame, f.start = pos + MAX_LENGTH_CODE_SIZE
  PROVE  Payloads(d, Append(fr, f), f.start) = Append(Payloads(b, fr, pos), <<>>)
<1> DEFINE n == Len(fr)
           g == Append(fr, f)
           q == f.start
           P == Payloads(b, fr, pos)
<1>1. /\ n \in Nat /\ fr \in Seq(Frame) /\ pos \in Nat /\ pos <= Len(b) /\ b \in Seq(Byte)
      /\ MAX_LENGTH_CODE_SIZE \in Nat /\ q = pos + MAX_LENGTH_CODE_SIZE /\ q \in Nat
  BY Widths DEF WellFramed
<1>2. Len(g) = n + 1 /\ g[n + 1] = f /\ \A i \in 1 .. n : g[i] = fr[i]
  BY <1>1
<1> HIDE DEF g, q
<1>3. ASSUME NEW i \in 1 .. n + 1
      PROVE  Low(g, i) = Low(fr, i) /\ High(g, q, i) = High(fr, pos, i)
  <2>1. CASE i \in 1 .. n
    <3>1. i <= n /\ i <= n + 1 /\ (i # 1 => i - 1 \in 1 .. n)
      BY <1>1, <2>1
    <3> QED BY <1>2, <2>1, <3>1 DEF Low, High
  <2>2. CASE i = n + 1
    <3>1. ~(i <= n) /\ i <= n + 1 /\ (i # 1 => i - 1 \in 1 .. n)
      BY <1>1, <2>2
    <3>2. g[i].start - MAX_LENGTH_CODE_SIZE = pos
      BY <1>1, <1>2, <2>2 DEF q
    <3> QED BY <1>2, <3>1, <3>2 DEF Low, High
  <2> QED BY <1>1, <2>1, <2>2
<1>4. ASSUME NEW i \in 1 .. n + 1
      PROVE  PayloadIn(d, g, q, i) = PayloadIn(b, fr, pos, i)
  <2> DEFINE lo == Low(fr, i)
             hi == High(fr, pos, i)
  <2>1. PayloadIn(b, fr, pos, i) = Between(b, lo, hi) /\ PayloadIn(d, g, q, i) = Between(d, lo, hi)
    BY <1>3 DEF PayloadIn
  <2>2. lo \in Nat /\ hi \in Nat /\ lo <= hi /\ hi <= pos
    BY Bounds
  <2> HIDE DEF lo, hi
  <2>3. hi <= Len(b) /\ hi <= Len(d) /\ Agree(b, d, lo, hi)
    BY <1>1, <2>2 DEF Agree
  <2>4. Between(d, lo, hi) = Between(b, lo, hi)
    BY <1>1, <2>2, <2>3, SameSlice
  <2> QED BY <2>1, <2>4
<1>5. PayloadIn(d, g, q, n + 2) = <<>>
  <2>1. ~(n + 2 <= n + 1) /\ n + 2 # 1 /\ (n + 2) - 1 = n + 1
    BY <1>1
  <2>2. Low(g, n + 2) = q /\ High(g, q, n + 2) = q
    BY <1>2, <2>1 DEF Low, High, q
  <2> QED BY <1>1, <2>2, EmptySlice DEF PayloadIn
<1>6. P = [i \in 1 .. n + 1 |-> PayloadIn(b, fr, pos, i)]
  BY DEF Payloads
<1>7. Payloads(d, g, q) = [i \in 1 .. n + 2 |-> PayloadIn(d, g, q, i)]
  <2>1. Len(g) + 1 = n + 2
    BY <1>1, <1>2
  <2> QED BY <2>1 DEF Payloads
<1> HIDE DEF P
<1>8. Append(P, <<>>) = [i \in 1 .. n + 2 |-> IF i = n + 2 THEN <<>> ELSE P[i]]
  BY <1>1, <1>6
<1>9. \A i \in 1 .. n + 2 : i \in 1 .. n + 1 \/ i = n + 2
  BY <1>1
<1>10. n + 2 \notin 1 .. n + 1
  BY <1>1
<1>11. \A i \in 1 .. n + 2 : PayloadIn(d, g, q, i) = IF i = n + 2 THEN <<>> ELSE P[i]
  BY <1>4, <1>5, <1>6, <1>9, <1>10
<1>12. Payloads(d, g, q) = Append(P, <<>>)
  BY <1>7, <1>8, <1>11
<1> QED BY <1>12 DEF g, q, P

LEMMA PrefixIs ==
  ASSUME NEW S, NEW s \in Seq(S), NEW k \in Nat, k <= Len(s)
  PROVE  /\ SubSeq(s, 1, k) \in Seq(S) /\ Len(SubSeq(s, 1, k)) = k
         /\ \A i \in 1 .. k : SubSeq(s, 1, k)[i] = s[i]
OBVIOUS

LEMMA FrontIs ==
  ASSUME NEW S, NEW s \in Seq(S), Len(s) >= 1
  PROVE  /\ Front(s) \in Seq(S) /\ Len(Front(s)) = Len(s) - 1
         /\ \A i \in 1 .. Len(s) - 1 : Front(s)[i] = s[i]
<1> DEFINE k == Len(s) - 1
<1>1. Front(s) = SubSeq(s, 1, k) /\ k \in Nat /\ k <= Len(s)
  BY DEF Front
<1> HIDE DEF k
<1>2. /\ Front(s) \in Seq(S) /\ Len(Front(s)) = k
      /\ \A i \in 1 .. k : Front(s)[i] = s[i]
  BY <1>1, PrefixIs
<1> QED BY <1>2 DEF k

IsIndexed(s, n) == s = [i \in 1 .. n |-> s[i]]

LEMMA AppendToFront ==
  ASSUME NEW k \in Nat, NEW n, n = k + 1, NEW m, m = k + 2, NEW s, NEW x, IsIndexed(s, m)
  PROVE  Append(SubSeq(s, 1, k), x) = [i \in 1 .. n |-> IF i = n THEN x ELSE s[i]]
<1>1. s \in Seq({s[i] : i \in 1 .. m}) /\ Len(s) = m /\ k <= m
  BY DEF IsIndexed
<1> DEFINE t == SubSeq(s, 1, k)
<1>2. /\ t \in Seq({s[i] : i \in 1 .. m}) /\ Len(t) = k
      /\ \A i \in 1 .. k : t[i] = s[i]
  BY <1>1, PrefixIs
<1> HIDE DEF t
<1>3. t = [i \in 1 .. k |-> s[i]]
  BY <1>2
<1>4. Append(t, x) = [i \in 1 .. k + 1 |-> IF i = k + 1 THEN x ELSE s[i]]
  BY <1>3
<1> QED BY <1>4 DEF t

(* A sub-message that is closed joins its parent behind its prefix.        *)
InnerStart(fr) == fr[Len(fr)].start

Patched(b, d, fr, pos, prefix) ==
  /\ d \in Seq(Byte) /\ Len(d) = Len(b)
  /\ prefix \in Seq(Byte) /\ Len(prefix) = MAX_LENGTH_CODE_SIZE
  /\ Agree(b, d, 0, InnerStart(fr) - MAX_LENGTH_CODE_SIZE)
  /\ Stands(d, InnerStart(fr) - MAX_LENGTH_CODE_SIZE, prefix)
  /\ Agree(b, d, InnerStart(fr), pos)

JoinedBehind(P, prefix) == Append(SubSeq(P, 1, Len(P) - 2), P[Len(P) - 1] \o prefix \o P[Len(P)])

LEMMA ClosePayload ==
  ASSUME NEW b, NEW fr, NEW pos, WellFramed(b, fr, pos), fr # <<>>,
         NEW d, NEW prefix, Patched(b, d, fr, pos, prefix)
  PROVE  Payloads(d, Front(fr), pos) = JoinedBehind(Payloads(b, fr, pos), prefix)
<1> DEFINE n == Len(fr)
           g == Front(fr)
           start == InnerStart(fr)
           m == start - MAX_LENGTH_CODE_SIZE
           P == Payloads(b, fr, pos)
<1>1. /\ n \in Nat /\ n >= 1 /\ fr \in Seq(Frame) /\ pos \in Nat /\ pos <= Len(b) /\ b \in Seq(Byte)
      /\ MAX_LENGTH_CODE_SIZE \in Nat
  BY Widths DEF WellFramed
<1>2. start \in Nat /\ m \in Nat /\ m <= start /\ start <= pos
  <2>1. n \in 1 .. n
    BY <1>1
  <2>2. fr[n].start \in Nat /\ fr[n].start - MAX_LENGTH_CODE_SIZE \in Nat /\ fr[n].start <= pos
    BY <2>1, StartIn
  <2>3. start = fr[n].start
    BY DEF InnerStart
  <2> HIDE DEF start
  <2> QED BY <1>1, <2>2, <2>3
<1>3. /\ Agree(b, d, 0, m) /\ Agree(b, d, start, pos) /\ Stands(d, m, prefix)
      /\ d \in Seq(Byte) /\ prefix \in Seq(Byte)
  BY DEF Patched
<1>4. Len(d) = Len(b) /\ Len(prefix) = MAX_LENGTH_CODE_SIZE
  BY DEF Patched
<1>5. start = fr[n].start
  BY DEF InnerStart
<1> HIDE DEF start
<1>6. m = start - MAX_LENGTH_CODE_SIZE
  OBVIOUS
<1> HIDE DEF m
<1>7. start = m + Len(prefix) /\ m <= Len(b) /\ start <= Len(d) /\ pos <= Len(d) /\ Len(b) \in Nat
  <2>1. Len(b) \in Nat /\ Len(d) = Len(b) /\ pos <= Len(b)
    BY <1>1, <1>4
  <2>2. start = m + MAX_LENGTH_CODE_SIZE
    BY <1>1, <1>2, <1>6
  <2> QED BY <1>1, <1>2, <1>4, <2>1, <2>2
<1>8. Len(g) = n - 1 /\ \A i \in 1 .. n - 1 : g[i] = fr[i]
  BY <1>1, FrontIs
<1> HIDE DEF g
<1>9. ASSUME NEW i \in 1 .. n
      PROVE  Low(g, i) = Low(fr, i) /\ (i # n => High(g, pos, i) = High(fr, pos, i) /\ High(fr, pos, i) <= m)
  <2>1. i # 1 => i - 1 \in 1 .. n - 1
    BY <1>1
  <2>2. Low(g, i) = Low(fr, i)
    BY <1>8, <2>1 DEF Low
  <2>3. ASSUME i # n
        PROVE  High(g, pos, i) = High(fr, pos, i) /\ High(fr, pos, i) <= m
    <3>1. i <= n /\ i <= n - 1 /\ i \in 1 .. n - 1 /\ i \in DOMAIN fr /\ n \in DOMAIN fr /\ i < n
      BY <1>1, <2>3
    <3>2. High(g, pos, i) = High(fr, pos, i)
      BY <1>8, <3>1 DEF High
    <3>3. fr[i].start + MAX_LENGTH_CODE_SIZE <= start
      BY <1>5, <3>1 DEF WellFramed
    <3>4. fr[i].start \in Nat
      BY <1>1, <3>1, StartIn
    <3>5. High(fr, pos, i) = fr[i].start - MAX_LENGTH_CODE_SIZE
      BY <3>1 DEF High
    <3> QED BY <1>1, <1>2, <3>2, <3>3, <3>4, <3>5, <1>6
  <2> QED BY <2>2, <2>3
<1>10. ASSUME NEW i \in 1 .. n, i # n
      PROVE  PayloadIn(d, g, pos, i) = PayloadIn(b, fr, pos, i)
  <2> DEFINE lo == Low(fr, i)
             hi == High(fr, pos, i)
  <2>1. PayloadIn(b, fr, pos, i) = Between(b, lo, hi) /\ PayloadIn(d, g, pos, i) = Between(d, lo, hi) /\ hi <= m
    BY <1>9, <1>10 DEF PayloadIn
  <2>0. i \in 1 .. n + 1
    BY <1>1
  <2>2. lo \in Nat /\ hi \in Nat /\ lo <= hi /\ hi <= pos
    BY <2>0, Bounds
  <2> HIDE DEF lo, hi
  <2>3. hi <= Len(b) /\ hi <= Len(d) /\ Agree(b, d, lo, hi)
    <3>1. hi <= Len(b) /\ hi <= Len(d)
      BY <1>1, <1>2, <1>7, <2>2
    <3>2. Agree(b, d, lo, hi)
      BY <1>3, <1>1, <1>2, <2>1, <2>2 DEF Agree
    <3> QED BY <3>1, <3>2
  <2>4. Between(d, lo, hi) = Between(b, lo, hi)
    BY <1>3, <1>1, <2>2, <2>3, SameSlice
  <2> QED BY <2>1, <2>4
<1>11. PayloadIn(d, g, pos, n) = PayloadIn(b, fr, pos, n) \o prefix \o PayloadIn(b, fr, pos, n + 1)
  <2> DEFINE lo == Low(fr, n)
             c == Between(b, start, pos)
  <2>1. n \in 1 .. n /\ n \in 1 .. n + 1 /\ ~(n <= n - 1) /\ n <= n /\ ~(n + 1 <= n) /\ n + 1 # 1 /\ (n + 1) - 1 = n
    BY <1>1
  <2>2. Low(g, n) = lo /\ High(g, pos, n) = pos /\ High(fr, pos, n) = m
    BY <1>5, <1>6, <1>8, <1>9, <2>1 DEF High
  <2>3. lo \in Nat /\ lo <= m
    BY <2>1, <2>2, Bounds
  <2>4. Low(fr, n + 1) = start /\ High(fr, pos, n + 1) = pos
    BY <1>5, <2>1 DEF Low, High
  <2>5. /\ PayloadIn(d, g, pos, n) = Between(d, lo, pos)
        /\ PayloadIn(b, fr, pos, n) = Between(b, lo, m)
        /\ PayloadIn(b, fr, pos, n + 1) = c
    BY <2>2, <2>4 DEF PayloadIn
  <2>6. c \in Seq(Byte) /\ Len(c) = pos - start /\ \A i \in 1 .. pos - start : c[i] = b[start + i]
    BY <1>1, <1>2, SliceIs DEF Between
  <2> HIDE DEF lo, c
  <2>7. Stands(d, start, c)
    <3>1. ASSUME NEW i \in 1 .. Len(c)
          PROVE  d[start + i] = c[i]
      <4>1. i \in 1 .. pos - start /\ start + i \in start + 1 .. pos
        BY <1>1, <1>2, <2>6
      <4> QED BY <1>3, <2>6, <4>1 DEF Agree
    <3> QED BY <3>1 DEF Stands
  <2>8. Between(d, lo, start) = Between(b, lo, m) \o prefix
    <3>1. Agree(b, d, lo, m)
      BY <1>3, <1>1, <1>2, <2>3 DEF Agree
    <3>2. m <= Len(b) /\ m + Len(prefix) <= Len(d) /\ start = m + Len(prefix) /\ Stands(d, m, prefix)
      BY <1>3, <1>1, <1>2, <1>7
    <3> QED BY <1>3, <1>1, <1>2, <2>3, <3>1, <3>2, LongerSlice, SMTT(60)
  <2>9. Between(d, lo, pos) = Between(d, lo, start) \o c
    <3>1. Agree(d, d, lo, start)
      BY DEF Agree
    <3>2. lo <= start /\ start <= Len(d) /\ start + Len(c) <= Len(d) /\ pos = start + Len(c)
      BY <1>3, <1>1, <1>2, <1>7, <2>3, <2>6
    <3> QED BY <1>3, <1>2, <2>3, <2>6, <2>7, <3>1, <3>2, LongerSlice, SMTT(60)
  <2> QED BY <2>5, <2>8, <2>9
<1>12. P = [i \in 1 .. n + 1 |-> PayloadIn(b, fr, pos, i)]
  BY DEF Payloads
<1> HIDE DEF P
<1>13. Payloads(d, g, pos) = [i \in 1 .. n |-> PayloadIn(d, g, pos, i)]
  <2>1. Len(g) + 1 = n
    BY <1>1, <1>8
  <2> QED BY <2>1 DEF Payloads
<1> DEFINE x == P[n] \o prefix \o P[n + 1]
<1>14. Len(P) = n + 1 /\ Len(P) - 2 = n - 1 /\ Len(P) - 1 = n
  BY <1>1, <1>12
<1>15. PayloadIn(d, g, pos, n) = x
  <2>1. n \in 1 .. n + 1 /\ n + 1 \in 1 .. n + 1
    BY <1>1
  <2> QED BY <1>11, <1>12, <2>1
<1> HIDE DEF x
<1>16. Append(SubSeq(P, 1, n - 1), x) = [i \in 1 .. n |-> IF i = n THEN x ELSE P[i]]
  <2> DEFINE k == n - 1
             all == n + 1
  <2>1. IsIndexed(P, all)
    BY <1>12 DEF IsIndexed
  <2>2. k \in Nat /\ n = k + 1 /\ all = k + 2
    BY <1>1
  <2> HIDE DEF k, all
  <2>3. Append(SubSeq(P, 1, k), x) = [i \in 1 .. n |-> IF i = n THEN x ELSE P[i]]
    BY <2>1, <2>2, AppendToFront
  <2> QED BY <2>3 DEF k
<1>17. \A i \in 1 .. n : PayloadIn(d, g, pos, i) = IF i = n THEN x ELSE P[i]
  <2>1. \A i \in 1 .. n : i \in 1 .. n + 1
    BY <1>1
  <2> QED BY <1>10, <1>12, <1>15, <2>1
<1>18. Payloads(d, g, pos) = Append(SubSeq(P, 1, n - 1), x)
  BY <1>13, <1>16, <1>17
<1> QED BY <1>14, <1>18 DEF g, x, P, JoinedBehind

-----------------------------------------------------------------------------
(* Each step of the encoder is a step of the payload stack.                *)
LEMMA OpenSlicesNext ==
  OpenSlices' = IF thrown' THEN <<>> ELSE Payloads(enc'.buffer, frames', Pos(enc'))
BY DEF OpenSlices, SliceOf, Payloads, PayloadIn, Low, High, Between, Pos

LEMMA PayloadsCount ==
  ASSUME NEW b, NEW fr \in Seq(Frame), NEW pos
  PROVE  /\ Len(Payloads(b, fr, pos)) = Len(fr) + 1
         /\ DOMAIN Payloads(b, fr, pos) = 1 .. Len(fr) + 1
BY DEF Payloads

LEMMA AppendedPayload ==
  ASSUME NEW e \in Object, InBuffer(e), NEW o, NEW c, Appends(e, o, c), NEW fr, WellFramed(e.buffer, fr, Pos(e))
  PROVE  /\ WellFramed(o.buffer, fr, Pos(o))
         /\ Payloads(o.buffer, fr, Pos(o)) = Extended(Payloads(e.buffer, fr, Pos(e)), c)
<1>1. /\ o \in Object /\ InBuffer(o) /\ c \in Seq(Byte) /\ Pos(o) = Pos(e) + Len(c)
      /\ Agree(e.buffer, o.buffer, 0, Pos(e)) /\ Stands(o.buffer, Pos(e), c)
  BY DEF Appends, Extends, Agree, Stands
<1>2. o.buffer \in Seq(Byte) /\ Pos(o) <= Len(o.buffer)
  BY <1>1, ObjectType, PosType
<1>3. Pos(e) + Len(c) <= Len(o.buffer)
  BY <1>1, <1>2
<1>4. /\ WellFramed(o.buffer, fr, Pos(o))
      /\ Payloads(o.buffer, fr, Pos(o)) = Extended(Payloads(e.buffer, fr, Pos(e)), c)
  BY <1>1, <1>2, <1>3, AppendPayload
<1> QED BY <1>1, <1>4

LEMMA WriteSimulates ==
  ASSUME IInv, ~thrown, NEW c, Appends(enc, enc', c), UNCHANGED <<frames, thrown>>, out' = <<>>
  PROVE  Log!Write(c)
<1> DEFINE P == Payloads(enc.buffer, frames, Pos(enc))
           Q == Payloads(enc'.buffer, frames, Pos(enc'))
<1>1. OpenSlices = P /\ OpenSlices' = Q
  BY OpenSlicesIs, OpenSlicesNext
<1>2. Q = Extended(P, c)
  BY IInvFacts, IInvFrames, AppendedPayload
<1> HIDE DEF P, Q
<1> QED BY <1>1, <1>2 DEF Extended, Log!Write, Log!Extend

LEMMA PutScalarSimulates ==
  ASSUME IInv, NEW f \in FieldNums, NEW s \in Scalars, PutScalar(f, s)
  PROVE  \E c \in FieldChunks : Log!Write(c)
<1> DEFINE c == TagBytes(f, WireTypeOf(s[1])) \o ScalarBytes(s)
<1>1. c \in FieldChunks
  BY DEF FieldChunks, ScalarChunks
<1>2. PICK a, b \in Addresses :
        enc' = WriteScalar(WriteFieldTag(enc, f, WireTypeOf(s[1]), a), s, b)
  BY DEF PutScalar
<1> DEFINE o == WriteFieldTag(enc, f, WireTypeOf(s[1]), a)
<1>3. f \in Nat /\ WireTypeOf(s[1]) \in Nat /\ enc \in Object /\ InBuffer(enc)
  BY CallerAssumption, WireTypeOfType, IInvFacts
<1>4. Appends(enc, o, TagBytes(f, WireTypeOf(s[1])))
  BY <1>3, WriteFieldTagAppends
<1>5. o \in Object /\ InBuffer(o)
  BY <1>4 DEF Appends, Extends
<1>6. enc' = WriteScalar(o, s, b)
  BY <1>2
<1> HIDE DEF o
<1>7. Appends(o, enc', ScalarBytes(s))
  BY <1>5, <1>6, WriteScalarAppends
<1>8. Appends(enc, enc', c)
  BY <1>3, <1>4, <1>7, AppendsTransitive
<1>9. ~thrown /\ UNCHANGED <<frames, thrown>> /\ out' = <<>>
  BY DEF PutScalar, Writing
<1> HIDE DEF c
<1>10. Log!Write(c)
  BY <1>8, <1>9, WriteSimulates
<1> QED BY <1>1, <1>10

LEMMA WriteElementSimulates ==
  ASSUME IInv, NEW s \in Scalars, WriteElement(s)
  PROVE  \E c \in ElementChunks : Log!Write(c)
<1>1. ScalarBytes(s) \in ElementChunks
  BY DEF ElementChunks
<1>2. Appends(enc, enc', ScalarBytes(s))
  BY IInvFacts, WriteScalarAppends DEF WriteElement
<1>3. ~thrown /\ UNCHANGED <<frames, thrown>> /\ out' = <<>>
  BY DEF WriteElement, Writing
<1>4. Log!Write(ScalarBytes(s))
  BY <1>2, <1>3, WriteSimulates
<1> QED BY <1>1, <1>4

LEMMA JoinAssociates ==
  ASSUME NEW S, NEW a \in Seq(S), NEW b \in Seq(S), NEW c \in Seq(S)
  PROVE  (a \o b) \o c = a \o (b \o c)
OBVIOUS

LEMMA TagBytesType ==
  ASSUME NEW f \in Nat, NEW w \in Nat
  PROVE  TagBytes(f, w) \in Seq(Byte)
<1>1. f * FIELDNUM_SCALE + w \in Int
  BY WidthAssumption
<1>2. Tag(f, w) \in Nat
  BY <1>1, WordType DEF Tag
<1> QED BY <1>2, VarintBytesType DEF TagBytes

LEMMA PutBytesSimulates ==
  ASSUME IInv, NEW f \in FieldNums, NEW bytes \in ByteArrays, PutBytes(f, bytes)
  PROVE  \E c \in FieldChunks : Log!Write(c)
<1> DEFINE t == TagBytes(f, Delimited)
           l == VarintBytes(Len(bytes))
<1>1. Len(bytes) <= INT32_MAX /\ bytes \in Seq(Byte) /\ f \in Nat /\ Delimited \in Nat
  BY CallerAssumption DEF PutBytes, Delimited
<1>2. BytesChunk(f, bytes) \in FieldChunks
  <2>1. bytes \in ShortArrays
    BY <1>1 DEF ShortArrays
  <2> QED BY <2>1 DEF FieldChunks
<1>3. PICK a, b, c \in Addresses :
        enc' = WriteByteArray(WriteFieldTag(enc, f, Delimited, a), bytes, b, c)
  BY DEF PutBytes
<1> DEFINE o == WriteFieldTag(enc, f, Delimited, a)
<1>4. enc \in Object /\ InBuffer(enc)
  BY IInvFacts
<1>5. Appends(enc, o, t)
  BY <1>1, <1>4, WriteFieldTagAppends
<1>6. o \in Object /\ InBuffer(o)
  BY <1>5 DEF Appends, Extends
<1>7. enc' = WriteByteArray(o, bytes, b, c)
  BY <1>3
<1> HIDE DEF o
<1>8. Appends(o, enc', l \o bytes)
  BY <1>1, <1>6, <1>7, WriteByteArrayAppends
<1>9. t \in Seq(Byte) /\ l \in Seq(Byte)
  BY <1>1, TagBytesType, VarintBytesType
<1> HIDE DEF t, l
<1>10. Appends(enc, enc', t \o (l \o bytes))
  BY <1>4, <1>5, <1>8, AppendsTransitive
<1>11. Appends(enc, enc', t \o l \o bytes)
  <2>1. t \o l \o bytes = t \o (l \o bytes)
    BY <1>1, <1>9, JoinAssociates
  <2> QED BY <1>10, <2>1
<1>12. ~thrown /\ UNCHANGED <<frames, thrown>> /\ out' = <<>>
  BY DEF PutBytes, Writing
<1>13. Log!Write(BytesChunk(f, bytes))
  BY <1>11, <1>12, WriteSimulates DEF BytesChunk, t, l
<1> QED BY <1>2, <1>13

(* What opening a sub-message does to the object: the bytes written so far *)
(* stay, and the pointer moves past the prefix.                            *)
LEMMA StartKeeps ==
  ASSUME NEW e \in Object, InBuffer(e), NEW a \in Addresses
  PROVE  LET o == StartLengthDelimited(e, a).obj
         IN  /\ o.buffer \in Seq(Byte) /\ Pos(e) + MAX_LENGTH_CODE_SIZE <= Len(o.buffer)
             /\ Pos(o) = Pos(e) + MAX_LENGTH_CODE_SIZE
             /\ Agree(e.buffer, o.buffer, 0, Pos(e))
<1> DEFINE s == StartLengthDelimited(e, a)
           o == s.obj
<1>1. Extends(e, o) /\ Pos(o) = Pos(e) + MAX_LENGTH_CODE_SIZE
  BY StartExtends
<1> HIDE DEF s
<1>2. o \in Object /\ InBuffer(o)
  BY <1>1 DEF Extends
<1>3. o.buffer \in Seq(Byte) /\ Pos(o) <= Len(o.buffer)
  BY <1>2, ObjectType, PosType
<1>4. Agree(e.buffer, o.buffer, 0, Pos(e))
  BY <1>1 DEF Extends, Agree
<1>5. Pos(e) + MAX_LENGTH_CODE_SIZE <= Len(o.buffer)
  BY <1>1, <1>3
<1> QED BY <1>1, <1>3, <1>4, <1>5 DEF s

LEMMA OpenFieldSimulates ==
  ASSUME IInv, NEW f \in FieldNums, NEW kind \in {"message", "packed"}, OpenField(f, kind)
  PROVE  \E t \in DelimitedTags : Log!Begin(t)
<1> DEFINE t == TagBytes(f, Delimited)
           P == Payloads(enc.buffer, frames, Pos(enc))
           Q == Payloads(enc'.buffer, frames', Pos(enc'))
<1>1. t \in DelimitedTags
  BY DEF DelimitedTags
<1>2. PICK a, b \in Addresses :
        LET s == StartLengthDelimited(WriteFieldTag(enc, f, Delimited, a), b)
        IN  /\ enc' = s.obj
            /\ frames' = Append(frames, [start |-> s.start, kind |-> kind])
  BY DEF OpenField
<1> DEFINE o == WriteFieldTag(enc, f, Delimited, a)
           s == StartLengthDelimited(o, b)
           g == [start |-> s.start, kind |-> kind]
<1>3. enc \in Object /\ InBuffer(enc) /\ f \in Nat /\ Delimited \in Nat
  BY IInvFacts, CallerAssumption DEF Delimited
<1>4. Appends(enc, o, t)
  BY <1>3, WriteFieldTagAppends
<1>5. o \in Object /\ InBuffer(o)
  BY <1>4 DEF Appends, Extends
<1>6. enc' = s.obj /\ frames' = Append(frames, g)
  BY <1>2
<1> HIDE DEF o
<1>7. s.start = Pos(s.obj) /\ s.start = Pos(o) + MAX_LENGTH_CODE_SIZE
  BY <1>5, StartExtends
<1>8. /\ enc'.buffer \in Seq(Byte) /\ Pos(o) + MAX_LENGTH_CODE_SIZE <= Len(enc'.buffer)
      /\ Agree(o.buffer, enc'.buffer, 0, Pos(o))
  BY <1>5, <1>6, StartKeeps
<1>9. Pos(enc') = s.start
  BY <1>6, <1>7
<1> HIDE DEF s
<1>10. g.start = Pos(o) + MAX_LENGTH_CODE_SIZE /\ g \in Frame /\ Pos(enc') = g.start
  <2>1. s.start \in Int
    BY <1>5, <1>7, PosType, Widths
  <2> QED BY <1>7, <1>9, <2>1 DEF Frame
<1> HIDE DEF g
<1>11. /\ WellFramed(o.buffer, frames, Pos(o))
       /\ Payloads(o.buffer, frames, Pos(o)) = Extended(P, t)
  BY <1>3, <1>4, IInvFrames, AppendedPayload
<1>12. Payloads(enc'.buffer, Append(frames, g), g.start) = Append(Payloads(o.buffer, frames, Pos(o)), <<>>)
  BY <1>8, <1>10, <1>11, OpenPayload
<1>13. Q = Append(Extended(P, t), <<>>)
  BY <1>6, <1>10, <1>11, <1>12
<1>14. OpenSlices = P /\ OpenSlices' = Q /\ ~thrown /\ thrown' = thrown /\ out' = <<>>
  BY OpenSlicesIs, OpenSlicesNext DEF OpenField, Writing
<1> HIDE DEF P, Q, t
<1>15. Log!Begin(t)
  BY <1>13, <1>14 DEF Log!Begin, Log!Extend, Extended
<1> QED BY <1>1, <1>15

(* A commit is a patch of the innermost prefix.                            *)
LEMMA CommitPatches ==
  ASSUME NEW e \in Object, InBuffer(e), NEW fr, WellFramed(e.buffer, fr, Pos(e)), fr # <<>>,
         NEW o, o = PatchLength(e, InnerStart(fr))
  PROVE  /\ Pos(e) - InnerStart(fr) \in Nat /\ Pos(o) = Pos(e)
         /\ Patched(e.buffer, o.buffer, fr, Pos(e), PaddedVarint(Pos(e) - InnerStart(fr), MAX_LENGTH_CODE_SIZE))
<1> DEFINE n == Len(fr)
           start == InnerStart(fr)
           m == start - MAX_LENGTH_CODE_SIZE
           len == Pos(e) - start
           prefix == PaddedVarint(len, MAX_LENGTH_CODE_SIZE)
           b == e.buffer
           d == Poke(b, m, prefix)
<1>1. /\ n \in Nat /\ n >= 1 /\ MAX_LENGTH_CODE_SIZE \in Nat
      /\ b \in Seq(Byte) /\ Len(b) \in Nat /\ Pos(e) \in Nat /\ Pos(e) <= Len(b)
  BY Widths, ObjectType, PosType DEF WellFramed
<1>2. start \in Nat /\ m \in Nat /\ start <= Pos(e)
  <2>1. n \in 1 .. n
    BY <1>1
  <2> QED BY <2>1, StartIn DEF InnerStart
<1>3. o.buffer = d /\ o.ptr = e.ptr /\ o.data = e.data
  BY DEF PatchLength, Object
<1> HIDE DEF start
<1>4. len \in Nat
  BY <1>1, <1>2
<1>5. prefix \in Seq(Byte) /\ Len(prefix) = MAX_LENGTH_CODE_SIZE
  BY <1>4, PaddedVarintType
<1>6. m + MAX_LENGTH_CODE_SIZE = start
  BY <1>1, <1>2
<1> HIDE DEF m, len, prefix, b
<1>7. m + Len(prefix) = start /\ m <= start /\ start <= Len(b)
  BY <1>1, <1>2, <1>5, <1>6
<1>8. /\ d \in Seq(Byte) /\ Len(d) = Len(b)
      /\ \A i \in 1 .. Len(b) : i \notin m + 1 .. m + Len(prefix) => d[i] = b[i]
  BY <1>1, <1>2, <1>5, PokeType
<1>9. \A i \in 1 .. Len(prefix) : d[m + i] = prefix[i]
  BY <1>1, <1>2, <1>5, <1>7, PokeStores
<1> HIDE DEF d
<1>10. Agree(b, d, 0, m) /\ Agree(b, d, start, Pos(e))
  BY <1>1, <1>2, <1>7, <1>8 DEF Agree
<1>11. Stands(d, m, prefix)
  BY <1>9 DEF Stands
<1>12. Pos(o) = Pos(e)
  BY <1>3 DEF Pos
<1>13. Patched(b, d, fr, Pos(e), prefix)
  BY <1>5, <1>8, <1>10, <1>11 DEF Patched, m, start
<1> QED BY <1>3, <1>4, <1>12, <1>13 DEF b, prefix, len, start

(* The length of the innermost payload.                                    *)
LEMMA InnermostLength ==
  ASSUME NEW b, NEW fr, NEW pos, WellFramed(b, fr, pos), fr # <<>>
  PROVE  LET P == Payloads(b, fr, pos)
         IN  Len(P) = Len(fr) + 1 /\ Len(P) > 1 /\ Len(P[Len(P)]) = pos - InnerStart(fr)
<1> DEFINE n == Len(fr)
           P == Payloads(b, fr, pos)
           start == InnerStart(fr)
<1>1. n \in Nat /\ n >= 1 /\ fr \in Seq(Frame) /\ b \in Seq(Byte) /\ pos \in Nat /\ pos <= Len(b)
  BY DEF WellFramed
<1>2. start = fr[n].start
  BY DEF InnerStart
<1>3. start \in Nat /\ start <= pos
  <2>1. n \in 1 .. n
    BY <1>1
  <2> QED BY <1>2, <2>1, StartIn
<1>4. P = [i \in 1 .. n + 1 |-> PayloadIn(b, fr, pos, i)]
  BY DEF Payloads
<1> HIDE DEF P, start
<1>5. Len(P) = n + 1 /\ P[n + 1] = PayloadIn(b, fr, pos, n + 1)
  BY <1>1, <1>4
<1>6. Low(fr, n + 1) = start /\ High(fr, pos, n + 1) = pos
  <2>1. n + 1 # 1 /\ (n + 1) - 1 = n /\ ~(n + 1 <= n)
    BY <1>1
  <2> QED BY <1>2, <2>1 DEF Low, High
<1>7. P[n + 1] = Between(b, start, pos)
  BY <1>5, <1>6 DEF PayloadIn
<1>8. Len(Between(b, start, pos)) = pos - start
  BY <1>1, <1>3, SliceIs DEF Between
<1> QED BY <1>1, <1>5, <1>7, <1>8 DEF P, start

LEMMA FitsPrefix ==
  ASSUME NEW v \in Nat
  PROVE  FitsPadded(v, MAX_LENGTH_CODE_SIZE) <=> v < Base ^ MAX_LENGTH_CODE_SIZE
<1> DEFINE n == MAX_LENGTH_CODE_SIZE
           p == Base ^ (n - 1)
           q == v \div p
           r == v % p
<1>1. n \in 1 .. MAX_VARINT_SIZE /\ n - 1 \in 0 .. MAX_VARINT_SIZE /\ Base \in Nat \ {0} /\ MAX_VARINT_SIZE \in Nat
  BY Widths
<1>2. p \in Nat \ {0} /\ Base ^ n = p * Base
  BY <1>1, Powers, PowerAssumption
<1> HIDE DEF n, p
<1>3. q \in Nat /\ r \in 0 .. p - 1 /\ v = (q * p) + r
  <2>1. v \in Int
    OBVIOUS
  <2> QED BY <1>2, <2>1, Division, Quotient
<1> HIDE DEF q, r
<1>4. q < Base <=> v < p * Base
  <2>1. ASSUME q < Base PROVE v < p * Base
    <3>1. q + 1 <= Base
      BY <1>1, <1>3, <2>1
    <3>2. (q + 1) * p <= Base * p
      BY <1>1, <1>2, <1>3, <3>1
    <3>3. (q + 1) * p = q * p + p /\ Base * p = p * Base
      BY <1>1, <1>2, <1>3
    <3> DEFINE x == q * p
               y == p * Base
    <3>4. x \in Nat /\ y \in Nat
      BY <1>1, <1>2, <1>3
    <3>5. x + p <= y
      BY <3>2, <3>3
    <3>6. v = x + r
      BY <1>3
    <3> HIDE DEF x, y
    <3>7. v < y
      BY <1>2, <1>3, <3>4, <3>5, <3>6
    <3> QED BY <3>7 DEF y
  <2>2. ASSUME ~(q < Base) PROVE ~(v < p * Base)
    <3>1. q * p >= Base * p
      BY <1>1, <1>2, <1>3, <2>2
    <3> DEFINE x == q * p
               y == p * Base
    <3>2. x \in Nat /\ y \in Nat /\ x >= y /\ v = x + r
      BY <1>1, <1>2, <1>3, <3>1
    <3> HIDE DEF x, y
    <3>3. ~(v < y)
      BY <1>2, <1>3, <3>2
    <3> QED BY <3>3 DEF y
  <2> QED BY <2>1, <2>2
<1> QED BY <1>2, <1>4 DEF FitsPadded, n, p, q

(* The reader of the specification is the reader of the code.              *)
LEMMA LogReads ==
  ASSUME NEW b, NEW p, NEW end
  PROVE  Log!ReadVarint(b, p, end) = ReadVarint(b, p, end)
<1>1. Log!U64 = U64 /\ Log!Byte = Byte
  BY DEF Log!U64, U64, Log!ByteValues, ByteValues, Log!Byte, Byte
<1>2. Log!WORD_SHIFTED_OUT = WORD_SHIFTED_OUT
  BY <1>1 DEF Log!WORD_SHIFTED_OUT, WORD_SHIFTED_OUT, Log!Min, Min
<1>3. ASSUME NEW n
      PROVE  Log!Continued(b, p, n) = Continued(b, p, n)
  BY DEF Log!Continued, Continued
<1>4. ASSUME NEW d, NEW n
      PROVE  Log!Assemble(d, Base, n) = Assemble(d, Base, n)
  BY DEF Log!Assemble, Assemble
<1>5. ASSUME NEW n
      PROVE  Log!ValueOf(b, p, n) = ValueOf(b, p, n)
  BY <1>1, <1>4 DEF Log!ValueOf, ValueOf
<1>6. ASSUME NEW x, NEW q PROVE Log!Read(x, q) = Read(x, q) /\ Log!Throw(x, q) = Throw(x, q)
  BY DEF Log!Read, Read, Log!Throw, Throw
<1>7. Log!ReadVarintSlow(b, p, end) = ReadVarintSlow(b, p, end)
  BY <1>2, <1>3, <1>5, <1>6 DEF Log!ReadVarintSlow, ReadVarintSlow
<1>8. Log!ReadVarintFast(b, p) = ReadVarintFast(b, p)
  BY <1>3, <1>5, <1>6 DEF Log!ReadVarintFast, ReadVarintFast
<1> QED BY <1>7, <1>8 DEF Log!ReadVarint, ReadVarint

LEMMA CloseFieldSimulates ==
  ASSUME IInv, CloseField
  PROVE  Log!End
<1> DEFINE P == Payloads(enc.buffer, frames, Pos(enc))
           Q == Payloads(enc'.buffer, frames', Pos(enc'))
           len == Pos(enc) - InnerStart(frames)
           prefix == PaddedVarint(len, MAX_LENGTH_CODE_SIZE)
<1>1. frames # <<>> /\ ~thrown /\ out' = <<>> /\ thrown' = thrown /\ frames' = Front(frames)
  BY DEF CloseField
<1>2. enc \in Object /\ InBuffer(enc) /\ WellFramed(enc.buffer, frames, Pos(enc))
  BY IInvFacts, IInvFrames
<1>3. Last(frames).start = InnerStart(frames)
  BY <1>1, InnermostFrame DEF InnerStart
<1>4. enc' = PatchLength(enc, InnerStart(frames)) /\ FitsPadded(len, MAX_LENGTH_CODE_SIZE)
  BY <1>3 DEF CloseField, OpenLength
<1>5. len \in Nat /\ Pos(enc') = Pos(enc) /\ Patched(enc.buffer, enc'.buffer, frames, Pos(enc), prefix)
  BY <1>1, <1>2, <1>4, CommitPatches
<1>6. /\ Len(P) > 1 /\ Len(P[Len(P)]) = len
  BY <1>1, <1>2, InnermostLength
<1>7. Q = JoinedBehind(P, prefix)
  BY <1>1, <1>2, <1>5, ClosePayload
<1>8. len < Base ^ MAX_LENGTH_CODE_SIZE
  BY <1>4, <1>5, FitsPrefix
<1>9. OpenSlices = P /\ OpenSlices' = Q
  BY <1>1, OpenSlicesIs, OpenSlicesNext
<1> HIDE DEF len
<1>10. ReadVarint(prefix, 0, Len(prefix)) = Read(len, MAX_LENGTH_CODE_SIZE)
  BY <1>5, <1>8, LengthReadsBack
<1>11. prefix \in Seq(Byte) /\ Len(prefix) = MAX_LENGTH_CODE_SIZE
  BY <1>5, PaddedVarintType
<1> HIDE DEF P, Q, prefix
<1>12. prefix \in [1 .. MAX_LENGTH_CODE_SIZE -> Log!Byte]
  <2>1. prefix \in [1 .. MAX_LENGTH_CODE_SIZE -> Byte]
    BY <1>11
  <2>2. Log!Byte = Byte
    BY DEF Log!Byte, Log!ByteValues, Byte, ByteValues
  <2> QED BY <2>1, <2>2
<1>13. Log!ReadsAs(prefix, Len(Log!Innermost))
  <2>1. Len(Log!Innermost) = len
    BY <1>6, <1>9 DEF Log!Innermost, Log!Last
  <2>2. Log!ReadVarint(prefix, 0, Len(prefix)) = Log!Read(len, MAX_LENGTH_CODE_SIZE)
    BY <1>10, LogReads DEF Log!Read, Read
  <2> QED BY <2>1, <2>2 DEF Log!ReadsAs
<1>14. OpenSlices' = LET parent == OpenSlices[Len(OpenSlices) - 1]
                     IN  Append(SubSeq(OpenSlices, 1, Len(OpenSlices) - 2), parent \o prefix \o Log!Innermost)
  BY <1>7, <1>9 DEF JoinedBehind, Log!Innermost, Log!Last
<1> QED BY <1>1, <1>6, <1>9, <1>12, <1>13, <1>14 DEF Log!End

LEMMA PutBytesTooLongSimulates ==
  ASSUME IInv, NEW f \in FieldNums, NEW bytes \in ByteArrays, PutBytesTooLong(f, bytes)
  PROVE  Log!Fail
<1>1. ~thrown /\ thrown' = TRUE /\ out' = <<>> /\ \E s \in ByteArrays : Len(s) > INT32_MAX
  BY DEF PutBytesTooLong, Writing
<1>2. OpenSlices' = <<>>
  BY <1>1, OpenSlicesNext
<1> QED BY <1>1, <1>2 DEF Log!Fail

LEMMA CloseFieldTooLongSimulates ==
  ASSUME IInv, CloseFieldTooLong
  PROVE  Log!Fail
<1> DEFINE P == Payloads(enc.buffer, frames, Pos(enc))
           len == Pos(enc) - InnerStart(frames)
<1>1. frames # <<>> /\ ~thrown /\ thrown' = TRUE /\ out' = <<>>
  BY DEF CloseFieldTooLong
<1>2. enc \in Object /\ InBuffer(enc) /\ WellFramed(enc.buffer, frames, Pos(enc))
  BY IInvFacts, IInvFrames
<1>3. Last(frames).start = InnerStart(frames)
  BY <1>1, InnermostFrame DEF InnerStart
<1>4. enc' = PatchLength(enc, InnerStart(frames)) /\ ~FitsPadded(len, MAX_LENGTH_CODE_SIZE)
  BY <1>3 DEF CloseFieldTooLong, OpenLength
<1>5. len \in Nat
  BY <1>1, <1>2, <1>4, CommitPatches
<1>6. Len(P) > 1 /\ Len(P[Len(P)]) = len
  BY <1>1, <1>2, InnermostLength
<1>7. ~(len < Base ^ MAX_LENGTH_CODE_SIZE)
  BY <1>4, <1>5, FitsPrefix
<1>8. OpenSlices = P /\ OpenSlices' = <<>>
  BY <1>1, OpenSlicesIs, OpenSlicesNext
<1> HIDE DEF P, len
<1>9. Len(OpenSlices) > 1 /\ Len(Log!Innermost) = len
  BY <1>6, <1>8 DEF Log!Innermost, Log!Last
<1>10. len >= Base ^ MAX_LENGTH_CODE_SIZE
  <2>1. Base ^ MAX_LENGTH_CODE_SIZE \in Nat
    BY Powers, Widths
  <2> QED BY <1>5, <1>7, <2>1
<1> QED BY <1>1, <1>8, <1>9, <1>10 DEF Log!Fail

LEMMA NoFrames ==
  ASSUME NEW b \in Seq(Byte), NEW pos \in Nat, pos <= Len(b)
  PROVE  Payloads(b, <<>>, pos) = <<SubSeq(b, 1, pos)>>
<1>1. PayloadIn(b, <<>>, pos, 1) = SubSeq(b, 1, pos)
  BY DEF PayloadIn, Between, Low, High
<1>2. Payloads(b, <<>>, pos) = [i \in 1 .. 1 |-> PayloadIn(b, <<>>, pos, i)]
  BY DEF Payloads
<1> QED BY <1>1, <1>2

LEMMA FreshPayloads ==
  ASSUME NEW a \in Addresses
  PROVE  Payloads(Fresh(a).buffer, <<>>, Pos(Fresh(a))) = << <<>> >>
<1> DEFINE b == Fresh(a).buffer
           pos == Pos(Fresh(a))
<1>1. b = <<>> /\ pos = 0
  BY FreshObject DEF Fresh
<1>2. b \in Seq(Byte) /\ pos \in Nat /\ pos <= Len(b) /\ SubSeq(b, 1, pos) = <<>>
  BY <1>1
<1> HIDE DEF b, pos
<1>3. Payloads(b, <<>>, pos) = <<SubSeq(b, 1, pos)>>
  BY <1>2, NoFrames
<1> QED BY <1>2, <1>3 DEF b, pos

LEMMA ResultSimulates ==
  ASSUME IInv, Result
  PROVE  Log!Finish \/ Log!Recover
<1>1. frames = <<>> /\ frames' = <<>> /\ thrown' = FALSE /\ out' = SubSeq(enc.buffer, 1, Pos(enc))
  BY DEF Result
<1>2. OpenSlices' = << <<>> >>
  BY <1>1, OpenSlicesNext, FreshPayloads DEF Result
<1>3. enc.buffer \in Seq(Byte) /\ Pos(enc) \in Nat /\ Pos(enc) <= Len(enc.buffer) /\ thrown \in BOOLEAN
  BY IInvFacts DEF IInv, TypeOK
<1>4. CASE thrown
  <2>1. out' \in Seq(Byte)
    BY <1>1, <1>3
  <2>2. out' \in Seq(Log!Byte)
    BY <2>1 DEF Log!Byte, Log!ByteValues, Byte, ByteValues
  <2> QED BY <1>1, <1>2, <1>4, <2>2 DEF Log!Recover
<1>5. CASE ~thrown
  <2>1. OpenSlices = <<out'>>
    BY <1>1, <1>3, <1>5, OpenSlicesIs, NoFrames
  <2>2. Len(OpenSlices) = 1 /\ Log!Innermost = out'
    BY <2>1 DEF Log!Innermost, Log!Last
  <2> QED BY <1>1, <1>2, <1>3, <1>5, <2>2 DEF Log!Finish
<1> QED BY <1>4, <1>5

(* A new Encoder stands for a log with the root payload alone.             *)
THEOREM InitSimulates == Init => Log!Init
<1> SUFFICES ASSUME Init PROVE Log!Init
  OBVIOUS
<1>1. OpenSlices = << <<>> >>
  BY OpenSlicesIs, FreshPayloads DEF Init
<1> QED BY <1>1 DEF Init, Log!Init

(* Every call does to the payloads in the buffer what the call of the log  *)
(* does to its stack.                                                      *)
THEOREM StepSimulates == IInv /\ [Next]_vars => [Log!Next]_(Log!logVars)
<1> SUFFICES ASSUME IInv, [Next]_vars PROVE [Log!Next]_(Log!logVars)
  OBVIOUS
<1>1. ASSUME NEW f \in FieldNums, NEW s \in Scalars, PutScalar(f, s) PROVE Log!Next
  BY <1>1, PutScalarSimulates DEF Log!Next
<1>2. ASSUME NEW s \in Scalars, WriteElement(s) PROVE Log!Next
  BY <1>2, WriteElementSimulates DEF Log!Next
<1>3. ASSUME NEW f \in FieldNums, NEW bytes \in ByteArrays, PutBytes(f, bytes) PROVE Log!Next
  BY <1>3, PutBytesSimulates DEF Log!Next
<1>4. ASSUME NEW f \in FieldNums, NEW bytes \in ByteArrays, PutBytesTooLong(f, bytes) PROVE Log!Next
  BY <1>4, PutBytesTooLongSimulates DEF Log!Next
<1>5. ASSUME NEW f \in FieldNums, NEW kind \in {"message", "packed"}, OpenField(f, kind)
      PROVE  Log!Next
  BY <1>5, OpenFieldSimulates DEF Log!Next
<1>6. CASE CloseField
  BY <1>6, CloseFieldSimulates DEF Log!Next
<1>7. CASE CloseFieldTooLong
  BY <1>7, CloseFieldTooLongSimulates DEF Log!Next
<1>8. CASE Result
  BY <1>8, ResultSimulates DEF Log!Next
<1>9. CASE UNCHANGED vars
  <2>1. OpenSlices' = OpenSlices
    BY <1>9, OpenSlicesIs, OpenSlicesNext DEF vars
  <2> QED BY <1>9, <2>1 DEF vars, Log!logVars
<1> QED BY <1>1, <1>2, <1>3, <1>4, <1>5, <1>6, <1>7, <1>8, <1>9 DEF Next

(* The encoder implements the payload stack: whatever the buffer is moved  *)
(* to and wherever prefixes are patched, each call does to the bytes of    *)
(* the open sub-messages exactly what the abstract one does.               *)
THEOREM EncoderImplementsWireLog == Spec => ImplementsWireLog
BY Invariance, InitSimulates, StepSimulates, PTL DEF Spec, ImplementsWireLog, Log!Spec
=============================================================================
