-------------------------- MODULE TypeEvolutionProof --------------------------
(***************************************************************************)
(* Proofs that no change among the integral and zigzag types makes a       *)
(* decoder throw, and that the changes the module calls safe keep the      *)
(* value, for every width and through any number of versions.              *)
(***************************************************************************)
EXTENDS TypeEvolution, WireProof

-----------------------------------------------------------------------------
(* Conversions between the integer types.                                  *)

(* A word and its signed reading: what a signed type can hold comes back,  *)
(* whatever multiple of the word was lost on the way.                      *)
Congruent(y, x, m) == \E k \in Int : y = x + k * m
SignedOf(y, h, m) == ((y + h) % m) - h

LEMMA SignedReading ==
  ASSUME NEW m \in Nat \ {0}, NEW h \in Nat, m = 2 * h, NEW x \in -h .. h - 1,
         NEW y \in Int, Congruent(y, x, m)
  PROVE  SignedOf(y, h, m) = x
<1>1. PICK k \in Int : y = x + k * m
  BY DEF Congruent
<1> DEFINE r == x + h
           z == y + h
<1>2. r \in 0 .. m - 1
  OBVIOUS
<1>3. z \in Int /\ z = k * m + r
  <2> DEFINE p == k * m
  <2>1. p \in Int /\ y = x + p
    BY <1>1
  <2> HIDE DEF p
  <2>2. z \in Int /\ z = p + r
    BY <2>1
  <2> QED BY <2>2 DEF p
<1> HIDE DEF r, z
<1>4. z % m = r
  BY <1>2, <1>3, DivisionIs
<1>5. SignedOf(y, h, m) = r - h
  BY <1>4 DEF SignedOf, z
<1> QED BY <1>5 DEF r

LEMMA SmallRemainder ==
  ASSUME NEW m \in Nat \ {0}, NEW x \in 0 .. m - 1
  PROVE  x % m = x
OBVIOUS

LEMMA RemainderCongruent ==
  ASSUME NEW x \in Int, NEW m \in Nat \ {0}
  PROVE  x % m \in Int /\ Congruent(x % m, x, m) /\ Congruent(x, x, m)
<1>1. x \div m \in Int /\ x % m \in Int /\ x = (x \div m) * m + (x % m)
  BY Division
<1> DEFINE q == x \div m
           r == x % m
<1> HIDE DEF q, r
<1>2. q \in Int /\ r \in Int /\ x = q * m + r
  BY <1>1 DEF q, r
<1>3. -q \in Int /\ r = x + (-q) * m
  BY <1>2
<1>4. 0 \in Int /\ x = x + 0 * m
  OBVIOUS
<1> QED BY <1>2, <1>3, <1>4 DEF r, Congruent

(* Congruence modulo a word is congruence modulo half of it.               *)
LEMMA CongruentOf ==
  ASSUME NEW x \in Int, NEW y \in Int, NEW n \in Nat, NEW q \in Nat, NEW m, m = q * n, Congruent(y, x, m)
  PROVE  Congruent(y, x, n)
<1>1. PICK k \in Int : y = x + k * m
  BY DEF Congruent
<1>2. k * q \in Int /\ y = x + (k * q) * n
  BY <1>1
<1> QED BY <1>2 DEF Congruent

LEMMA Words ==
  /\ U32 \in Nat \ {0} /\ U32 = 2 * (U32 \div 2) /\ U32 \div 2 \in Nat \ {0}
  /\ U64 \in Nat \ {0} /\ U64 = 2 * (U64 \div 2) /\ U64 \div 2 \in Nat \ {0}
  /\ U32 <= U64 /\ U32 \div 2 <= U64 \div 2 /\ INT32_MAX = (U32 \div 2) - 1
<1>1. U32 \in Nat \ {0} /\ U64 \in Nat \ {0} /\ U32 <= U64
  BY Powers, WordsOrdered
<1>2. U32 \div 2 \in Nat /\ U32 = 2 * (U32 \div 2) /\ U64 \div 2 \in Nat /\ U64 = 2 * (U64 \div 2)
  BY HalfWords
<1> DEFINE h == U32 \div 2
           g == U64 \div 2
<1> HIDE DEF h, g
<1>3. h \in Nat \ {0} /\ g \in Nat \ {0} /\ h <= g
  BY <1>1, <1>2 DEF h, g
<1> QED BY <1>1, <1>2, <1>3 DEF h, g, INT32_MAX

(* The value a field's word stands for, by the type that reads it.         *)
LEMMA FromWord64 ==
  ASSUME NEW x \in Int
  PROVE  /\ ToU64(x) \in 0 .. U64 - 1
         /\ x \in 0 .. U64 - 1 => ToU64(ToU64(x)) = x /\ ToU64(x) = x
         /\ x \in -(U64 \div 2) .. (U64 \div 2) - 1 => ToI64(ToU64(x)) = x /\ ToI64(x) = x
         /\ x \in -(U32 \div 2) .. INT32_MAX => ToI32(ToU64(x)) = x /\ ToI32(x) = x
         /\ x \in 0 .. U32 - 1 => ToU32(ToU64(x)) = x
<1>1. /\ U32 \in Nat \ {0} /\ U32 = 2 * (U32 \div 2) /\ U32 \div 2 \in Nat
      /\ U64 \in Nat \ {0} /\ U64 = 2 * (U64 \div 2) /\ U64 \div 2 \in Nat
      /\ U32 <= U64 /\ INT32_MAX = (U32 \div 2) - 1
  BY Words
<1>2. ToU64(x) \in 0 .. U64 - 1
  BY <1>1, Remainder DEF ToU64
<1>3. x \in 0 .. U64 - 1 => ToU64(ToU64(x)) = x /\ ToU64(x) = x
  BY <1>1, SmallRemainder DEF ToU64
<1>4. ToU64(x) \in Int /\ Congruent(ToU64(x), x, U64) /\ Congruent(x, x, U64) /\ Congruent(x, x, U32)
  BY <1>1, RemainderCongruent DEF ToU64
<1>5. ASSUME x \in -(U64 \div 2) .. (U64 \div 2) - 1
      PROVE  ToI64(ToU64(x)) = x /\ ToI64(x) = x
  <2> DEFINE h == U64 \div 2
  <2>1. \A y : ToI64(y) = SignedOf(y, h, U64)
    BY DEF ToI64, SignedOf
  <2>2. h \in Nat /\ U64 = 2 * h /\ x \in -h .. h - 1
    BY <1>1, <1>5
  <2> HIDE DEF h
  <2>3. SignedOf(ToU64(x), h, U64) = x /\ SignedOf(x, h, U64) = x
    BY <1>1, <1>4, <2>2, SignedReading
  <2> QED BY <2>1, <2>3
<1>6. ASSUME x \in -(U32 \div 2) .. INT32_MAX
      PROVE  ToI32(ToU64(x)) = x /\ ToI32(x) = x
  <2> DEFINE h == U32 \div 2
  <2>1. PICK q \in Nat \ {0} : U64 = q * U32
    BY WordsDivide
  <2>2. Congruent(ToU64(x), x, U32)
    BY <1>1, <1>4, <2>1, CongruentOf
  <2>3. \A y : ToI32(y) = SignedOf(y, h, U32)
    BY DEF ToI32, SignedOf
  <2>4. h \in Nat /\ U32 = 2 * h /\ x \in -h .. h - 1
    BY <1>1, <1>6
  <2> HIDE DEF h
  <2>5. SignedOf(ToU64(x), h, U32) = x /\ SignedOf(x, h, U32) = x
    BY <1>1, <1>4, <2>2, <2>4, SignedReading
  <2> QED BY <2>3, <2>5
<1>7. x \in 0 .. U32 - 1 => ToU32(ToU64(x)) = x
  <2>1. ASSUME x \in 0 .. U32 - 1 PROVE ToU32(ToU64(x)) = x
    <3>1. x \in 0 .. U64 - 1
      BY <1>1, <2>1
    <3>2. ToU64(x) = x
      BY <1>3, <3>1
    <3> QED BY <1>1, <2>1, <3>2, SmallRemainder DEF ToU32
  <2> QED BY <2>1
<1> QED BY <1>2, <1>3, <1>5, <1>6, <1>7

LEMMA FromWord32 ==
  ASSUME NEW x \in Int
  PROVE  /\ ToU32(x) \in 0 .. U32 - 1
         /\ x \in 0 .. U32 - 1 => ToU32(x) = x
         /\ x \in -(U32 \div 2) .. INT32_MAX => ToI32(ToU32(x)) = x
<1>1. U32 \in Nat \ {0} /\ U32 = 2 * (U32 \div 2) /\ U32 \div 2 \in Nat /\ INT32_MAX = (U32 \div 2) - 1
  BY Words
<1>2. ToU32(x) \in 0 .. U32 - 1
  BY <1>1, Remainder DEF ToU32
<1>3. x \in 0 .. U32 - 1 => ToU32(x) = x
  BY <1>1, SmallRemainder DEF ToU32
<1>4. ASSUME x \in -(U32 \div 2) .. INT32_MAX
      PROVE  ToI32(ToU32(x)) = x
  <2> DEFINE h == U32 \div 2
  <2>1. ToU32(x) \in Int /\ Congruent(ToU32(x), x, U32)
    BY <1>1, RemainderCongruent DEF ToU32
  <2>2. ToI32(ToU32(x)) = SignedOf(ToU32(x), h, U32)
    BY DEF ToI32, SignedOf
  <2>3. h \in Nat /\ U32 = 2 * h /\ x \in -h .. h - 1
    BY <1>1, <1>4
  <2> HIDE DEF h
  <2>4. SignedOf(ToU32(x), h, U32) = x
    BY <1>1, <2>1, <2>3, SignedReading
  <2> QED BY <2>2, <2>4
<1> QED BY <1>2, <1>3, <1>4

(* The signed word has room for every value of a zigzag type.              *)
LEMMA ZigZagFits ==
  ASSUME NEW x \in -(U64 \div 2) .. (U64 \div 2) - 1
  PROVE  ZigZag(x) \in 0 .. U64 - 1
<1> DEFINE h == U64 \div 2
<1>1. h \in Nat /\ U64 = 2 * h
  BY Words
<1>2. x \in -h .. h - 1
  OBVIOUS
<1> HIDE DEF h
<1>3. ZigZag(x) = IF x >= 0 THEN 2 * x ELSE -(2 * x) - 1
  BY DEF ZigZag
<1> QED BY <1>1, <1>2, <1>3

-----------------------------------------------------------------------------
(* What a reader of one type makes of a field that a writer of another     *)
(* type wrote.                                                             *)
AllTypes == {"int32", "int64", "uint32", "uint64", "bool", "enum", "sint32", "sint64",
             "fixed32", "sfixed32", "fixed64", "sfixed64"}

LEMMA TypesAre == Types = AllTypes
BY DEF Types, AllTypes, IntegralTypes, VarintTypes, ZigZagTypes, Fixed32Types, Fixed64Types

LEMMA ValuesAre ==
  ASSUME NEW t \in Types, NEW x \in ValuesOf(t)
  PROVE  /\ x \in Int
         /\ t \in Signed32 => x \in -(U32 \div 2) .. INT32_MAX
         /\ t \in Signed64 => x \in -(U64 \div 2) .. (U64 \div 2) - 1
         /\ t \in Unsigned32 => x \in 0 .. U32 - 1
         /\ t \in Unsigned64 => x \in 0 .. U64 - 1
         /\ t = "bool" => x \in {0, 1}
         /\ t \in ZigZagTypes => x \in -(U64 \div 2) .. (U64 \div 2) - 1
<1> DEFINE h == U32 \div 2
           g == U64 \div 2
<1>1. t \in AllTypes
  BY TypesAre
<1>2. h \in Nat /\ g \in Nat /\ h <= g /\ INT32_MAX = h - 1
  BY Words
<1>3. /\ t \in Signed32 => x \in -h .. INT32_MAX
      /\ t \in Signed64 => x \in -g .. g - 1
      /\ t \in Unsigned32 => x \in 0 .. U32 - 1
      /\ t \in Unsigned64 => x \in 0 .. U64 - 1
      /\ t = "bool" => x \in {0, 1}
  BY DEF ValuesOf, Signed32, Signed64, Unsigned32, Unsigned64
<1> HIDE DEF h, g
<1>4. t \in Signed32 \/ t \in Signed64 \/ t \in Unsigned32 \/ t \in Unsigned64 \/ t = "bool"
  BY <1>1 DEF AllTypes, Signed32, Signed64, Unsigned32, Unsigned64
<1>5. t \in ZigZagTypes => t \in Signed32 \/ t \in Signed64
  BY DEF ZigZagTypes, Signed32, Signed64
<1>6. U32 \in Nat /\ U64 \in Nat
  BY Words
<1>7. x \in Int
  BY <1>2, <1>3, <1>4, <1>6
<1>8. t \in ZigZagTypes => x \in -g .. g - 1
  BY <1>2, <1>3, <1>5
<1> QED BY <1>3, <1>7, <1>8 DEF h, g

(* The number on the wire.                                                 *)
Word(t, x) ==
  IF t \in ZigZagTypes THEN ZigZag(x) ELSE IF t \in Fixed32Types THEN ToU32(x) ELSE ToU64(x)

(* A field reads back as the number it was written as.                     *)
LEMMA PutReads ==
  ASSUME NEW t \in Types, NEW x \in ValuesOf(t)
  PROVE  LET f == Put(t, x)
             n == Len(f.bytes)
         IN  /\ n \in Nat /\ Word(t, x) \in Nat
             /\ f.bytes \in Seq(Byte)
             /\ \/ /\ t \in VarintTypes \cup ZigZagTypes /\ f.wire = Varint
                   /\ ReadVarint(f.bytes, 0, n) = Read(Word(t, x), n)
                \/ /\ t \in Fixed32Types /\ f.wire = Fixed32
                   /\ ReadFixed(f.bytes, 0, n, SIZE32) = Read(Word(t, x), n)
                \/ /\ t \in Fixed64Types /\ f.wire = Fixed64
                   /\ ReadFixed(f.bytes, 0, n, SIZE64) = Read(Word(t, x), n)
<1> DEFINE f == Put(t, x)
           w == Word(t, x)
<1>1. x \in Int /\ (t \in ZigZagTypes => x \in -(U64 \div 2) .. (U64 \div 2) - 1) /\ t \in AllTypes
  BY ValuesAre, TypesAre
<1>2. ToU32(x) \in 0 .. U32 - 1 /\ ToU64(x) \in 0 .. U64 - 1
  BY <1>1, FromWord32, FromWord64
<1>3. U32 \in Nat /\ U64 \in Nat
  BY Words
<1>4. CASE t \in VarintTypes \cup ZigZagTypes
  <2> DEFINE b == VarintBytes(w)
  <2>1. f.wire = Varint /\ f.bytes = b
    <3>1. WireTypeFor(t) = Varint
      BY <1>4 DEF WireTypeFor, VarintTypes, ZigZagTypes, Fixed32Types, Fixed64Types, ByteArrayTypes
    <3>2. WriterBytes(t, x) = IF t \in VarintTypes THEN VarintBytes(ToU64(x)) ELSE VarintBytes(ZigZag(x))
      BY <1>4 DEF WriterBytes, VarintTypes, ZigZagTypes, Fixed32Types, Fixed64Types
    <3>3. w = IF t \in VarintTypes THEN ToU64(x) ELSE ZigZag(x)
      BY <1>4 DEF Word, VarintTypes, ZigZagTypes, Fixed32Types, Fixed64Types
    <3>4. f.wire = WireTypeFor(t) /\ f.bytes = WriterBytes(t, x)
      BY DEF Put
    <3> HIDE DEF f, w
    <3> QED BY <3>1, <3>2, <3>3, <3>4
  <2>2. w \in 0 .. U64 - 1
    <3>1. CASE t \in ZigZagTypes
      BY <1>1, <3>1, ZigZagFits DEF Word
    <3>2. CASE t \notin ZigZagTypes
      <4>1. w = ToU64(x)
        BY <1>4, <3>2 DEF Word, VarintTypes, Fixed32Types
      <4> QED BY <1>2, <4>1
    <3> QED BY <3>1, <3>2
  <2> HIDE DEF w, f
  <2>3. b \in Seq(Byte) /\ Len(b) \in Nat
    BY <1>3, <2>2, VarintBytesType
  <2>4. Slice(b, 0, Len(b)) /\ 0 + Len(b) = Len(b) /\ Len(b) <= Len(b)
    BY <2>3 DEF Slice
  <2>5. \A i \in 1 .. Len(b) : b[0 + i] = b[i]
    OBVIOUS
  <2>6. ReadVarint(b, 0, Len(b)) = Read(w, 0 + Len(b))
    BY <2>2, <2>4, <2>5, WordReadsBack
  <2> HIDE DEF b
  <2> QED BY <1>3, <1>4, <2>1, <2>2, <2>3, <2>4, <2>6 DEF w, f
<1>5. ASSUME NEW n \in {SIZE32, SIZE64}, f.bytes = FixedBytes(w, n), w \in 0 .. ByteValues ^ n - 1
      PROVE  /\ f.bytes \in Seq(Byte) /\ Len(f.bytes) \in Nat
             /\ ReadFixed(f.bytes, 0, Len(f.bytes), n) = Read(w, Len(f.bytes))
  <2> DEFINE b == FixedBytes(w, n)
  <2>1. n \in Nat /\ n <= SIZE64 /\ ByteValues ^ n \in Nat /\ w \in Nat
    BY <1>5, Widths, Powers
  <2> HIDE DEF w, f
  <2>2. b \in Seq(Byte) /\ Len(b) = n
    BY <2>1, FixedBytesType
  <2>3. Slice(b, 0, n) /\ 0 + n = n /\ n <= n
    BY <2>1, <2>2 DEF Slice
  <2>4. \A i \in 1 .. n : b[0 + i] = FixedBytes(w, n)[i]
    OBVIOUS
  <2> HIDE DEF b
  <2>5. ReadFixed(b, 0, n, n) = Read(w, 0 + n)
    BY <1>5, <2>3, <2>4, FixedReadsBack
  <2> QED BY <1>5, <2>1, <2>2, <2>3, <2>5 DEF b
<1>6. CASE t \in Fixed32Types
  <2>1. f.wire = Fixed32 /\ w = ToU32(x) /\ f.bytes = FixedBytes(w, SIZE32)
    <3>1. WireTypeFor(t) = Fixed32
      BY <1>6 DEF WireTypeFor, VarintTypes, ZigZagTypes, Fixed32Types, Fixed64Types, ByteArrayTypes
    <3>2. WriterBytes(t, x) = FixedBytes(ToU32(x), SIZE32)
      BY <1>6 DEF WriterBytes, VarintTypes, ZigZagTypes, Fixed32Types, Fixed64Types
    <3>3. w = ToU32(x)
      BY <1>6 DEF Word, VarintTypes, ZigZagTypes, Fixed32Types, Fixed64Types
    <3>4. f.wire = WireTypeFor(t) /\ f.bytes = WriterBytes(t, x)
      BY DEF Put
    <3> HIDE DEF f, w
    <3> QED BY <3>1, <3>2, <3>3, <3>4
  <2>2. w \in 0 .. ByteValues ^ SIZE32 - 1
    BY <1>2, <2>1 DEF U32
  <2> HIDE DEF f, w
  <2>3. w \in Nat
    BY <1>2, <2>1
  <2> QED BY <1>5, <1>6, <2>1, <2>2, <2>3 DEF f, w
<1>7. CASE t \in Fixed64Types
  <2>1. f.wire = Fixed64 /\ w = ToU64(x) /\ f.bytes = FixedBytes(w, SIZE64)
    <3>1. WireTypeFor(t) = Fixed64
      BY <1>7 DEF WireTypeFor, VarintTypes, ZigZagTypes, Fixed32Types, Fixed64Types, ByteArrayTypes
    <3>2. WriterBytes(t, x) = FixedBytes(ToU64(x), SIZE64)
      BY <1>7 DEF WriterBytes, VarintTypes, ZigZagTypes, Fixed32Types, Fixed64Types
    <3>3. w = ToU64(x)
      BY <1>7 DEF Word, VarintTypes, ZigZagTypes, Fixed32Types, Fixed64Types
    <3>4. f.wire = WireTypeFor(t) /\ f.bytes = WriterBytes(t, x)
      BY DEF Put
    <3> HIDE DEF f, w
    <3> QED BY <3>1, <3>2, <3>3, <3>4
  <2>2. w \in 0 .. ByteValues ^ SIZE64 - 1
    BY <1>2, <2>1 DEF U64
  <2> HIDE DEF f, w
  <2>3. w \in Nat
    BY <1>2, <2>1
  <2> QED BY <1>5, <1>7, <2>1, <2>2, <2>3 DEF f, w
<1> QED BY <1>1, <1>4, <1>6, <1>7 DEF AllTypes, VarintTypes, ZigZagTypes, Fixed32Types, Fixed64Types

(* The number as the reader of the new type takes it, before the           *)
(* conversion to that type.                                                *)
Taken(new, old, x) ==
  IF new \notin ZigZagTypes THEN Word(old, x)
  ELSE IF old \in Fixed32Types THEN ToI32(Word(old, x))
  ELSE IF old \in Fixed64Types THEN ToI64(Word(old, x))
  ELSE UnZigZag(Word(old, x))

LEMMA MapRead ==
  ASSUME NEW v, NEW q
  PROVE  /\ Map(Read(v, q), UnZigZag) = Read(UnZigZag(v), q)
         /\ Map(Read(v, q), ToI32) = Read(ToI32(v), q)
         /\ Map(Read(v, q), ToI64) = Read(ToI64(v), q)
         /\ \A type : Map(Read(v, q), LAMBDA y : Cast(type, y)) = Read(Cast(type, v), q)
BY DEF Map, Read

(* Every reader accepts every field, and takes the number in it.           *)
LEMMA GetIs ==
  ASSUME NEW old \in Types, NEW x \in ValuesOf(old), NEW new \in Types
  PROVE  LET f == Put(old, x)
         IN  ParseScalar(new, f.wire, f.bytes, 0, Len(f.bytes))
               = Read(Cast(new, Taken(new, old, x)), Len(f.bytes))
<1> DEFINE f == Put(old, x)
           w == Word(old, x)
           n == Len(f.bytes)
           v == Taken(new, old, x)
           S == Read(v, n)
<1>1. \/ /\ old \in VarintTypes \cup ZigZagTypes /\ f.wire = Varint
         /\ ReadVarint(f.bytes, 0, n) = Read(w, n)
      \/ /\ old \in Fixed32Types /\ f.wire = Fixed32
         /\ ReadFixed(f.bytes, 0, n, SIZE32) = Read(w, n)
      \/ /\ old \in Fixed64Types /\ f.wire = Fixed64
         /\ ReadFixed(f.bytes, 0, n, SIZE64) = Read(w, n)
  BY PutReads
<1>2. old \in VarintTypes \cup ZigZagTypes => old \notin Fixed32Types /\ old \notin Fixed64Types
  BY DEF VarintTypes, ZigZagTypes, Fixed32Types, Fixed64Types
<1>3. old \in Fixed64Types => old \notin Fixed32Types
  BY DEF Fixed32Types, Fixed64Types
<1>4. new \in IntegralTypes \/ (new \in ZigZagTypes /\ new \notin IntegralTypes)
  BY DEF Types, IntegralTypes, VarintTypes, ZigZagTypes, Fixed32Types, Fixed64Types
<1>5. Fixed32 # Varint /\ Fixed64 # Varint /\ Fixed32 # Fixed64
  BY DEF Fixed32, Fixed64, Varint
<1> HIDE DEF f, w, n
<1>6. CASE new \in IntegralTypes
  <2>1. new \notin ZigZagTypes
    BY <1>6 DEF IntegralTypes, VarintTypes, ZigZagTypes, Fixed32Types, Fixed64Types
  <2>2. v = w
    BY <2>1 DEF Taken, w
  <2>3. ParseInteger(f.wire, f.bytes, 0, n) = Read(v, n)
    BY <1>1, <1>5, <2>2 DEF ParseInteger
  <2>4. ParseScalar(new, f.wire, f.bytes, 0, n)
          = Map(ParseInteger(f.wire, f.bytes, 0, n), LAMBDA y : Cast(new, y))
    BY <1>6, <2>1 DEF ParseScalar, IntegralTypes, VarintTypes, ZigZagTypes, Fixed32Types, Fixed64Types, FPTypes
  <2> HIDE DEF v
  <2> QED BY <2>3, <2>4, MapRead DEF f, n, v
<1>7. CASE new \in ZigZagTypes /\ new \notin IntegralTypes
  <2>1. ParseZigZag(f.wire, f.bytes, 0, n) = Read(v, n)
    BY <1>1, <1>2, <1>3, <1>5, <1>7, MapRead DEF ParseZigZag, Taken, w
  <2>2. ParseScalar(new, f.wire, f.bytes, 0, n)
          = Map(ParseZigZag(f.wire, f.bytes, 0, n), LAMBDA y : Cast(new, y))
    BY <1>7 DEF ParseScalar, IntegralTypes, VarintTypes, ZigZagTypes, Fixed32Types, Fixed64Types, FPTypes
  <2> HIDE DEF v
  <2> QED BY <2>1, <2>2, MapRead DEF f, n, v
<1> QED BY <1>4, <1>6, <1>7

-----------------------------------------------------------------------------
(* Changes of type that keep the value.                                    *)

LEMMA CastIs ==
  ASSUME NEW t \in Types, NEW y
  PROVE  Cast(t, y) = IF t \in Signed32 THEN ToI32(y) ELSE IF t \in Signed64 THEN ToI64(y)
                      ELSE IF t \in Unsigned32 THEN ToU32(y) ELSE IF t \in Unsigned64 THEN ToU64(y)
                      ELSE IF y = 0 THEN 0 ELSE 1
<1>1. t \in AllTypes
  BY TypesAre
<1> QED BY <1>1 DEF Cast, AllTypes, Signed32, Signed64, Unsigned32, Unsigned64

LEMMA KindsOf ==
  ASSUME NEW t \in Types
  PROVE  t \in Signed32 \/ t \in Signed64 \/ t \in Unsigned32 \/ t \in Unsigned64 \/ t = "bool"
BY TypesAre DEF AllTypes, Signed32, Signed64, Unsigned32, Unsigned64

(* A value of a type is unchanged by the conversion to it, and so is what  *)
(* is left of it in a 64-bit word.                                         *)
LEMMA CastKeeps ==
  ASSUME NEW t \in Types, NEW x \in ValuesOf(t)
  PROVE  Cast(t, x) = x /\ Cast(t, ToU64(x)) = x
<1>1. /\ x \in Int
      /\ t \in Signed32 => x \in -(U32 \div 2) .. INT32_MAX
      /\ t \in Signed64 => x \in -(U64 \div 2) .. (U64 \div 2) - 1
      /\ t \in Unsigned32 => x \in 0 .. U32 - 1
      /\ t \in Unsigned64 => x \in 0 .. U64 - 1
      /\ t = "bool" => x \in {0, 1}
  BY ValuesAre
<1>2. /\ x \in 0 .. U64 - 1 => ToU64(ToU64(x)) = x /\ ToU64(x) = x
      /\ x \in -(U64 \div 2) .. (U64 \div 2) - 1 => ToI64(ToU64(x)) = x /\ ToI64(x) = x
      /\ x \in -(U32 \div 2) .. INT32_MAX => ToI32(ToU64(x)) = x /\ ToI32(x) = x
      /\ x \in 0 .. U32 - 1 => ToU32(ToU64(x)) = x /\ ToU32(x) = x
  BY <1>1, FromWord64, FromWord32
<1>3. CASE t \in Signed32
  BY <1>1, <1>2, <1>3, CastIs
<1>4. CASE t \in Signed64
  BY <1>1, <1>2, <1>4, CastIs DEF Signed32, Signed64
<1>5. CASE t \in Unsigned32
  BY <1>1, <1>2, <1>5, CastIs DEF Signed32, Signed64, Unsigned32
<1>6. CASE t \in Unsigned64
  BY <1>1, <1>2, <1>6, CastIs DEF Signed32, Signed64, Unsigned32, Unsigned64
<1>7. CASE t = "bool"
  <2>1. 2 <= U64
    BY Words
  <2>2. x \in 0 .. U64 - 1
    BY <1>1, <1>7, <2>1, Words
  <2>3. \A y : Cast(t, y) = IF y = 0 THEN 0 ELSE 1
    BY <1>7, CastIs DEF Signed32, Signed64, Unsigned32, Unsigned64
  <2> QED BY <1>1, <1>2, <1>7, <2>2, <2>3
<1> QED BY <1>3, <1>4, <1>5, <1>6, <1>7, KindsOf

(* A FIXED32 field, read against its sign or not.                          *)
LEMMA Fixed32Keeps ==
  ASSUME NEW old \in Fixed32Types, NEW new \in IntegralTypes, old \in Types, new \in Types,
         stored \in ValuesOf(old), stored \in ValuesOf(new), ~Missigned(old, new)
  PROVE  Cast(new, ToU32(stored)) = stored
<1>1. /\ stored \in Int
      /\ old = "fixed32" => stored \in 0 .. U32 - 1
      /\ old = "sfixed32" => stored \in -(U32 \div 2) .. INT32_MAX
  BY ValuesAre DEF Signed32, Unsigned32
<1>2. /\ new \in Signed32 => stored \in -(U32 \div 2) .. INT32_MAX
      /\ new \in Unsigned32 => stored \in 0 .. U32 - 1
      /\ new \in Unsigned64 => stored \in 0 .. U64 - 1
      /\ new = "bool" => stored \in {0, 1}
  BY ValuesAre
<1>3. /\ stored \in 0 .. U32 - 1 => ToU32(stored) = stored
      /\ stored \in -(U32 \div 2) .. INT32_MAX => ToI32(ToU32(stored)) = stored
  BY <1>1, FromWord32
<1>4. U32 \in Nat /\ U64 \in Nat /\ INT32_MAX <= U32 - 1 /\ INT32_MAX \in Int
  <2>1. U32 = 2 * (U32 \div 2) /\ U32 \div 2 \in Nat \ {0} /\ INT32_MAX = (U32 \div 2) - 1
    BY Words
  <2> DEFINE h == U32 \div 2
  <2>2. U32 = 2 * h /\ h \in Nat \ {0} /\ INT32_MAX = h - 1
    BY <2>1
  <2> HIDE DEF h
  <2>3. INT32_MAX <= U32 - 1 /\ INT32_MAX \in Int
    BY <2>2
  <2> QED BY <2>3, Words
<1>5. CASE new \in Signed32
  BY <1>2, <1>3, <1>5, CastIs
<1>6. CASE new \notin Signed32
  <2>1. old = "fixed32" \/ old = "sfixed32"
    BY DEF Fixed32Types
  <2>2. new \in Signed64 => new \in Signed64 \ ZigZagTypes
    BY DEF IntegralTypes, VarintTypes, Fixed32Types, Fixed64Types, ZigZagTypes
  <2>3. old = "sfixed32" => stored >= 0
    <3>1. CASE new \in Signed64
      BY <1>1, <2>2, <3>1 DEF Missigned
    <3>2. CASE new \in Unsigned32 \/ new \in Unsigned64 \/ new = "bool"
      BY <1>2, <1>4, <3>2
    <3> QED BY <1>6, <3>1, <3>2, KindsOf
  <2>4. stored \in 0 .. U32 - 1
    <3>1. CASE old = "fixed32"
      BY <1>1, <3>1
    <3>2. CASE old = "sfixed32"
      BY <1>1, <1>4, <2>3, <3>2
    <3> QED BY <2>1, <3>1, <3>2
  <2> QED BY <1>3, <2>4, CastKeeps
<1> QED BY <1>5, <1>6

LEMMA TakenKeeps ==
  ASSUME NEW old \in Types, NEW new \in Types, stored \in ValuesOf(old), Keeps(old, new)
  PROVE  Cast(new, Taken(new, old, stored)) = stored
<1>1. stored \in ValuesOf(new) /\ ~Missigned(old, new)
  BY DEF Keeps
<1>2. stored \in Int
  BY ValuesAre
<1>3. CASE {old, new} \subseteq IntegralTypes
  <2>1. new \notin ZigZagTypes /\ old \notin ZigZagTypes
    BY <1>3 DEF IntegralTypes, VarintTypes, Fixed32Types, Fixed64Types, ZigZagTypes
  <2>2. CASE old \in Fixed32Types
    <3>1. Taken(new, old, stored) = ToU32(stored)
      BY <2>1, <2>2 DEF Taken, Word
    <3> QED BY <1>1, <1>3, <2>2, <3>1, Fixed32Keeps
  <2>3. CASE old \notin Fixed32Types
    <3>1. Taken(new, old, stored) = ToU64(stored)
      BY <2>1, <2>3 DEF Taken, Word
    <3> QED BY <1>1, <3>1, CastKeeps
  <2> QED BY <2>2, <2>3
<1>4. CASE old \in ZigZagTypes \cup FixedTypes /\ new \in ZigZagTypes
  <2>1. Taken(new, old, stored) = stored
    <3>1. CASE old \in ZigZagTypes
      <4>1. old \notin Fixed32Types /\ old \notin Fixed64Types
        BY <3>1 DEF ZigZagTypes, Fixed32Types, Fixed64Types
      <4> QED BY <1>2, <1>4, <3>1, <4>1, ZigZagInverse DEF Taken, Word
    <3>2. CASE old \in Fixed32Types
      <4>1. Taken(new, old, stored) = ToI32(ToU32(stored))
        <5>1. old \notin ZigZagTypes
          BY <3>2 DEF ZigZagTypes, Fixed32Types
        <5> QED BY <1>4, <3>2, <5>1 DEF Taken, Word
      <4>2. stored \in -(U32 \div 2) .. INT32_MAX
        <5>1. old = "sfixed32" => stored \in -(U32 \div 2) .. INT32_MAX
          BY ValuesAre DEF Signed32
        <5>2. new = "sint32" => stored \in -(U32 \div 2) .. INT32_MAX
          BY <1>1, ValuesAre DEF Signed32
        <5>3. CASE old = "fixed32" /\ new = "sint64"
          <6>1. stored \in 0 .. U32 - 1
            BY <5>3, ValuesAre DEF Unsigned32
          <6>2. ~(stored > INT32_MAX)
            BY <1>1, <5>3 DEF Missigned
          <6>3. U32 \div 2 \in Nat /\ INT32_MAX \in Int
            BY Words
          <6> QED BY <6>1, <6>2, <6>3
        <5> QED BY <1>4, <3>2, <5>1, <5>2, <5>3 DEF Fixed32Types, ZigZagTypes
      <4> QED BY <1>2, <4>1, <4>2, FromWord32
    <3>3. CASE old \in Fixed64Types
      <4>1. Taken(new, old, stored) = ToI64(ToU64(stored))
        <5>1. old \notin ZigZagTypes /\ old \notin Fixed32Types
          BY <3>3 DEF ZigZagTypes, Fixed32Types, Fixed64Types
        <5> QED BY <1>4, <3>3, <5>1 DEF Taken, Word
      <4>2. stored \in -(U64 \div 2) .. (U64 \div 2) - 1
        BY <1>1, <1>4, ValuesAre
      <4> QED BY <1>2, <4>1, <4>2, FromWord64
    <3> QED BY <1>4, <3>1, <3>2, <3>3 DEF FixedTypes
  <2> QED BY <1>1, <2>1, CastKeeps
<1> QED BY <1>3, <1>4 DEF Keeps

-----------------------------------------------------------------------------
(* The states of the field.                                                *)

LEMMA TakenType ==
  ASSUME NEW old \in Types, NEW x \in ValuesOf(old), NEW new \in Types
  PROVE  Cast(new, Taken(new, old, x)) \in ValuesOf(new)
<1>1. Word(old, x) \in Nat
  BY PutReads
<1>2. Taken(new, old, x) \in Int
  BY <1>1, WordTypes, ZigZagType DEF Taken
<1>3. new \in NumericTypes
  BY DEF Types, NumericTypes
<1> HIDE DEF Taken
<1> QED BY <1>2, <1>3, CastType

(* The latest version holds a value of its type, and the field is that     *)
(* version's encoding of it.                                               *)
FieldIsWritten ==
  /\ versions \in Seq(Types) /\ Len(versions) >= 1
  /\ seen \in ValuesOf(Latest)
  /\ field = Put(Latest, seen)

IInv == FieldIsWritten /\ ValueSurvives

LEMMA InitWritten == Init => IInv
<1> SUFFICES ASSUME Init PROVE IInv
  OBVIOUS
<1>1. PICK type \in Types, x \in ValuesOf("int64") \cup ValuesOf("uint64") :
          /\ x \in ValuesOf(type) /\ stored = x /\ versions = <<type>>
          /\ seen = x /\ field = Put(type, x)
  BY DEF Init
<1>2. versions \in Seq(Types) /\ Len(versions) = 1 /\ Latest = type
  BY <1>1 DEF Latest
<1> QED BY <1>1, <1>2 DEF IInv, FieldIsWritten, ValueSurvives

(* What a reader of any of the types makes of the field.                   *)
LEMMA Reading ==
  ASSUME FieldIsWritten, NEW type \in Types
  PROVE  /\ Latest \in Types
         /\ Get(type) = Read(Cast(type, Taken(type, Latest, seen)), Len(field.bytes))
<1>1. Latest \in Types
  BY DEF FieldIsWritten, Latest
<1>2. seen \in ValuesOf(Latest) /\ field = Put(Latest, seen)
  BY DEF FieldIsWritten
<1> QED BY <1>1, <1>2, GetIs DEF Get

LEMMA UpgradeWrites ==
  ASSUME IInv, NEW type \in Types, Upgrade(type)
  PROVE  IInv'
<1> DEFINE v == Cast(type, Taken(type, Latest, seen))
           k == Len(versions)
<1>1. /\ versions \in Seq(Types) /\ k \in Nat /\ k >= 1
      /\ seen \in ValuesOf(Latest) /\ Latest \in Types
  BY Reading DEF IInv, FieldIsWritten
<1>2. Get(type).val = v
  BY Reading DEF IInv, Read
<1>3. v \in ValuesOf(type)
  BY <1>1, TakenType
<1> HIDE DEF v
<1>4. /\ versions' = Append(versions, type) /\ seen' = v
      /\ field' = Put(type, v) /\ stored' = stored
  BY <1>2 DEF Upgrade
<1>5. /\ versions' \in Seq(Types) /\ Len(versions') = k + 1
      /\ Latest' = type /\ versions[k] = Latest
      /\ \A i \in 1 .. k : versions'[i] = versions[i]
      /\ versions'[k + 1] = type
  BY <1>1, <1>4 DEF Latest
<1>6. FieldIsWritten'
  <2>1. field' = Put(Latest', seen')
    BY <1>4, <1>5
  <2>2. (FieldIsWritten)' <=> /\ versions' \in Seq(Types) /\ Len(versions') >= 1
                              /\ seen' \in ValuesOf(Latest') /\ field' = Put(Latest', seen')
    BY DEF FieldIsWritten, Put
  <2> QED BY <1>1, <1>3, <1>4, <1>5, <2>1, <2>2
<1>7. ValueSurvives'
  <2>1. SUFFICES ASSUME \A i \in 1 .. Len(versions') - 1 : Keeps(versions[i], versions[i + 1])'
                 PROVE  seen' = stored
    BY <1>4 DEF ValueSurvives
  <2>2. ASSUME NEW i \in 1 .. k
        PROVE  Keeps(versions'[i], versions'[i + 1])
    <3>1. i \in 1 .. Len(versions') - 1
      BY <1>1, <1>5
    <3> QED BY <1>4, <2>1, <3>1 DEF Keeps, Missigned
  <2>3. seen = stored
    <3>1. ASSUME NEW i \in 1 .. k - 1
          PROVE  Keeps(versions[i], versions[i + 1])
      <4>1. i \in 1 .. k /\ i + 1 \in 1 .. k
        BY <1>1
      <4> QED BY <1>5, <2>2, <4>1
    <3> QED BY <3>1 DEF IInv, ValueSurvives
  <2>4. Keeps(Latest, type)
    BY <1>1, <1>5, <2>2
  <2>5. v = stored
    BY <1>1, <2>3, <2>4, TakenKeeps DEF v
  <2> QED BY <1>4, <2>5
<1> QED BY <1>6, <1>7 DEF IInv

LEMMA Written == Spec => []IInv
<1>1. ASSUME IInv, [Next]_vars PROVE IInv'
  <2>1. CASE Next
    BY <1>1, <2>1, UpgradeWrites DEF Next
  <2>2. CASE UNCHANGED vars
    BY <1>1, <2>2 DEF vars, IInv, FieldIsWritten, ValueSurvives, Latest, Keeps, Missigned, Put
  <2> QED BY <1>1, <2>1, <2>2
<1> QED BY InitWritten, <1>1, PTL DEF Spec

(* A value that fits every version's type passes through all of them,      *)
(* through encode() and decode() of each, unless one of them widens a      *)
(* FIXED32 against its sign: for every width of the words, every value and *)
(* any number of versions.                                                 *)
THEOREM ValueKept == Spec => []ValueSurvives
<1>1. IInv => ValueSurvives
  BY DEF IInv
<1> QED BY Written, <1>1, PTL

(* No chain of changes among the integral and zigzag types makes get_TYPE  *)
(* throw.                                                                  *)
THEOREM ReadersAccept == Spec => []NeverRefused
<1>1. IInv => NeverRefused
  BY Reading DEF IInv, NeverRefused, Read
<1> QED BY Written, <1>1, PTL
=============================================================================
