------------------------------ MODULE WireProof -----------------------------
(***************************************************************************)
(* Facts about the wire format for every width of the machine: what the    *)
(* readers return and where they leave the pointer, and that they read     *)
(* back every value the writers write.                                     *)
(***************************************************************************)
EXTENDS ScalarTypes, SequenceFacts

(* Division.                                                               *)

(* C++ reduces every value it writes to a word.                            *)
LEMMA Remainder ==
  ASSUME NEW x \in Int, NEW m \in Nat \ {0}
  PROVE  x % m \in 0 .. m - 1
OBVIOUS

(* A shift to the right of a natural number is a natural number.           *)
LEMMA Quotient ==
  ASSUME NEW x \in Nat, NEW m \in Nat \ {0}
  PROVE  x \div m \in Nat
OBVIOUS

LEMMA Division ==
  ASSUME NEW x \in Int, NEW m \in Nat \ {0}
  PROVE  /\ x \div m \in Int /\ x % m \in 0 .. m - 1
         /\ x = (x \div m) * m + (x % m)
OBVIOUS

LEMMA DivisionUnique ==
  ASSUME NEW q \in Int, NEW r \in Int, NEW m \in Nat \ {0}, NEW s \in 0 .. m - 1, NEW t \in 0 .. m - 1,
         q * m + s = r * m + t
  PROVE  q = r /\ s = t
OBVIOUS

(* A quotient and a remainder are the ones.                                *)
LEMMA DivisionIs ==
  ASSUME NEW q \in Int, NEW m \in Nat \ {0}, NEW r \in 0 .. m - 1, NEW x \in Int, x = q * m + r
  PROVE  x \div m = q /\ x % m = r
BY Division, DivisionUnique

(* One more digit of a remainder.                                          *)
LEMMA NextDigit ==
  ASSUME NEW v \in Nat, NEW p \in Nat \ {0}, NEW b \in Nat \ {0}
  PROVE  /\ p * b \in Nat \ {0}
         /\ v % (p * b) = (v % p) + ((v \div p) % b) * p
         /\ v \div (p * b) = (v \div p) \div b
<1> DEFINE q == v \div p
           r == v % p
           c == q \div b
           d == q % b
<1>1. q \in Int /\ r \in 0 .. p - 1 /\ v = q * p + r
  BY Division
<1>2. c \in Int /\ d \in 0 .. b - 1 /\ q = c * b + d
  BY <1>1, Division
<1> HIDE DEF q, r, c, d
<1>3. p * b \in Nat \ {0}
  OBVIOUS
<1>4. d * p \in Nat /\ d * p <= (b - 1) * p
  BY <1>2
<1>5. (b - 1) * p = p * b - p
  OBVIOUS
<1>6. r + d * p \in 0 .. p * b - 1
  BY <1>1, <1>3, <1>4, <1>5
<1>7. q * p = (c * b) * p + d * p
  BY <1>1, <1>2
<1>8. (c * b) * p = c * (p * b)
  BY <1>2
<1>9. v = c * (p * b) + (r + d * p)
  BY <1>1, <1>2, <1>4, <1>7, <1>8
<1>10. v % (p * b) = r + d * p /\ v \div (p * b) = c
  <2> DEFINE m == p * b
             s == r + d * p
  <2>1. m \in Nat \ {0} /\ s \in 0 .. m - 1 /\ v = c * m + s
    BY <1>3, <1>6, <1>9
  <2> HIDE DEF m, s
  <2>2. v \div m = c /\ v % m = s
    BY <1>2, <2>1, DivisionIs
  <2> QED BY <2>2 DEF m, s
<1> QED BY <1>3, <1>10 DEF q, r, c, d

-----------------------------------------------------------------------------
(* The widths of the machine, and powers.                                  *)
LEMMA Widths ==
  /\ Base \in Nat \ {0, 1}
  /\ ByteValues \in Nat \ {0}
  /\ SIZE32 \in Nat \ {0} /\ SIZE64 \in Nat \ {0} /\ SIZE32 <= SIZE64
  /\ MAX_VARINT_SIZE \in Nat \ {0} /\ MAX_LENGTH_CODE_SIZE \in Nat \ {0}
  /\ MAX_LENGTH_CODE_SIZE <= MAX_VARINT_SIZE
BY WidthAssumption DEF ByteValues

(* The two number systems: what ^ computes in them.                        *)
Digits == {<<Base, MAX_VARINT_SIZE>>, <<ByteValues, SIZE64>>}

LEMMA PowersOf ==
  ASSUME NEW d \in Digits
  PROVE  /\ d[1] \in Nat \ {0, 1} /\ d[2] \in Nat
         /\ \A i \in 0 .. d[2] : d[1] ^ i \in Nat \ {0}
         /\ \A i \in 1 .. d[2] : d[1] ^ i = d[1] ^ (i - 1) * d[1]
         /\ d[1] ^ 0 = 1
<1> DEFINE b == d[1]
           n == d[2]
           T == {i \in 0 .. n : b ^ i \in Nat \ {0}}
<1>1. b \in Nat \ {0, 1} /\ n \in Nat
  BY Widths DEF Digits, ByteValues
<1>2. b ^ 0 = 1 /\ \A i \in 1 .. n : b ^ i = b ^ (i - 1) * b
  BY PowerAssumption DEF Digits
<1> HIDE DEF b, n
<1>3. 0 \in T
  BY <1>1, <1>2
<1>4. ASSUME NEW k \in 1 .. n, k - 1 \in T
      PROVE  k \in T
  <2> DEFINE q == b ^ (k - 1)
  <2>1. q \in Nat \ {0} /\ b ^ k = q * b
    BY <1>2, <1>4
  <2> HIDE DEF q
  <2>2. q * b \in Nat \ {0}
    BY <1>1, <2>1
  <2> QED BY <2>1, <2>2
<1>5. 0 .. n \subseteq T
  <2> HIDE DEF T
  <2> QED BY <1>1, <1>3, <1>4, Induction
<1> QED BY <1>1, <1>2, <1>5 DEF b, n

LEMMA Powers ==
  /\ \A i \in 0 .. MAX_VARINT_SIZE : Base ^ i \in Nat \ {0}
  /\ \A i \in 0 .. SIZE64 : ByteValues ^ i \in Nat \ {0}
  /\ U32 \in Nat \ {0} /\ U64 \in Nat \ {0}
<1>1. <<Base, MAX_VARINT_SIZE>> \in Digits /\ <<ByteValues, SIZE64>> \in Digits
  BY DEF Digits
<1>2. /\ \A i \in 0 .. MAX_VARINT_SIZE : Base ^ i \in Nat \ {0}
      /\ \A i \in 0 .. SIZE64 : ByteValues ^ i \in Nat \ {0}
  BY <1>1, PowersOf
<1>3. SIZE32 \in 0 .. SIZE64 /\ SIZE64 \in 0 .. SIZE64
  BY Widths
<1> QED BY <1>2, <1>3 DEF U32, U64

(* Higher powers are greater.                                              *)
LEMMA PowersGrow ==
  ASSUME NEW i \in 0 .. MAX_VARINT_SIZE, NEW j \in 0 .. MAX_VARINT_SIZE, i < j
  PROVE  Base ^ i < Base ^ j
<1> DEFINE n == MAX_VARINT_SIZE
           T == {k \in 0 .. n : i < k => Base ^ i < Base ^ k}
<1>1. n \in Nat /\ i \in Nat /\ j \in Nat
  BY Widths
<1>2. 0 \in T
  BY <1>1
<1>3. ASSUME NEW k \in 1 .. n, k - 1 \in T
      PROVE  k \in T
  <2> DEFINE p == Base ^ (k - 1)
             q == Base ^ i
             r == Base ^ k
  <2>1. p \in Nat \ {0} /\ r = p * Base /\ Base \in Nat \ {0, 1} /\ q \in Nat
    <3>1. k - 1 \in 0 .. n
      BY <1>1
    <3>2. <<Base, MAX_VARINT_SIZE>> \in Digits
      BY DEF Digits
    <3> QED BY <3>1, <3>2, PowersOf
  <2>2. i < k => i = k - 1 \/ i < k - 1
    BY <1>1
  <2>3. i < k - 1 => q < p
    BY <1>3
  <2>4. i = k - 1 => q = p
    OBVIOUS
  <2> HIDE DEF p, q, r
  <2>5. p < r
    BY <2>1
  <2>6. i < k => q < r
    BY <2>1, <2>2, <2>3, <2>4, <2>5
  <2> QED BY <2>6 DEF q, r
<1>4. 0 .. n \subseteq T
  <2> HIDE DEF T
  <2> QED BY <1>1, <1>2, <1>3, Induction
<1> QED BY <1>4

(* The words are powers of a byte: the wider holds a whole number of the   *)
(* narrower.                                                               *)
LEMMA WordsDivide ==
  \E q \in Nat \ {0} : U64 = q * U32
<1> DEFINE n == SIZE64 - SIZE32
           T == {k \in 0 .. n : \E q \in Nat \ {0} : ByteValues ^ (SIZE32 + k) = q * U32}
<1>1. n \in Nat /\ SIZE32 \in Nat /\ SIZE64 \in Nat /\ SIZE32 + n = SIZE64
  BY Widths
<1>2. 0 \in T
  <2>1. SIZE32 + 0 = SIZE32 /\ U32 = 1 * U32 /\ 1 \in Nat \ {0}
    BY <1>1, Powers
  <2> QED BY <1>1, <2>1 DEF U32
<1>3. ASSUME NEW k \in 1 .. n, k - 1 \in T
      PROVE  k \in T
  <2>1. PICK q \in Nat \ {0} : ByteValues ^ (SIZE32 + (k - 1)) = q * U32
    BY <1>3
  <2>2. SIZE32 + k \in 1 .. SIZE64 /\ (SIZE32 + k) - 1 = SIZE32 + (k - 1)
    BY <1>1
  <2>3. ByteValues ^ (SIZE32 + k) = (q * U32) * ByteValues
    BY <2>1, <2>2, PowerAssumption
  <2>4. (q * U32) * ByteValues = (q * ByteValues) * U32 /\ q * ByteValues \in Nat \ {0}
    BY Powers, Widths
  <2> QED BY <2>3, <2>4
<1>4. n \in 0 .. n /\ 0 .. n \subseteq T
  <2> HIDE DEF T
  <2> QED BY <1>1, <1>2, <1>3, Induction
<1> QED BY <1>1, <1>4 DEF U64

LEMMA WordsOrdered == U32 <= U64
<1>1. PICK q \in Nat \ {0} : U64 = q * U32
  BY WordsDivide
<1> QED BY <1>1, Powers

-----------------------------------------------------------------------------
(* Assembling a number from its digits.                                    *)

(* s[k] is the number with the first k digits.                             *)
IsSums(s, digit, b, n) ==
  s = [k \in 0 .. n |-> IF k = 0 THEN 0 ELSE s[k - 1] + digit[k] * b ^ (k - 1)]

LEMMA SumsExist ==
  ASSUME NEW n \in Nat, NEW digit, NEW b
  PROVE  \E s : IsSums(s, digit, b, n)
<1> DEFINE T == {m \in 0 .. n : \E s : IsSums(s, digit, b, m)}
<1>1. 0 \in T
  <2> DEFINE s == [k \in 0 .. 0 |-> 0]
  <2>1. IsSums(s, digit, b, 0)
    BY DEF IsSums
  <2> QED BY <2>1
<1>2. ASSUME NEW m \in 1 .. n, m - 1 \in T
      PROVE  m \in T
  <2>1. PICK s : IsSums(s, digit, b, m - 1)
    BY <1>2
  <2> DEFINE t == [k \in 0 .. m |-> IF k = m THEN s[m - 1] + digit[m] * b ^ (m - 1) ELSE s[k]]
  <2>2. ASSUME NEW k \in 0 .. m
        PROVE  t[k] = IF k = 0 THEN 0 ELSE t[k - 1] + digit[k] * b ^ (k - 1)
    <3>1. CASE k = m
      <4>1. t[k] = s[m - 1] + digit[m] * b ^ (m - 1)
        BY <3>1
      <4>2. t[m - 1] = s[m - 1] /\ k # 0
        BY <3>1
      <4> HIDE DEF t
      <4> QED BY <3>1, <4>1, <4>2
    <3>2. CASE k # m
      <4>1. k \in 0 .. m - 1 /\ t[k] = s[k]
        BY <3>2
      <4>2. s[k] = IF k = 0 THEN 0 ELSE s[k - 1] + digit[k] * b ^ (k - 1)
        BY <2>1, <4>1 DEF IsSums
      <4>3. k # 0 => t[k - 1] = s[k - 1]
        BY <3>2
      <4> HIDE DEF t
      <4> QED BY <4>1, <4>2, <4>3
    <3> QED BY <3>1, <3>2
  <2>3. t = [k \in 0 .. m |-> t[k]]
    OBVIOUS
  <2> HIDE DEF t
  <2>4. IsSums(t, digit, b, m)
    BY <2>2, <2>3 DEF IsSums
  <2> QED BY <2>4
<1>3. n \in 0 .. n /\ 0 .. n \subseteq T
  <2> HIDE DEF T
  <2> QED BY <1>1, <1>2, Induction
<1> QED BY <1>3

LEMMA AssembleIsSum ==
  ASSUME NEW n \in Nat, NEW digit, NEW b
  PROVE  \E s : IsSums(s, digit, b, n) /\ Assemble(digit, b, n) = s[n]
<1>1. Assemble(digit, b, n) = (CHOOSE s : IsSums(s, digit, b, n))[n]
  BY DEF Assemble, IsSums
<1>2. IsSums((CHOOSE s : IsSums(s, digit, b, n)), digit, b, n)
  <2> DEFINE P(s) == IsSums(s, digit, b, n)
  <2>1. \E s : P(s)
    BY SumsExist
  <2> HIDE DEF P
  <2>2. P(CHOOSE s : P(s))
    BY <2>1
  <2> QED BY <2>2 DEF P
<1> QED BY <1>1, <1>2

LEMMA AssembleType ==
  ASSUME NEW d \in Digits, NEW n \in 0 .. d[2], NEW digit, \A k \in 1 .. n : digit[k] \in Nat
  PROVE  Assemble(digit, d[1], n) \in Nat
<1>1. n \in Nat /\ \A k \in 1 .. n : d[1] ^ (k - 1) \in Nat
  <2>1. d[2] \in Nat /\ \A i \in 0 .. d[2] : d[1] ^ i \in Nat
    BY PowersOf
  <2>2. \A k \in 1 .. n : k - 1 \in 0 .. d[2]
    BY <2>1
  <2> QED BY <2>1, <2>2
<1>2. PICK s : IsSums(s, digit, d[1], n) /\ Assemble(digit, d[1], n) = s[n]
  BY <1>1, AssembleIsSum
<1> DEFINE T == {k \in 0 .. n : s[k] \in Nat}
<1>3. 0 \in T
  BY <1>1, <1>2 DEF IsSums
<1>4. ASSUME NEW k \in 1 .. n, k - 1 \in T
      PROVE  k \in T
  <2>1. s[k] = s[k - 1] + digit[k] * d[1] ^ (k - 1)
    BY <1>1, <1>2 DEF IsSums
  <2>2. s[k - 1] \in Nat /\ digit[k] \in Nat /\ d[1] ^ (k - 1) \in Nat
    BY <1>1, <1>4
  <2>3. \A x, y, z \in Nat : x + y * z \in Nat
    OBVIOUS
  <2> QED BY <1>1, <2>1, <2>2, <2>3
<1>5. n \in 0 .. n /\ 0 .. n \subseteq T
  <2> HIDE DEF T
  <2> QED BY <1>1, <1>3, <1>4, Induction
<1> QED BY <1>2, <1>5

(* The digits of a number make it up, as far as they go.                   *)
LEMMA AssembleDigits ==
  ASSUME NEW d \in Digits, NEW n \in 0 .. d[2], NEW v \in Nat, NEW digit,
         \A k \in 1 .. n : digit[k] = (v \div d[1] ^ (k - 1)) % d[1]
  PROVE  Assemble(digit, d[1], n) = v % d[1] ^ n
<1> DEFINE b == d[1]
<1>1. /\ n \in Nat /\ n <= d[2] /\ b \in Nat \ {0} /\ b ^ 0 = 1
      /\ \A i \in 0 .. n : b ^ i \in Nat \ {0}
      /\ \A i \in 1 .. n : b ^ i = b ^ (i - 1) * b
  <2>1. d[2] \in Nat
    BY PowersOf
  <2>2. n \in Nat /\ n <= d[2] /\ \A i \in 0 .. n : i \in 0 .. d[2]
    BY <2>1
  <2>3. \A i \in 1 .. n : i \in 1 .. d[2]
    BY <2>1, <2>2
  <2> QED BY <2>2, <2>3, PowersOf
<1>2. PICK s : IsSums(s, digit, b, n) /\ Assemble(digit, b, n) = s[n]
  BY <1>1, AssembleIsSum
<1> HIDE DEF b
<1> DEFINE T == {k \in 0 .. n : s[k] = v % b ^ k}
<1>3. 0 \in T
  <2>1. v % 1 = 0
    OBVIOUS
  <2> QED BY <1>1, <1>2, <2>1 DEF IsSums
<1>4. ASSUME NEW k \in 1 .. n, k - 1 \in T
      PROVE  k \in T
  <2> DEFINE p == b ^ (k - 1)
  <2>1. s[k] = s[k - 1] + digit[k] * p
    BY <1>1, <1>2 DEF IsSums
  <2>2. s[k - 1] = v % p /\ p \in Nat \ {0} /\ b ^ k = p * b
    <3>1. k - 1 \in 0 .. n
      BY <1>1
    <3> QED BY <1>1, <1>4, <3>1
  <2>3. digit[k] = (v \div p) % b
    BY DEF b
  <2> HIDE DEF p
  <2>4. v % (p * b) = (v % p) + ((v \div p) % b) * p
    BY <1>1, <2>2, NextDigit
  <2>5. s[k] = v % b ^ k
    BY <2>1, <2>2, <2>3, <2>4
  <2> QED BY <2>5
<1>5. n \in 0 .. n /\ 0 .. n \subseteq T
  <2> HIDE DEF T
  <2> QED BY <1>1, <1>3, <1>4, Induction
<1> QED BY <1>2, <1>5 DEF b

-----------------------------------------------------------------------------
(* Writing.                                                                *)

(* A varint has at least one byte and at most MAX_VARINT_SIZE: the room    *)
(* write_varint reserves is always enough.                                 *)
LEMMA VarintSizeBound ==
  ASSUME NEW v \in Nat
  PROVE  VarintSize(v) \in 1 .. MAX_VARINT_SIZE
<1> DEFINE K == 1 .. MAX_VARINT_SIZE - 1
           S == {k \in K : v >= Base ^ k}
<1>1. IsFiniteSet(K) /\ Cardinality(K) = MAX_VARINT_SIZE - 1
  <2>1. 1 \in Int /\ MAX_VARINT_SIZE - 1 \in Int
    BY Widths
  <2>2. IsFiniteSet(K) /\ Cardinality(K) = IF 1 > MAX_VARINT_SIZE - 1 THEN 0 ELSE (MAX_VARINT_SIZE - 1) - 1 + 1
    BY <2>1, FS_Interval
  <2> QED BY <2>2, Widths
<1>2. S \subseteq K
  OBVIOUS
<1>3. IsFiniteSet(S) /\ Cardinality(S) <= Cardinality(K)
  BY <1>1, <1>2, FS_Subset
<1>4. Cardinality(S) \in Nat
  BY <1>3, FS_CardinalityType
<1> QED BY <1>1, <1>3, <1>4, Widths DEF VarintSize

(* The bytes of a varint are bytes.                                        *)
LEMMA VarintBytesType ==
  ASSUME NEW v \in Nat
  PROVE  /\ VarintBytes(v) \in Seq(Byte)
         /\ Len(VarintBytes(v)) \in 1 .. MAX_VARINT_SIZE
<1> DEFINE n == VarintSize(v)
           b(i) == Digit(v, i - 1) + (IF i < n THEN Base ELSE 0)
<1>1. n \in 1 .. MAX_VARINT_SIZE
  BY VarintSizeBound
<1>2. ASSUME NEW i \in 1 .. n
      PROVE  b(i) \in Byte
  <2>1. Base ^ (i - 1) \in Nat \ {0}
    BY <1>1, Widths, Powers
  <2>2. v \div Base ^ (i - 1) \in Nat
    BY <2>1, Quotient
  <2>3. Digit(v, i - 1) \in 0 .. Base - 1
    BY <2>2, Widths, Remainder, SMTT(60) DEF Digit
  <2> QED BY <2>3, Widths DEF Byte, ByteValues
<1>3. VarintBytes(v) = [i \in 1 .. n |-> b(i)]
  BY DEF VarintBytes
<1> HIDE DEF n, b
<1> QED BY <1>1, <1>2, <1>3, Widths

(* So are those of a length prefix, and they fill it exactly.              *)
LEMMA PaddedVarintType ==
  ASSUME NEW v \in Nat
  PROVE  /\ PaddedVarint(v, MAX_LENGTH_CODE_SIZE) \in Seq(Byte)
         /\ Len(PaddedVarint(v, MAX_LENGTH_CODE_SIZE)) = MAX_LENGTH_CODE_SIZE
<1> DEFINE n == MAX_LENGTH_CODE_SIZE
           b(i) == IF i < n THEN Digit(v, i - 1) + Base
                            ELSE (v \div Base ^ (n - 1)) % ByteValues
<1>1. ASSUME NEW i \in 1 .. n
      PROVE  b(i) \in Byte
  <2>1. Base ^ (i - 1) \in Nat \ {0} /\ Base ^ (n - 1) \in Nat \ {0}
    BY Widths, Powers
  <2>2. v \div Base ^ (i - 1) \in Nat /\ v \div Base ^ (n - 1) \in Nat
    BY <2>1, Quotient
  <2>3. Digit(v, i - 1) \in 0 .. Base - 1
    BY <2>2, Widths, Remainder DEF Digit
  <2>4. (v \div Base ^ (n - 1)) % ByteValues \in 0 .. ByteValues - 1
    BY <2>2, Widths, Remainder
  <2> QED BY <2>3, <2>4, Widths DEF Byte, ByteValues
<1>2. PaddedVarint(v, n) = [i \in 1 .. n |-> b(i)]
  BY DEF PaddedVarint
<1> HIDE DEF b
<1> QED BY <1>1, <1>2, Widths

(* And those of a fixed-width value of either size.                        *)
LEMMA FixedBytesType ==
  ASSUME NEW v \in Nat, NEW n \in {SIZE32, SIZE64}
  PROVE  FixedBytes(v, n) \in Seq(Byte) /\ Len(FixedBytes(v, n)) = n
<1>1. n \in Nat \ {0} /\ n <= SIZE64
  BY Widths
<1>2. ASSUME NEW i \in 1 .. n
      PROVE  (v \div ByteValues ^ (i - 1)) % ByteValues \in Byte
  <2>1. ByteValues ^ (i - 1) \in Nat \ {0}
    <3>1. i - 1 \in 0 .. SIZE64
      BY <1>1, Widths
    <3> QED BY <3>1, Powers
  <2>2. v \div ByteValues ^ (i - 1) \in Nat
    BY <2>1, Quotient
  <2> QED BY <2>2, Widths, Remainder DEF Byte
<1> QED BY <1>1, <1>2 DEF FixedBytes

(* The size of a varint is that of its last digit that is not zero.        *)
LEMMA VarintSizeIs ==
  ASSUME NEW v \in Nat, v < Base ^ MAX_VARINT_SIZE
  PROVE  /\ VarintSize(v) \in 1 .. MAX_VARINT_SIZE
         /\ v < Base ^ VarintSize(v)
         /\ VarintSize(v) > 1 => Base ^ (VarintSize(v) - 1) <= v
<1> DEFINE M == MAX_VARINT_SIZE
           S == {k \in 1 .. M - 1 : v >= Base ^ k}
           T == {k \in 1 .. M : v < Base ^ k}
<1>1. M \in Nat \ {0} /\ M \in T
  BY Widths
<1>2. PICK m \in T : \A k \in T : m <= k
  <2>1. T \subseteq Nat /\ T # {}
    BY <1>1
  <2> HIDE DEF T
  <2> QED BY <2>1, LeastNatural
<1>3. m \in 1 .. M /\ v < Base ^ m
  BY <1>2
<1>4. \A k \in 0 .. M : Base ^ k \in Nat
  BY Powers
<1>5. ASSUME NEW k \in 1 .. m - 1
      PROVE  k \in S
  <2>1. k \in 1 .. M /\ k \in 1 .. M - 1 /\ ~(m <= k)
    BY <1>1, <1>3
  <2>2. k \notin T
    BY <1>2, <2>1
  <2>3. ~(v < Base ^ k) /\ Base ^ k \in Nat
    BY <1>4, <2>1, <2>2
  <2> QED BY <2>1, <2>3
<1>6. ASSUME NEW k \in S
      PROVE  k \in 1 .. m - 1
  <2>1. k \in 0 .. M /\ m \in 0 .. M /\ k \in 1 .. M - 1 /\ v >= Base ^ k
    BY <1>1, <1>3
  <2>2. m # k
    BY <1>3, <1>4, <2>1
  <2>3. ~(m < k)
    <3>1. m < k => Base ^ m < Base ^ k
      BY <2>1, PowersGrow
    <3> QED BY <1>3, <1>4, <2>1, <3>1
  <2> QED BY <1>3, <2>1, <2>2, <2>3
<1>7. S = 1 .. m - 1
  <2>1. \A k \in 1 .. m - 1 : k \in S
    BY <1>5
  <2>2. \A k \in S : k \in 1 .. m - 1
    BY <1>6
  <2> HIDE DEF S
  <2> QED BY <2>1, <2>2
<1>8. Cardinality(1 .. m - 1) = m - 1
  <2>1. 1 \in Int /\ m - 1 \in Int
    BY <1>1, <1>3
  <2>2. Cardinality(1 .. m - 1) = IF 1 > m - 1 THEN 0 ELSE (m - 1) - 1 + 1
    BY <2>1, FS_Interval
  <2> QED BY <1>3, <2>2
<1>9. VarintSize(v) = m
  <2>1. VarintSize(v) = 1 + Cardinality(S)
    BY DEF VarintSize
  <2> HIDE DEF S
  <2> QED BY <1>3, <1>7, <1>8, <2>1
<1>10. m > 1 => Base ^ (m - 1) <= v
  <2>1. m > 1 => m - 1 \in S
    BY <1>3, <1>5
  <2> QED BY <1>4, <2>1
<1> QED BY <1>3, <1>9, <1>10

LEMMA WordFitsVarint ==
  ASSUME NEW v \in 0 .. U64 - 1
  PROVE  v \in Nat /\ v < U64 /\ v < Base ^ MAX_VARINT_SIZE
<1>1. U64 \in Nat \ {0} /\ Base ^ MAX_VARINT_SIZE \in Nat /\ U64 <= Base ^ MAX_VARINT_SIZE
  BY Powers, PowerAssumption, Widths
<1> QED BY <1>1

-----------------------------------------------------------------------------
(* Reading.                                                                *)

(* A slice of a buffer of bytes.                                           *)
Slice(buf, p, end) ==
  /\ buf \in Seq(Byte)
  /\ p \in Nat /\ end \in Nat
  /\ p <= end /\ end <= Len(buf)

LEMMA ByteOfSlice ==
  ASSUME NEW buf, NEW p, NEW end, Slice(buf, p, end), NEW i \in 1 .. end - p
  PROVE  buf[p + i] \in Byte /\ buf[p + i] \in Nat
<1>1. p + i \in 1 .. Len(buf) /\ buf \in Seq(Byte)
  BY DEF Slice
<1>2. buf[p + i] \in Byte
  BY <1>1
<1> QED BY <1>2, Widths DEF Byte

(* Continued is the number of bytes that continue.                         *)
LEMMA ContinuedIs ==
  ASSUME NEW buf, NEW p, NEW end, Slice(buf, p, end), NEW n \in 0 .. end - p
  PROVE  /\ Continued(buf, p, n) \in 0 .. n
         /\ Continued(buf, p, n) = n \/ buf[p + Continued(buf, p, n) + 1] < Base
         /\ \A j \in 0 .. Continued(buf, p, n) - 1 : buf[p + j + 1] >= Base
<1> DEFINE T == {i \in 0 .. n : i = n \/ buf[p + i + 1] < Base}
           P(i) == /\ i = n \/ buf[p + i + 1] < Base
                   /\ \A j \in 0 .. i - 1 : buf[p + j + 1] >= Base
<1>1. p \in Nat /\ end \in Nat /\ n \in Nat
  BY DEF Slice
<1>2. PICK m \in T : \A k \in T : m <= k
  <2>1. n \in T /\ T \subseteq Nat
    BY <1>1
  <2> HIDE DEF T
  <2> QED BY <2>1, LeastNatural
<1>3. ASSUME NEW j \in 0 .. m - 1
      PROVE  buf[p + j + 1] >= Base
  <2>1. j \in 0 .. n /\ j # n /\ ~(m <= j) /\ j + 1 \in 1 .. end - p /\ p + (j + 1) = p + j + 1
    BY <1>1
  <2>2. ~(buf[p + j + 1] < Base)
    BY <1>2, <2>1
  <2>3. buf[p + j + 1] \in Nat
    BY <2>1, ByteOfSlice
  <2> QED BY <2>2, <2>3, Widths
<1>4. m \in 0 .. n /\ P(m)
  BY <1>3
<1>5. Continued(buf, p, n) = CHOOSE i \in 0 .. n : P(i)
  BY DEF Continued
<1> HIDE DEF P
<1>6. Continued(buf, p, n) \in 0 .. n /\ P(Continued(buf, p, n))
  BY <1>4, <1>5
<1> QED BY <1>6 DEF P

(* The shift count reaches the width of the word at some byte.             *)
LEMMA WordShiftedOut ==
  /\ WORD_SHIFTED_OUT \in 0 .. MAX_VARINT_SIZE
  /\ Base ^ WORD_SHIFTED_OUT >= U64
  /\ \A k \in 0 .. WORD_SHIFTED_OUT - 1 : Base ^ k < U64
<1> DEFINE S == {i \in 0 .. MAX_VARINT_SIZE : Base ^ i >= U64}
           P(m) == \A k \in S : m <= k
<1>1. MAX_VARINT_SIZE \in Nat /\ U64 \in Nat /\ \A i \in 0 .. MAX_VARINT_SIZE : Base ^ i \in Nat
  BY Widths, Powers
<1>2. \E m \in S : P(m)
  <2>1. MAX_VARINT_SIZE \in S
    BY <1>1, PowerAssumption
  <2>2. S \subseteq Nat /\ S # {}
    BY <1>1, <2>1
  <2> HIDE DEF S
  <2> QED BY <2>2, LeastNatural
<1>3. WORD_SHIFTED_OUT = CHOOSE m \in S : P(m)
  BY DEF WORD_SHIFTED_OUT, Min
<1>4. WORD_SHIFTED_OUT \in S /\ P(WORD_SHIFTED_OUT)
  <2> HIDE DEF S, P
  <2> QED BY <1>2, <1>3
<1>5. ASSUME NEW k \in 0 .. WORD_SHIFTED_OUT - 1
      PROVE  Base ^ k < U64
  <2>1. k \in 0 .. MAX_VARINT_SIZE /\ ~(WORD_SHIFTED_OUT <= k)
    BY <1>1, <1>4
  <2>2. k \notin S
    BY <1>4, <2>1
  <2> QED BY <1>1, <2>1, <2>2
<1> QED BY <1>4, <1>5

LEMMA ValueOfType ==
  ASSUME NEW buf, NEW p, NEW end, Slice(buf, p, end), NEW n \in 0 .. end - p, n <= MAX_VARINT_SIZE
  PROVE  ValueOf(buf, p, n) \in 0 .. U64 - 1
<1> DEFINE d == <<Base, MAX_VARINT_SIZE>>
           digit == [i \in 1 .. n |-> buf[p + i] % Base]
<1>1. p \in Nat /\ end \in Nat /\ n \in Nat
  BY DEF Slice
<1>2. d \in Digits /\ d[1] = Base /\ d[2] = MAX_VARINT_SIZE
  BY DEF Digits
<1>3. \A k \in 1 .. n : digit[k] \in Nat
  <2>1. ASSUME NEW k \in 1 .. n
        PROVE  buf[p + k] % Base \in Nat
    <3>1. k \in 1 .. end - p
      BY <1>1
    <3>2. buf[p + k] \in Nat
      BY <3>1, ByteOfSlice
    <3>3. \A x \in Nat : x % Base \in Nat
      BY Widths
    <3> QED BY <3>2, <3>3
  <2> QED BY <2>1
<1>4. n \in 0 .. MAX_VARINT_SIZE
  BY <1>1, Widths
<1> HIDE DEF d, digit
<1>5. Assemble(digit, Base, n) \in Nat
  BY <1>2, <1>3, <1>4, AssembleType
<1>6. Assemble(digit, Base, n) % U64 \in 0 .. U64 - 1
  BY <1>5, Powers, Remainder
<1> QED BY <1>6 DEF ValueOf, digit

(* What a read returns, and that it leaves the pointer in the slice.       *)
ReadErrors == {"none", "unexpected_eof", "varint_too_long", "length_too_long",
               "wiretype_mismatch", "unsupported_wiretype"}

Returns(r, p, end) == r \in [err : ReadErrors, val : Int, ptr : p .. end]

LEMMA ReadReturns ==
  ASSUME NEW p \in Nat, NEW end \in Nat, NEW v \in Int, NEW q \in p .. end
  PROVE  Returns(Read(v, q), p, end)
BY DEF Returns, Read, ReadErrors

LEMMA ThrowReturns ==
  ASSUME NEW p \in Nat, NEW end \in Nat, NEW e \in ReadErrors, NEW q \in p .. end
  PROVE  Returns(Throw(e, q), p, end)
BY DEF Returns, Throw

(* A word, past at least one byte.                                         *)
LEMMA ReadVarintReturns ==
  ASSUME NEW buf, NEW p, NEW end, Slice(buf, p, end)
  PROVE  LET r == ReadVarint(buf, p, end)
         IN  /\ Returns(r, p, end)
             /\ r.val \in 0 .. U64 - 1
             /\ r.err = "none" => p < r.ptr
<1> DEFINE Fine(r) == Returns(r, p, end) /\ r.val \in 0 .. U64 - 1 /\ (r.err = "none" => p < r.ptr)
<1>1. p \in Nat /\ end \in Nat /\ p <= end /\ U64 \in Nat \ {0} /\ MAX_VARINT_SIZE \in Nat \ {0}
  BY Powers, Widths DEF Slice
<1>2. ASSUME NEW e \in ReadErrors \ {"none"}, NEW q \in p .. end
      PROVE  Fine(Throw(e, q))
  <2>1. Throw(e, q).val = 0 /\ Throw(e, q).err # "none"
    BY <1>2 DEF Throw
  <2> QED BY <1>1, <1>2, <2>1, ThrowReturns
<1>3. ASSUME NEW n \in 1 .. end - p, n <= MAX_VARINT_SIZE
      PROVE  Fine(Read(ValueOf(buf, p, n), p + n))
  <2>1. ValueOf(buf, p, n) \in 0 .. U64 - 1 /\ n \in 0 .. end - p
    BY <1>1, <1>3, ValueOfType
  <2>2. p + n \in p .. end /\ p < p + n /\ ValueOf(buf, p, n) \in Int
    BY <1>1, <1>3, <2>1
  <2>3. Read(ValueOf(buf, p, n), p + n).val = ValueOf(buf, p, n) /\ Read(ValueOf(buf, p, n), p + n).ptr = p + n
    BY DEF Read
  <2> QED BY <1>1, <2>1, <2>2, <2>3, ReadReturns
<1>4. CASE end - p < MAX_VARINT_SIZE
  <2> DEFINE i == Continued(buf, p, end - p)
             w == WORD_SHIFTED_OUT
  <2>1. i \in 0 .. end - p
    <3>1. end - p \in 0 .. end - p
      BY <1>1
    <3> QED BY <3>1, ContinuedIs
  <2>2. ReadVarint(buf, p, end) =
          IF p + w < end /\ i >= w THEN Throw("varint_too_long", p + w)
          ELSE IF p + i = end THEN Throw("unexpected_eof", end)
          ELSE Read(ValueOf(buf, p, i + 1), p + i + 1)
    BY <1>4 DEF ReadVarint, ReadVarintSlow
  <2>3. w \in Nat
    BY <1>1, WordShiftedOut
  <2> HIDE DEF i, w, Fine
  <2>4. CASE p + w < end /\ i >= w
    <3>1. p + w \in p .. end
      BY <1>1, <2>3, <2>4
    <3> QED BY <1>2, <2>2, <2>4, <3>1 DEF Fine, ReadErrors
  <2>5. CASE ~(p + w < end /\ i >= w) /\ p + i = end
    <3>1. end \in p .. end
      BY <1>1
    <3> QED BY <1>2, <2>2, <2>5, <3>1 DEF Fine, ReadErrors
  <2>6. CASE ~(p + w < end /\ i >= w) /\ p + i # end
    <3>1. i + 1 \in 1 .. end - p /\ i + 1 <= MAX_VARINT_SIZE /\ p + (i + 1) = p + i + 1
      BY <1>1, <1>4, <2>1, <2>6
    <3>2. Fine(Read(ValueOf(buf, p, i + 1), p + (i + 1)))
      BY <1>3, <3>1
    <3> QED BY <2>2, <2>6, <3>1, <3>2 DEF Fine
  <2> QED BY <2>4, <2>5, <2>6
<1>5. CASE ~(end - p < MAX_VARINT_SIZE)
  <2> DEFINE i == Continued(buf, p, MAX_VARINT_SIZE)
  <2>1. i \in 0 .. MAX_VARINT_SIZE /\ MAX_VARINT_SIZE <= end - p
    <3>1. MAX_VARINT_SIZE \in 0 .. end - p
      BY <1>1, <1>5
    <3> QED BY <1>1, <3>1, ContinuedIs
  <2>2. ReadVarint(buf, p, end) =
          IF i = MAX_VARINT_SIZE THEN Throw("varint_too_long", p)
          ELSE Read(ValueOf(buf, p, i + 1), p + i + 1)
    BY <1>5 DEF ReadVarint, ReadVarintFast
  <2> HIDE DEF i, Fine
  <2>3. CASE i = MAX_VARINT_SIZE
    <3>1. p \in p .. end
      BY <1>1
    <3> QED BY <1>2, <2>2, <2>3, <3>1 DEF Fine, ReadErrors
  <2>4. CASE i # MAX_VARINT_SIZE
    <3>1. i + 1 \in 1 .. end - p /\ i + 1 <= MAX_VARINT_SIZE /\ p + (i + 1) = p + i + 1
      BY <1>1, <2>1, <2>4
    <3>2. Fine(Read(ValueOf(buf, p, i + 1), p + (i + 1)))
      BY <1>3, <3>1
    <3> QED BY <2>2, <2>4, <3>1, <3>2 DEF Fine
  <2> QED BY <2>3, <2>4
<1> QED BY <1>4, <1>5

(* A number, past the bytes that hold it.                                  *)
LEMMA ReadFixedReturns ==
  ASSUME NEW buf, NEW p, NEW end, Slice(buf, p, end), NEW n \in {SIZE32, SIZE64}
  PROVE  /\ Returns(ReadFixed(buf, p, end, n), p, end)
         /\ ReadFixed(buf, p, end, n).val \in Nat
         /\ ReadFixed(buf, p, end, n).err = "none" => p < ReadFixed(buf, p, end, n).ptr
<1> DEFINE d == <<ByteValues, SIZE64>>
           digit == [i \in 1 .. n |-> buf[p + i]]
<1>1. p \in Nat /\ end \in Nat /\ p <= end /\ n \in Nat \ {0} /\ n <= SIZE64 /\ SIZE64 \in Nat
  BY Widths DEF Slice
<1>2. CASE end - p < n
  <2>1. ReadFixed(buf, p, end, n) = Throw("unexpected_eof", p)
    BY <1>2 DEF ReadFixed
  <2>2. p \in p .. end /\ Throw("unexpected_eof", p).val = 0 /\ Throw("unexpected_eof", p).err # "none"
    BY <1>1 DEF Throw
  <2> QED BY <1>1, <2>1, <2>2, ThrowReturns DEF ReadErrors
<1>3. CASE ~(end - p < n)
  <2>1. ReadFixed(buf, p, end, n) = Read(Assemble(digit, ByteValues, n), p + n)
    BY <1>3 DEF ReadFixed
  <2>2. \A k \in 1 .. n : digit[k] \in Nat
    <3>1. \A k \in 1 .. n : k \in 1 .. end - p
      BY <1>1, <1>3
    <3> QED BY <3>1, ByteOfSlice
  <2>3. d \in Digits /\ d[1] = ByteValues /\ d[2] = SIZE64 /\ n \in 0 .. SIZE64
    BY <1>1 DEF Digits
  <2> HIDE DEF d, digit
  <2>4. Assemble(digit, ByteValues, n) \in Nat
    BY <2>2, <2>3, AssembleType
  <2>5. p + n \in p .. end /\ p < p + n
    BY <1>1, <1>3
  <2> QED BY <1>1, <2>1, <2>4, <2>5, ReadReturns DEF Read
<1> QED BY <1>2, <1>3

-----------------------------------------------------------------------------
(* The readers of ScalarTypes.                                             *)

(* A conversion changes the value only.                                    *)
LEMMA MapReturns ==
  ASSUME NEW r, NEW p, NEW end, Returns(r, p, end), NEW x \in Int
  PROVE  /\ Returns(IF r.err = "none" THEN [r EXCEPT !.val = x] ELSE r, p, end)
         /\ (IF r.err = "none" THEN [r EXCEPT !.val = x] ELSE r).err = r.err
         /\ (IF r.err = "none" THEN [r EXCEPT !.val = x] ELSE r).ptr = r.ptr
         /\ (IF r.err = "none" THEN [r EXCEPT !.val = x] ELSE r).val = IF r.err = "none" THEN x ELSE r.val
BY DEF Returns

LEMMA HalfWords ==
  /\ U32 \div 2 \in Nat /\ U32 = 2 * (U32 \div 2)
  /\ U64 \div 2 \in Nat /\ U64 = 2 * (U64 \div 2)
<1>1. ASSUME NEW n \in 1 .. SIZE64
      PROVE  LET w == ByteValues ^ n IN w \div 2 \in Nat /\ w = 2 * (w \div 2)
  <2> DEFINE q == ByteValues ^ (n - 1)
             w == ByteValues ^ n
  <2>1. w = q * ByteValues
    BY PowerAssumption
  <2>2. q \in Nat
    <3>1. n - 1 \in 0 .. SIZE64
      BY Widths
    <3> QED BY <3>1, Powers
  <2>3. ByteValues = 2 * Base /\ Base \in Nat
    BY Widths DEF ByteValues
  <2> HIDE DEF q, w
  <2>4. w = 2 * (q * Base) /\ q * Base \in Nat
    BY <2>1, <2>2, <2>3
  <2>5. \A k \in Nat : (2 * k) \div 2 = k
    OBVIOUS
  <2>6. w \div 2 \in Nat /\ w = 2 * (w \div 2)
    BY <2>4, <2>5
  <2> QED BY <2>6 DEF w
<1>2. SIZE32 \in 1 .. SIZE64 /\ SIZE64 \in 1 .. SIZE64
  BY Widths
<1> QED BY <1>1, <1>2 DEF U32, U64

(* Reduced to a word, and to a word with a sign.                           *)
LEMMA WordTypes ==
  ASSUME NEW x \in Int
  PROVE  /\ ToU32(x) \in 0 .. U32 - 1
         /\ ToU64(x) \in 0 .. U64 - 1
         /\ ToI32(x) \in -(U32 \div 2) .. (U32 \div 2) - 1
         /\ ToI64(x) \in -(U64 \div 2) .. (U64 \div 2) - 1
<1>1. ASSUME NEW w \in Nat \ {0}, NEW h \in Nat, w = 2 * h
      PROVE  ((x + h) % w) - h \in -h .. h - 1
  <2>1. (x + h) % w \in 0 .. w - 1
    BY <1>1, Remainder
  <2> QED BY <1>1, <2>1
<1>2. U32 \in Nat \ {0} /\ U64 \in Nat \ {0}
  BY Powers
<1>3. ToI32(x) \in -(U32 \div 2) .. (U32 \div 2) - 1
  BY <1>1, <1>2, HalfWords DEF ToI32
<1>4. ToI64(x) \in -(U64 \div 2) .. (U64 \div 2) - 1
  BY <1>1, <1>2, HalfWords DEF ToI64
<1> QED BY <1>2, <1>3, <1>4, Remainder DEF ToU32, ToU64

LEMMA CastType ==
  ASSUME NEW type \in NumericTypes, NEW x \in Int
  PROVE  Cast(type, x) \in ValuesOf(type) /\ Cast(type, x) \in Int
<1>1. U32 \div 2 \in Int /\ U64 \div 2 \in Int /\ U32 \in Int /\ U64 \in Int
  BY Powers, HalfWords
<1>2. CASE type \in Signed32
  <2>1. Cast(type, x) = ToI32(x) /\ ValuesOf(type) = -(U32 \div 2) .. INT32_MAX
    BY <1>2 DEF Cast, ValuesOf, Signed32, Signed64, Unsigned32, Unsigned64
  <2> QED BY <1>1, <2>1, WordTypes DEF INT32_MAX
<1>3. CASE type \in Signed64
  <2>1. Cast(type, x) = ToI64(x) /\ ValuesOf(type) = -(U64 \div 2) .. (U64 \div 2) - 1
    BY <1>3 DEF Cast, ValuesOf, Signed32, Signed64, Unsigned32, Unsigned64
  <2> QED BY <1>1, <2>1, WordTypes
<1>4. CASE type \in Unsigned32
  <2>1. Cast(type, x) = ToU32(x) /\ ValuesOf(type) = 0 .. U32 - 1
    BY <1>4 DEF Cast, ValuesOf, Signed32, Signed64, Unsigned32, Unsigned64
  <2> QED BY <1>1, <2>1, WordTypes
<1>5. CASE type \in Unsigned64
  <2>1. Cast(type, x) = ToU64(x) /\ ValuesOf(type) = 0 .. U64 - 1
    BY <1>5 DEF Cast, ValuesOf, Signed32, Signed64, Unsigned32, Unsigned64
  <2> QED BY <1>1, <2>1, WordTypes
<1>6. CASE type = "bool"
  <2>1. Cast(type, x) = (IF x = 0 THEN 0 ELSE 1) /\ ValuesOf(type) = {0, 1}
    BY <1>6 DEF Cast, ValuesOf, Signed32, Signed64, Unsigned32, Unsigned64
  <2> QED BY <2>1
<1> QED BY <1>2, <1>3, <1>4, <1>5, <1>6
       DEF NumericTypes, IntegralTypes, VarintTypes, ZigZagTypes, Fixed32Types, Fixed64Types, FPTypes,
           Signed32, Signed64, Unsigned32, Unsigned64

(* A converted result: only the value can be another.                      *)
LEMMA Converted ==
  ASSUME NEW r, NEW p, NEW end, Returns(r, p, end), NEW x \in Int, NEW s,
         s = IF r.err = "none" THEN [r EXCEPT !.val = x] ELSE r
  PROVE  /\ Returns(s, p, end)
         /\ s.err = r.err /\ s.ptr = r.ptr
BY MapReturns

LEMMA ZigZagType ==
  ASSUME NEW u \in Nat
  PROVE  UnZigZag(u) \in Int
<1>1. u \div 2 \in Int /\ (u + 1) \div 2 \in Int
  OBVIOUS
<1> QED BY <1>1 DEF UnZigZag

(* What the two floating-point sizes make of each other.                   *)
LEMMA FPType ==
  ASSUME NEW x \in Nat
  PROVE  Narrow(x) \in Int /\ Widen(x) \in Int
<1> DEFINE q == U64 \div U32
<1>1. q \in Int
  BY Powers
<1>2. q \in Nat \ {0}
  <2>1. U32 \in Nat \ {0} /\ U64 \in Nat \ {0} /\ U32 <= U64
    BY Powers, WordsOrdered
  <2> QED BY <2>1
<1> HIDE DEF q
<1>3. x \div q \in Int /\ x * q \in Int
  BY <1>2
<1> QED BY <1>3 DEF Narrow, Widen, q

LEMMA ParseIntegerReturns ==
  ASSUME NEW buf, NEW p, NEW end, Slice(buf, p, end), NEW w
  PROVE  /\ Returns(ParseInteger(w, buf, p, end), p, end)
         /\ ParseInteger(w, buf, p, end).val \in Nat
<1> DEFINE Fine(r) == Returns(r, p, end) /\ r.val \in Nat
<1>1. CASE w = Varint
  <2>1. ParseInteger(w, buf, p, end) = ReadVarint(buf, p, end)
    BY <1>1 DEF ParseInteger, Varint, Fixed64, Fixed32
  <2>2. \A x \in 0 .. U64 - 1 : x \in Nat
    BY Powers
  <2> QED BY <2>1, <2>2, ReadVarintReturns
<1>2. CASE w = Fixed64
  <2>1. ParseInteger(w, buf, p, end) = ReadFixed(buf, p, end, SIZE64)
    BY <1>2 DEF ParseInteger, Varint, Fixed64, Fixed32
  <2> QED BY <2>1, ReadFixedReturns
<1>3. CASE w = Fixed32
  <2>1. ParseInteger(w, buf, p, end) = ReadFixed(buf, p, end, SIZE32)
    BY <1>3 DEF ParseInteger, Varint, Fixed64, Fixed32
  <2> QED BY <2>1, ReadFixedReturns
<1>4. CASE w \notin {Varint, Fixed64, Fixed32}
  <2>1. ParseInteger(w, buf, p, end) = Throw("wiretype_mismatch", p)
    BY <1>4 DEF ParseInteger
  <2>2. p \in Nat /\ end \in Nat /\ p \in p .. end
    BY DEF Slice
  <2>3. Throw("wiretype_mismatch", p).val = 0
    BY DEF Throw
  <2> QED BY <2>1, <2>2, <2>3, ThrowReturns DEF ReadErrors
<1> QED BY <1>1, <1>2, <1>3, <1>4

LEMMA ParseZigZagReturns ==
  ASSUME NEW buf, NEW p, NEW end, Slice(buf, p, end), NEW w
  PROVE  /\ Returns(ParseZigZag(w, buf, p, end), p, end)
         /\ ParseZigZag(w, buf, p, end).val \in Int
<1> DEFINE q == ParseZigZag(w, buf, p, end)
<1>1. \A r : Returns(r, p, end) => r.val \in Int
  BY DEF Returns
<1>2. CASE w = Varint
  <2> DEFINE r == ReadVarint(buf, p, end)
  <2>1. q = IF r.err = "none" THEN [r EXCEPT !.val = UnZigZag(r.val)] ELSE r
    BY <1>2 DEF ParseZigZag, Map, Varint, Fixed64, Fixed32
  <2>2. Returns(r, p, end) /\ r.val \in Nat
    <3>1. \A x \in 0 .. U64 - 1 : x \in Nat
      BY Powers
    <3> QED BY <3>1, ReadVarintReturns
  <2> HIDE DEF q, r
  <2>3. UnZigZag(r.val) \in Int
    BY <2>2, ZigZagType
  <2> QED BY <1>1, <2>1, <2>2, <2>3, Converted DEF q
<1>3. CASE w = Fixed64
  <2> DEFINE r == ReadFixed(buf, p, end, SIZE64)
  <2>1. q = IF r.err = "none" THEN [r EXCEPT !.val = ToI64(r.val)] ELSE r
    BY <1>3 DEF ParseZigZag, Map, Varint, Fixed64, Fixed32
  <2>2. Returns(r, p, end) /\ r.val \in Int
    BY ReadFixedReturns
  <2> HIDE DEF q, r
  <2>3. ToI64(r.val) \in Int
    BY <2>2, WordTypes, HalfWords
  <2> QED BY <1>1, <2>1, <2>2, <2>3, Converted DEF q
<1>4. CASE w = Fixed32
  <2> DEFINE r == ReadFixed(buf, p, end, SIZE32)
  <2>1. q = IF r.err = "none" THEN [r EXCEPT !.val = ToI32(r.val)] ELSE r
    BY <1>4 DEF ParseZigZag, Map, Varint, Fixed64, Fixed32
  <2>2. Returns(r, p, end) /\ r.val \in Int
    BY ReadFixedReturns
  <2> HIDE DEF q, r
  <2>3. ToI32(r.val) \in Int
    BY <2>2, WordTypes, HalfWords
  <2> QED BY <1>1, <2>1, <2>2, <2>3, Converted DEF q
<1>5. CASE w \notin {Varint, Fixed64, Fixed32}
  <2>1. q = Throw("wiretype_mismatch", p)
    BY <1>5 DEF ParseZigZag, Varint, Fixed64, Fixed32
  <2>2. p \in Nat /\ end \in Nat /\ p \in p .. end
    BY DEF Slice
  <2>3. Throw("wiretype_mismatch", p).val = 0
    BY DEF Throw
  <2> QED BY <2>1, <2>2, <2>3, ThrowReturns DEF ReadErrors
<1> QED BY <1>2, <1>3, <1>4, <1>5

LEMMA ParseFPReturns ==
  ASSUME NEW buf, NEW p, NEW end, Slice(buf, p, end), NEW w, NEW type
  PROVE  /\ Returns(ParseFP(type, w, buf, p, end), p, end)
         /\ ParseFP(type, w, buf, p, end).val \in Int
<1> DEFINE q == ParseFP(type, w, buf, p, end)
<1>1. \A r : Returns(r, p, end) => r.val \in Int
  BY DEF Returns
<1>2. CASE w = Fixed64
  <2> DEFINE r == ReadFixed(buf, p, end, SIZE64)
             x == IF type = "float" THEN Narrow(r.val) ELSE r.val
  <2>1. q = IF r.err = "none" THEN [r EXCEPT !.val = x] ELSE r
    BY <1>2 DEF ParseFP, Map, Fixed64, Fixed32
  <2>2. Returns(r, p, end) /\ r.val \in Nat
    BY ReadFixedReturns
  <2>3. x \in Int
    <3>1. r.val \in Int /\ Narrow(r.val) \in Int
      BY <2>2, FPType
    <3> QED BY <3>1
  <2> HIDE DEF q, r, x
  <2> QED BY <1>1, <2>1, <2>2, <2>3, Converted DEF q
<1>3. CASE w = Fixed32
  <2> DEFINE r == ReadFixed(buf, p, end, SIZE32)
             x == IF type = "float" THEN r.val ELSE Widen(r.val)
  <2>1. q = IF r.err = "none" THEN [r EXCEPT !.val = x] ELSE r
    BY <1>3 DEF ParseFP, Map, Fixed64, Fixed32
  <2>2. Returns(r, p, end) /\ r.val \in Nat
    BY ReadFixedReturns
  <2>3. x \in Int
    <3>1. r.val \in Int /\ Widen(r.val) \in Int
      BY <2>2, FPType
    <3> QED BY <3>1
  <2> HIDE DEF q, r, x
  <2> QED BY <1>1, <2>1, <2>2, <2>3, Converted DEF q
<1>4. CASE w \notin {Fixed64, Fixed32}
  <2>1. q = Throw("wiretype_mismatch", p)
    BY <1>4 DEF ParseFP, Fixed64, Fixed32
  <2>2. p \in Nat /\ end \in Nat /\ p \in p .. end
    BY DEF Slice
  <2>3. Throw("wiretype_mismatch", p).val = 0
    BY DEF Throw
  <2> QED BY <2>1, <2>2, <2>3, ThrowReturns DEF ReadErrors
<1> QED BY <1>2, <1>3, <1>4

(* get_TYPE returns a value of its type.                                   *)
LEMMA ParseScalarReturns ==
  ASSUME NEW buf, NEW p, NEW end, Slice(buf, p, end), NEW w, NEW type \in NumericTypes
  PROVE  LET r == ParseScalar(type, w, buf, p, end)
         IN  /\ Returns(r, p, end)
             /\ r.err = "none" => r.val \in ValuesOf(type)
<1> DEFINE r == CASE type \in IntegralTypes -> ParseInteger(w, buf, p, end)
                  [] type \in ZigZagTypes   -> ParseZigZag(w, buf, p, end)
                  [] type \in FPTypes       -> ParseFP(type, w, buf, p, end)
           q == ParseScalar(type, w, buf, p, end)
<1>1. type \in IntegralTypes \/ type \in ZigZagTypes \/ type \in FPTypes
  BY DEF NumericTypes
<1>2. r \in {ParseInteger(w, buf, p, end), ParseZigZag(w, buf, p, end), ParseFP(type, w, buf, p, end)}
  BY <1>1
<1>3. q = IF r.err = "none" THEN [r EXCEPT !.val = Cast(type, r.val)] ELSE r
  BY DEF ParseScalar, Map
<1> HIDE DEF r, q
<1>4. Returns(r, p, end) /\ r.val \in Int
  <2>1. \A x \in Nat : x \in Int
    OBVIOUS
  <2> QED BY <1>2, <2>1, ParseIntegerReturns, ParseZigZagReturns, ParseFPReturns
<1>5. Cast(type, r.val) \in Int /\ Cast(type, r.val) \in ValuesOf(type)
  BY <1>4, CastType
<1>6. Returns(q, p, end) /\ (q.err = "none" => q.val = Cast(type, r.val))
  BY <1>3, <1>4, <1>5, MapReturns
<1> QED BY <1>5, <1>6 DEF q

(* So does the reader of one element of a packed field, which also makes   *)
(* progress.                                                               *)
LEMMA ReadElementReturns ==
  ASSUME NEW buf, NEW p, NEW end, Slice(buf, p, end), NEW type \in NumericTypes
  PROVE  LET r == ReadElement(type, buf, p, end)
         IN  /\ Returns(r, p, end)
             /\ r.err = "none" => r.val \in ValuesOf(type) /\ p < r.ptr
<1> DEFINE v == ReadVarint(buf, p, end)
           z == Map(v, UnZigZag)
           r == CASE type \in VarintTypes                  -> v
                  [] type \in ZigZagTypes                  -> z
                  [] type \in Fixed32Types \cup {"float"}  -> ReadFixed(buf, p, end, SIZE32)
                  [] type \in Fixed64Types \cup {"double"} -> ReadFixed(buf, p, end, SIZE64)
           q == ReadElement(type, buf, p, end)
           Fine(x) == Returns(x, p, end) /\ x.val \in Int /\ (x.err = "none" => p < x.ptr)
<1>1. type \in VarintTypes \/ type \in ZigZagTypes \/ type \in Fixed32Types \cup {"float"}
        \/ type \in Fixed64Types \cup {"double"}
  BY DEF NumericTypes, IntegralTypes, FPTypes
<1>2. r \in {v, z, ReadFixed(buf, p, end, SIZE32), ReadFixed(buf, p, end, SIZE64)}
  BY <1>1
<1>3. q = IF r.err = "none" THEN [r EXCEPT !.val = Cast(type, r.val)] ELSE r
  BY DEF ReadElement, Map
<1>4. Fine(v) /\ v.val \in Nat
  <2>1. \A x \in 0 .. U64 - 1 : x \in Nat
    BY Powers
  <2> QED BY <2>1, ReadVarintReturns
<1>5. Fine(z)
  <2>1. z = IF v.err = "none" THEN [v EXCEPT !.val = UnZigZag(v.val)] ELSE v
    BY DEF Map
  <2> HIDE DEF v, z
  <2>2. UnZigZag(v.val) \in Int
    BY <1>4, ZigZagType
  <2>3. Returns(z, p, end) /\ z.err = v.err /\ z.ptr = v.ptr
    BY <1>4, <2>1, <2>2, Converted
  <2>4. z.val \in Int
    BY <2>3 DEF Returns
  <2> QED BY <1>4, <2>3, <2>4
<1>6. Fine(ReadFixed(buf, p, end, SIZE32)) /\ Fine(ReadFixed(buf, p, end, SIZE64))
  BY ReadFixedReturns
<1> HIDE DEF r, q, v, z
<1>7. Fine(r)
  BY <1>2, <1>4, <1>5, <1>6
<1>8. Cast(type, r.val) \in Int /\ Cast(type, r.val) \in ValuesOf(type)
  BY <1>7, CastType
<1>9. Returns(q, p, end) /\ q.ptr = r.ptr /\ q.err = r.err /\ (q.err = "none" => q.val = Cast(type, r.val))
  BY <1>3, <1>7, <1>8, MapReturns
<1> QED BY <1>7, <1>8, <1>9 DEF q

LEMMA AdvanceOverReturns ==
  ASSUME NEW p \in Nat, NEW end \in Nat, p <= end, NEW n \in Nat
  PROVE  LET r == AdvanceOver(p, end, n)
         IN  /\ Returns(r, p, end)
             /\ r.val \in Nat
             /\ r.err = "none" => r.ptr = p + n /\ r.val = n
<1>1. CASE end - p < n
  <2>1. AdvanceOver(p, end, n) = Throw("unexpected_eof", p)
    BY <1>1 DEF AdvanceOver
  <2>2. p \in p .. end /\ Throw("unexpected_eof", p).val = 0 /\ Throw("unexpected_eof", p).err # "none"
    BY DEF Throw
  <2> QED BY <2>1, <2>2, ThrowReturns DEF ReadErrors
<1>2. CASE ~(end - p < n)
  <2>1. AdvanceOver(p, end, n) = Read(n, p + n) /\ p + n \in p .. end
    BY <1>2 DEF AdvanceOver
  <2> QED BY <2>1, ReadReturns DEF Read
<1> QED BY <1>1, <1>2

(* The payload of a field lies between the pointer before and after it.    *)
LEMMA ParseByteArrayReturns ==
  ASSUME NEW buf, NEW p, NEW end, Slice(buf, p, end), NEW w
  PROVE  LET r == ParseByteArray(w, buf, p, end)
         IN  /\ Returns(r, p, end)
             /\ r.val \in Nat
             /\ r.err = "none" => p <= r.ptr - r.val /\ r.ptr - r.val <= r.ptr
<1> DEFINE len == ReadVarint(buf, p, end)
           r == ParseByteArray(w, buf, p, end)
<1>1. p \in Nat /\ end \in Nat /\ p <= end /\ p \in p .. end
  BY DEF Slice
<1>2. Returns(len, p, end) /\ len.val \in Nat /\ len.ptr \in p .. end /\ (len.err = "none" => p < len.ptr)
  <2>1. \A x \in 0 .. U64 - 1 : x \in Nat
    BY Powers
  <2>2. Returns(len, p, end) /\ len.val \in 0 .. U64 - 1 /\ (len.err = "none" => p < len.ptr)
    BY ReadVarintReturns
  <2> QED BY <2>1, <2>2 DEF Returns
<1>3. CASE w # Delimited
  <2>1. r = Throw("wiretype_mismatch", p)
    BY <1>3 DEF ParseByteArray
  <2>2. Throw("wiretype_mismatch", p).val = 0 /\ Throw("wiretype_mismatch", p).err # "none"
    BY DEF Throw
  <2> QED BY <1>1, <2>1, <2>2, ThrowReturns DEF ReadErrors
<1>4. CASE w = Delimited /\ len.err # "none"
  <2>1. r = len
    BY <1>4 DEF ParseByteArray, PayloadAfter
  <2> QED BY <1>2, <1>4, <2>1
<1>5. CASE w = Delimited /\ len.err = "none" /\ len.val > INT32_MAX
  <2>1. r = Throw("length_too_long", len.ptr)
    BY <1>5 DEF ParseByteArray, PayloadAfter
  <2>2. Throw("length_too_long", len.ptr).val = 0 /\ Throw("length_too_long", len.ptr).err # "none"
    BY DEF Throw
  <2> HIDE DEF len
  <2> QED BY <1>1, <1>2, <2>1, <2>2, ThrowReturns DEF ReadErrors
<1>6. CASE w = Delimited /\ len.err = "none" /\ ~(len.val > INT32_MAX)
  <2>1. r = AdvanceOver(len.ptr, end, len.val)
    BY <1>6 DEF ParseByteArray, PayloadAfter
  <2> HIDE DEF len, r
  <2>2. len.ptr \in Nat /\ len.ptr <= end /\ p < len.ptr
    BY <1>1, <1>2, <1>6
  <2>3. Returns(r, len.ptr, end) /\ r.val \in Nat /\ (r.err = "none" => r.ptr = len.ptr + len.val /\ r.val = len.val)
    BY <1>1, <1>2, <2>1, <2>2, AdvanceOverReturns
  <2>4. Returns(r, p, end)
    <3>1. len.ptr .. end \subseteq p .. end
      BY <1>1, <2>2
    <3> QED BY <2>3, <3>1 DEF Returns
  <2>5. r.err = "none" => p <= r.ptr - r.val /\ r.ptr - r.val <= r.ptr
    BY <1>1, <1>2, <2>2, <2>3
  <2> QED BY <2>3, <2>4, <2>5 DEF r
<1> QED BY <1>3, <1>4, <1>5, <1>6

LEMMA SkipFieldReturns ==
  ASSUME NEW buf, NEW p, NEW end, Slice(buf, p, end), NEW w
  PROVE  Returns(SkipField(w, buf, p, end), p, end)
<1>1. p \in Nat /\ end \in Nat /\ p <= end /\ p \in p .. end
  BY DEF Slice
<1>2. Returns(AdvanceOver(p, end, SIZE32), p, end) /\ Returns(AdvanceOver(p, end, SIZE64), p, end)
  BY <1>1, AdvanceOverReturns, Widths
<1>3. Returns(Throw("unsupported_wiretype", p), p, end)
  BY <1>1, ThrowReturns DEF ReadErrors
<1>4. Returns(ReadVarint(buf, p, end), p, end) /\ Returns(ParseByteArray(Delimited, buf, p, end), p, end)
  BY ReadVarintReturns, ParseByteArrayReturns
<1>5. SkipField(w, buf, p, end) \in
        {ReadVarint(buf, p, end), AdvanceOver(p, end, SIZE32), AdvanceOver(p, end, SIZE64),
         ParseByteArray(Delimited, buf, p, end), Throw("unsupported_wiretype", p)}
  <2>1. CASE w \in {Varint, Fixed32, Fixed64, Delimited}
    BY <2>1 DEF SkipField, Varint, Fixed32, Fixed64, Delimited
  <2>2. CASE w \notin {Varint, Fixed32, Fixed64, Delimited}
    BY <2>2 DEF SkipField, Varint, Fixed32, Fixed64, Delimited
  <2> QED BY <2>1, <2>2
<1> QED BY <1>2, <1>3, <1>4, <1>5

-----------------------------------------------------------------------------
(* What is written is read back.                                           *)

(* The n bytes at p are the n lowest digits of v, as a varint.             *)
IsVarint(buf, p, n, v) ==
  /\ \A i \in 1 .. n : buf[p + i] % Base = Digit(v, i - 1)
  /\ \A i \in 1 .. n - 1 : buf[p + i] >= Base
  /\ buf[p + n] < Base

(* Whichever of the two loops reads them, they read as v.                  *)
LEMMA VarintReadsBack ==
  ASSUME NEW buf, NEW p, NEW end, Slice(buf, p, end), NEW v \in Nat, v < U64,
         NEW n \in 1 .. MAX_VARINT_SIZE, p + n <= end, n <= WORD_SHIFTED_OUT, v < Base ^ n,
         IsVarint(buf, p, n, v)
  PROVE  ReadVarint(buf, p, end) = Read(v, p + n)
<1>1. /\ p \in Nat /\ end \in Nat /\ n \in Nat \ {0} /\ WORD_SHIFTED_OUT \in Nat
      /\ MAX_VARINT_SIZE \in Nat /\ n <= MAX_VARINT_SIZE /\ Base \in Nat \ {0}
  BY Widths, WordShiftedOut DEF Slice
<1>2. ASSUME NEW m \in 0 .. end - p, n <= m
      PROVE  Continued(buf, p, m) = n - 1
  <2> DEFINE c == Continued(buf, p, m)
  <2>1. /\ c \in 0 .. m /\ (c = m \/ buf[p + c + 1] < Base)
        /\ \A j \in 0 .. c - 1 : buf[p + j + 1] >= Base
    BY <1>2, ContinuedIs
  <2> HIDE DEF c
  <2>2. \A i \in 1 .. n : buf[p + i] \in Nat
    <3>1. \A i \in 1 .. n : i \in 1 .. end - p
      BY <1>1
    <3> QED BY <3>1, ByteOfSlice
  <2>3. ~(c < n - 1)
    <3>1. SUFFICES ASSUME c < n - 1 PROVE FALSE
      OBVIOUS
    <3>2. c + 1 \in 1 .. n - 1 /\ c + 1 \in 1 .. n /\ c # m /\ p + (c + 1) = p + c + 1
      BY <1>1, <1>2, <2>1, <3>1
    <3>3. buf[p + (c + 1)] >= Base /\ buf[p + (c + 1)] < Base /\ buf[p + (c + 1)] \in Nat
      BY <2>1, <2>2, <3>2 DEF IsVarint
    <3> QED BY <1>1, <3>3
  <2>4. ~(c > n - 1)
    <3>1. SUFFICES ASSUME c > n - 1 PROVE FALSE
      OBVIOUS
    <3>2. n - 1 \in 0 .. c - 1 /\ n \in 1 .. n /\ p + (n - 1) + 1 = p + n
      BY <1>1, <2>1, <3>1
    <3>3. buf[p + n] >= Base /\ buf[p + n] < Base /\ buf[p + n] \in Nat
      BY <2>1, <2>2, <3>2 DEF IsVarint
    <3> QED BY <1>1, <3>3
  <2> QED BY <1>1, <2>1, <2>3, <2>4 DEF c
<1>3. ValueOf(buf, p, n) = v
  <2> DEFINE d == <<Base, MAX_VARINT_SIZE>>
             digit == [i \in 1 .. n |-> buf[p + i] % Base]
  <2>1. d \in Digits /\ d[1] = Base /\ d[2] = MAX_VARINT_SIZE
    BY DEF Digits
  <2>2. \A k \in 1 .. n : digit[k] = (v \div Base ^ (k - 1)) % Base
    BY DEF IsVarint, Digit
  <2>3. n \in 0 .. MAX_VARINT_SIZE
    BY <1>1
  <2> HIDE DEF d, digit
  <2>4. Assemble(digit, Base, n) = v % Base ^ n
    BY <2>1, <2>2, <2>3, AssembleDigits
  <2>5. \A w \in Nat \ {0} : v < w => v % w = v
    OBVIOUS
  <2>6. Base ^ n \in Nat \ {0} /\ U64 \in Nat \ {0}
    BY <2>3, Powers
  <2> QED BY <2>4, <2>5, <2>6 DEF ValueOf, digit
<1>4. n - 1 + 1 = n /\ p + (n - 1) + 1 = p + n /\ p + (n - 1) # end /\ ~(n - 1 >= WORD_SHIFTED_OUT) /\ n - 1 # MAX_VARINT_SIZE
  BY <1>1
<1>5. CASE end - p < MAX_VARINT_SIZE
  <2>1. end - p \in 0 .. end - p /\ n <= end - p
    BY <1>1
  <2>2. Continued(buf, p, end - p) = n - 1
    BY <1>2, <2>1
  <2> QED BY <1>3, <1>4, <1>5, <2>2 DEF ReadVarint, ReadVarintSlow
<1>6. CASE ~(end - p < MAX_VARINT_SIZE)
  <2>1. MAX_VARINT_SIZE \in 0 .. end - p
    BY <1>1, <1>6
  <2>2. Continued(buf, p, MAX_VARINT_SIZE) = n - 1
    BY <1>1, <1>2, <2>1
  <2> QED BY <1>3, <1>4, <1>6, <2>2 DEF ReadVarint, ReadVarintFast
<1> QED BY <1>5, <1>6

(* A byte of a varint: a digit, and whether there are more.                *)
LEMMA DigitByte ==
  ASSUME NEW v \in Nat, NEW i \in 0 .. MAX_VARINT_SIZE
  PROVE  /\ Digit(v, i) \in Nat /\ Digit(v, i) < Base
         /\ Digit(v, i) % Base = Digit(v, i)
         /\ (Digit(v, i) + Base) % Base = Digit(v, i)
<1>1. Base ^ i \in Nat \ {0} /\ Base \in Nat \ {0}
  BY Powers, Widths
<1>2. v \div Base ^ i \in Nat
  BY <1>1, Quotient
<1>3. Digit(v, i) \in 0 .. Base - 1
  BY <1>1, <1>2, Remainder DEF Digit
<1>4. \A x \in 0 .. Base - 1 : x % Base = x /\ (x + Base) % Base = x /\ x \in Nat /\ x < Base
  <2>1. ASSUME NEW x \in 0 .. Base - 1
        PROVE  x % Base = x /\ (x + Base) % Base = x /\ x \in Nat /\ x < Base
    <3>1. x % Base = x /\ x \in Nat /\ x < Base
      BY <1>1
    <3>2. x + Base = 1 * Base + x /\ x + Base \in Int /\ 1 \in Int
      BY <1>1
    <3>3. (x + Base) % Base = x
      BY <1>1, <3>2, DivisionIs
    <3> QED BY <3>1, <3>3
  <2> QED BY <2>1
<1> QED BY <1>3, <1>4

(* write_varint: any word is read back, wherever its bytes stand.          *)
THEOREM WordReadsBack ==
  ASSUME NEW buf, NEW p, NEW end, Slice(buf, p, end), NEW v \in 0 .. U64 - 1,
         p + Len(VarintBytes(v)) <= end, \A i \in 1 .. Len(VarintBytes(v)) : buf[p + i] = VarintBytes(v)[i]
  PROVE  ReadVarint(buf, p, end) = Read(v, p + Len(VarintBytes(v)))
<1> DEFINE n == VarintSize(v)
           w == WORD_SHIFTED_OUT
<1>1. v \in Nat /\ v < U64 /\ v < Base ^ MAX_VARINT_SIZE /\ MAX_VARINT_SIZE \in Nat \ {0} /\ Base \in Nat \ {0}
  BY WordFitsVarint, Widths
<1>2. n \in 1 .. MAX_VARINT_SIZE /\ v < Base ^ n /\ (n > 1 => Base ^ (n - 1) <= v)
  BY <1>1, VarintSizeIs
<1> HIDE DEF n
<1>3. Len(VarintBytes(v)) = n /\ \A i \in 1 .. n : VarintBytes(v)[i] = Digit(v, i - 1) + (IF i < n THEN Base ELSE 0)
  BY <1>2, <1>1 DEF VarintBytes, n
<1>4. n <= w
  <2>1. w \in 0 .. MAX_VARINT_SIZE /\ Base ^ w >= U64 /\ U64 \in Nat \ {0} /\ \A k \in 0 .. MAX_VARINT_SIZE : Base ^ k \in Nat
    BY WordShiftedOut, Powers
  <2> HIDE DEF w
  <2>2. SUFFICES ASSUME w < n PROVE FALSE
    BY <1>1, <1>2, <2>1
  <2>3. CASE n = 1
    <3>1. w = 0 /\ Base ^ 0 = 1
      BY <1>2, <2>1, <2>2, <2>3, PowerAssumption
    <3>2. U64 > 1
      <4>1. SIZE64 - 1 \in 0 .. SIZE64 /\ SIZE64 \in 1 .. SIZE64
        BY Widths
      <4>2. ByteValues ^ SIZE64 = ByteValues ^ (SIZE64 - 1) * ByteValues /\ ByteValues ^ (SIZE64 - 1) \in Nat \ {0}
        BY <4>1, Powers, PowerAssumption
      <4>3. ByteValues \in Nat \ {0, 1}
        BY WidthAssumption DEF ByteValues
      <4> HIDE DEF w
      <4>4. \A x \in Nat \ {0} : x * ByteValues > 1
        BY <4>3
      <4> QED BY <4>2, <4>4 DEF U64
    <3> QED BY <2>1, <3>1, <3>2
  <2>4. CASE n > 1
    <3>1. Base ^ (n - 1) < U64
      <4>1. n - 1 \in 0 .. MAX_VARINT_SIZE
        BY <1>1, <1>2
      <4> QED BY <1>1, <1>2, <2>1, <2>4, <4>1
    <3>2. w = n - 1 \/ w < n - 1
      BY <1>2, <2>1, <2>2
    <3>3. w < n - 1 => Base ^ w < Base ^ (n - 1)
      BY <1>1, <1>2, <2>1, PowersGrow
    <3>4. n - 1 \in 0 .. MAX_VARINT_SIZE
      BY <1>1, <1>2
    <3> QED BY <2>1, <3>1, <3>2, <3>3, <3>4
  <2> QED BY <1>2, <2>3, <2>4
<1>5. IsVarint(buf, p, n, v)
  <2>1. ASSUME NEW i \in 1 .. n
        PROVE  /\ Digit(v, i - 1) \in Nat /\ Digit(v, i - 1) < Base
               /\ Digit(v, i - 1) % Base = Digit(v, i - 1)
               /\ (Digit(v, i - 1) + Base) % Base = Digit(v, i - 1)
    <3>1. i - 1 \in 0 .. MAX_VARINT_SIZE
      BY <1>1, <1>2
    <3> QED BY <1>1, <3>1, DigitByte
  <2>2. \A i \in 1 .. n : buf[p + i] = Digit(v, i - 1) + (IF i < n THEN Base ELSE 0)
    BY <1>3
  <2>3. \A i \in 1 .. n : buf[p + i] % Base = Digit(v, i - 1)
    <3>1. ASSUME NEW i \in 1 .. n
          PROVE  buf[p + i] % Base = Digit(v, i - 1)
      <4>1. CASE i < n
        BY <2>1, <2>2, <4>1
      <4>2. CASE ~(i < n)
        <5>1. buf[p + i] = Digit(v, i - 1) + 0 /\ Digit(v, i - 1) + 0 = Digit(v, i - 1)
          BY <2>1, <2>2, <4>2
        <5> QED BY <2>1, <5>1
      <4> QED BY <4>1, <4>2
    <3> QED BY <3>1
  <2>4. \A i \in 1 .. n - 1 : i \in 1 .. n /\ i < n
    BY <1>2
  <2>5. ASSUME NEW i \in 1 .. n - 1
        PROVE  buf[p + i] >= Base
    <3>1. buf[p + i] = Digit(v, i - 1) + Base /\ Digit(v, i - 1) \in Nat
      BY <2>1, <2>2, <2>4
    <3> QED BY <1>1, <3>1
  <2>6. n \in 1 .. n /\ ~(n < n)
    BY <1>2
  <2>7. buf[p + n] < Base
    <3>1. buf[p + n] = Digit(v, n - 1) + 0 /\ Digit(v, n - 1) \in Nat /\ Digit(v, n - 1) < Base
      BY <2>1, <2>2, <2>6
    <3> QED BY <1>1, <3>1
  <2> QED BY <2>3, <2>5, <2>7 DEF IsVarint
<1> HIDE DEF w
<1> QED BY <1>1, <1>2, <1>3, <1>4, <1>5, VarintReadsBack DEF w

(* write_varint_at: a length that fits its prefix is read back from it.    *)
THEOREM LengthReadsBack ==
  ASSUME NEW v \in Nat, v < Base ^ MAX_LENGTH_CODE_SIZE
  PROVE  LET prefix == PaddedVarint(v, MAX_LENGTH_CODE_SIZE)
         IN  ReadVarint(prefix, 0, Len(prefix)) = Read(v, MAX_LENGTH_CODE_SIZE)
<1> DEFINE n == MAX_LENGTH_CODE_SIZE
           b == PaddedVarint(v, n)
           last == v \div Base ^ (n - 1)
<1>1. /\ n \in Nat \ {0} /\ n \in 1 .. MAX_VARINT_SIZE /\ n - 1 \in 0 .. MAX_VARINT_SIZE /\ Base \in Nat \ {0, 1}
      /\ MAX_VARINT_SIZE \in Nat
  BY Widths
<1>2. b \in Seq(Byte) /\ Len(b) = n
  BY PaddedVarintType
<1>3. v < U64 /\ n <= WORD_SHIFTED_OUT
  <2>1. Base ^ n <= U64 /\ U64 \in Nat /\ Base ^ n \in Nat
    BY <1>1, Powers, PowerAssumption
  <2>2. WORD_SHIFTED_OUT \in 0 .. MAX_VARINT_SIZE /\ Base ^ WORD_SHIFTED_OUT >= U64
    BY WordShiftedOut
  <2>3. WORD_SHIFTED_OUT < n => Base ^ WORD_SHIFTED_OUT < Base ^ n
    BY <1>1, <2>2, PowersGrow
  <2>4. Base ^ WORD_SHIFTED_OUT \in Nat
    BY <2>2, Powers
  <2> QED BY <1>1, <2>1, <2>2, <2>3, <2>4
<1>4. last \in Nat /\ last < Base /\ last % Base = last /\ last % ByteValues = last /\ last = Digit(v, n - 1)
  <2> DEFINE q == Base ^ (n - 1)
  <2>1. q \in Nat \ {0} /\ Base ^ n = q * Base
    BY <1>1, Powers, PowerAssumption
  <2> HIDE DEF q
  <2>2. v \div q \in Int /\ v % q \in 0 .. q - 1 /\ v = (v \div q) * q + (v % q)
    <3>1. v \in Int
      OBVIOUS
    <3> QED BY <2>1, <3>1, Division
  <2>3. v \div q \in Nat
    BY <2>1, Quotient
  <2>4. v \div q < Base
    <3>1. SUFFICES ASSUME v \div q >= Base PROVE FALSE
      BY <1>1, <2>3
    <3>2. \A x \in Nat : x >= Base => x * q >= q * Base
      BY <1>1, <2>1
    <3>3. (v \div q) * q >= q * Base
      BY <2>3, <3>1, <3>2
    <3> DEFINE x == (v \div q) * q
               y == q * Base
    <3>4. x \in Int /\ y \in Int /\ x >= y /\ v = x + (v % q) /\ v < y
      BY <1>1, <2>1, <2>2, <2>3, <3>3
    <3> HIDE DEF x, y
    <3> QED BY <2>1, <2>2, <3>4
  <2>5. \A x \in Nat : x < Base => x % Base = x /\ x % ByteValues = x
    BY <1>1 DEF ByteValues
  <2>6. (v \div q) % Base = v \div q /\ (v \div q) % ByteValues = v \div q
    BY <2>3, <2>4, <2>5
  <2> QED BY <2>3, <2>4, <2>6 DEF q, Digit
<1>5. \A i \in 1 .. n : b[i] = IF i < n THEN Digit(v, i - 1) + Base ELSE last % ByteValues
  BY DEF PaddedVarint
<1> HIDE DEF b, last
<1>6. ASSUME NEW i \in 1 .. n
      PROVE  b[0 + i] % Base = Digit(v, i - 1) /\ (i < n => b[0 + i] >= Base)
  <2>1. 0 + i = i /\ i - 1 \in 0 .. MAX_VARINT_SIZE
    BY <1>1
  <2>2. CASE i < n
    <3>1. b[i] = Digit(v, i - 1) + Base
      BY <1>5, <2>2
    <3>2. Digit(v, i - 1) \in Nat /\ (Digit(v, i - 1) + Base) % Base = Digit(v, i - 1)
      BY <2>1, DigitByte
    <3>3. Digit(v, i - 1) + Base >= Base
      BY <1>1, <3>2
    <3> QED BY <2>1, <3>1, <3>2, <3>3
  <2>3. CASE ~(i < n)
    <3>1. i = n /\ b[i] = last
      BY <1>1, <1>4, <1>5, <2>3
    <3> QED BY <1>4, <2>1, <2>3, <3>1
  <2> QED BY <2>2, <2>3
<1>7. IsVarint(b, 0, n, v)
  <2>1. \A i \in 1 .. n - 1 : i \in 1 .. n /\ i < n
    BY <1>1
  <2>2. n \in 1 .. n /\ ~(n < n) /\ 0 + n = n
    BY <1>1
  <2>3. b[0 + n] < Base
    BY <1>4, <1>5, <2>2
  <2> QED BY <1>6, <2>1, <2>3 DEF IsVarint
<1>8. Slice(b, 0, n) /\ 0 + n = n
  BY <1>1, <1>2 DEF Slice
<1>9. ReadVarint(b, 0, n) = Read(v, 0 + n)
  <2>1. n <= n /\ 0 \in Nat
    BY <1>1
  <2> QED BY <1>1, <1>3, <1>7, <1>8, <2>1, VarintReadsBack
<1> QED BY <1>2, <1>8, <1>9 DEF b

(* write_fixed_width: a number of either size is read back.                *)
THEOREM FixedReadsBack ==
  ASSUME NEW buf, NEW p, NEW end, Slice(buf, p, end), NEW n \in {SIZE32, SIZE64},
         NEW v \in 0 .. ByteValues ^ n - 1,
         p + n <= end, \A i \in 1 .. n : buf[p + i] = FixedBytes(v, n)[i]
  PROVE  ReadFixed(buf, p, end, n) = Read(v, p + n)
<1> DEFINE d == <<ByteValues, SIZE64>>
           digit == [i \in 1 .. n |-> buf[p + i]]
<1>1. p \in Nat /\ end \in Nat /\ n \in Nat \ {0} /\ n \in 0 .. SIZE64 /\ SIZE64 \in Nat
  BY Widths DEF Slice
<1>2. v \in Nat /\ ByteValues ^ n \in Nat \ {0} /\ v < ByteValues ^ n
  BY <1>1, Powers
<1>3. ReadFixed(buf, p, end, n) = Read(Assemble(digit, ByteValues, n), p + n)
  BY <1>1 DEF ReadFixed
<1>4. \A k \in 1 .. n : digit[k] = (v \div ByteValues ^ (k - 1)) % ByteValues
  BY DEF FixedBytes
<1>5. d \in Digits /\ d[1] = ByteValues /\ d[2] = SIZE64
  BY DEF Digits
<1> HIDE DEF d, digit
<1>6. Assemble(digit, ByteValues, n) = v % ByteValues ^ n
  BY <1>1, <1>2, <1>4, <1>5, AssembleDigits
<1>7. \A w \in Nat \ {0} : v < w => v % w = v
  BY <1>2
<1> QED BY <1>2, <1>3, <1>6, <1>7

(* The two zigzag functions are inverse to each other.                     *)
THEOREM ZigZagInverse ==
  /\ \A x \in Int : ZigZag(x) \in Nat /\ UnZigZag(ZigZag(x)) = x
  /\ \A u \in Nat : ZigZag(UnZigZag(u)) = u
<1>1. ASSUME NEW x \in Int
      PROVE  ZigZag(x) \in Nat /\ UnZigZag(ZigZag(x)) = x
  <2>1. CASE x >= 0
    <3>1. (2 * x) % 2 = 0 /\ (2 * x) \div 2 = x
      BY <2>1
    <3> QED BY <2>1, <3>1 DEF ZigZag, UnZigZag
  <2>2. CASE x < 0
    <3>1. -(2 * x) - 1 \in Nat /\ (-(2 * x) - 1) % 2 # 0 /\ -(((-(2 * x) - 1) + 1) \div 2) = x
      BY <2>2
    <3> QED BY <2>2, <3>1 DEF ZigZag, UnZigZag
  <2> QED BY <2>1, <2>2
<1>2. ASSUME NEW u \in Nat
      PROVE  ZigZag(UnZigZag(u)) = u
  <2>1. CASE u % 2 = 0
    <3>1. u \div 2 >= 0 /\ 2 * (u \div 2) = u
      BY <2>1
    <3> QED BY <2>1, <3>1 DEF ZigZag, UnZigZag
  <2>2. CASE u % 2 # 0
    <3>1. ~(-((u + 1) \div 2) >= 0) /\ -(2 * (-((u + 1) \div 2))) - 1 = u
      BY <2>2
    <3> QED BY <2>2, <3>1 DEF ZigZag, UnZigZag
  <2> QED BY <2>1, <2>2
<1> QED BY <1>1, <1>2
=============================================================================
