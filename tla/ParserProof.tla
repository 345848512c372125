----------------------------- MODULE ParserProof -----------------------------
(***************************************************************************)
(* Proofs about the statements of a message, of an enum and of a file, for *)
(* every set of statements and bodies of every length, and about the       *)
(* string pool, for every set of strings and block sizes.                  *)
(*                                                                         *)
(* The parser keeps a message as six sequences and a set, each holding the *)
(* statements of some kinds; the rules are about the statements.  First it *)
(* is shown that the sequences list the statements, so that what holds of  *)
(* pairs of entries holds of pairs of statements; then that the rules fall *)
(* into those enforced at each of the three times; then, statement by      *)
(* statement, that the parser enforces exactly these.                      *)
(***************************************************************************)
EXTENDS StringPool, EnumBody, MessageBody, ProtoFile, SequenceFacts

(* Lists of what was read.                                                 *)

(* A sequence lists the values of f at the positions in M, in their order: *)
(* the position i is at place Place(M, i).                                 *)
Place(M, i) == Cardinality({j \in M : j <= i})

Lists(seq, M, f) ==
    /\ seq \in Seq({f[i] : i \in M})
    /\ IsFiniteSet(M) /\ Len(seq) = Cardinality(M)
    /\ \A i \in M : Place(M, i) \in DOMAIN seq /\ seq[Place(M, i)] = f[i]
    /\ \A k \in DOMAIN seq : \E i \in M : Place(M, i) = k
    /\ \A i, j \in M : Place(M, i) = Place(M, j) => i = j

LEMMA EmptyList ==
  ASSUME NEW f
  PROVE  Lists(<<>>, {}, f)
<1>1. <<>> \in Seq({f[i] : i \in {}}) /\ Len(<<>>) = 0 /\ DOMAIN <<>> = {}
  OBVIOUS
<1>2. IsFiniteSet({}) /\ Cardinality({}) = 0
  BY FS_EmptySet
<1> QED BY <1>1, <1>2 DEF Lists

(* What was listed before stays listed, and one more value may follow.     *)
LEMMA ListStays ==
  ASSUME NEW seq, NEW M, NEW f, NEW g, Lists(seq, M, f), \A i \in M : g[i] = f[i]
  PROVE  Lists(seq, M, g)
<1>1. {g[i] : i \in M} = {f[i] : i \in M}
  OBVIOUS
<1> QED BY <1>1 DEF Lists

LEMMA ListGrows ==
  ASSUME NEW n \in Nat, NEW M, M \subseteq 1 .. n, NEW to, to = n + 1,
         NEW seq, NEW f, NEW g, Lists(seq, M, f), \A i \in M : g[i] = f[i]
  PROVE  Lists(Append(seq, g[to]), M \cup {to}, g)
<1> DEFINE N == M \cup {to}
           new == Append(seq, g[to])
<1>1. /\ to \notin M /\ \A i \in M : i \in Nat /\ i <= to /\ ~(to <= i)
      /\ to <= to
  OBVIOUS
<1>2. IsFiniteSet(M) /\ Len(seq) = Cardinality(M) /\ Len(seq) \in Nat /\ seq \in Seq({g[i] : i \in M})
  <2>1. {g[i] : i \in M} = {f[i] : i \in M}
    OBVIOUS
  <2>2. seq \in Seq({f[i] : i \in M}) /\ IsFiniteSet(M) /\ Len(seq) = Cardinality(M)
    BY DEF Lists
  <2>3. Len(seq) \in Nat
    BY <2>2
  <2> QED BY <2>1, <2>2, <2>3
<1>3. IsFiniteSet(N) /\ Cardinality(N) = Len(seq) + 1
  BY <1>1, <1>2, FS_AddElement
<1>4. /\ new \in Seq({g[i] : i \in N}) /\ Len(new) = Len(seq) + 1
      /\ DOMAIN seq = 1 .. Len(seq) /\ DOMAIN new = 1 .. Len(seq) + 1
      /\ \A k \in 1 .. Len(seq) : new[k] = seq[k]
      /\ new[Len(seq) + 1] = g[to]
  <2> DEFINE A == {g[i] : i \in M}
             B == {g[i] : i \in N}
  <2>1. A \subseteq B /\ g[to] \in B /\ seq \in Seq(A)
    BY <1>2
  <2> HIDE DEF A, B
  <2>2. seq \in Seq(B)
    BY <2>1
  <2> QED BY <2>1, <2>2 DEF B
<1>5. \A i \in M : Place(N, i) = Place(M, i)
  <2>1. \A i \in M : {j \in N : j <= i} = {j \in M : j <= i}
    BY <1>1
  <2> QED BY <2>1 DEF Place
<1>6. Place(N, to) = Len(seq) + 1
  <2>1. {j \in N : j <= to} = N
    BY <1>1
  <2> QED BY <1>3, <2>1 DEF Place
<1>7. \A i \in M : Place(M, i) \in 1 .. Len(seq) /\ seq[Place(M, i)] = f[i]
  BY <1>4 DEF Lists
<1>8. \A i \in M : Place(M, i) # Len(seq) + 1
  BY <1>2, <1>7
<1>9. \A i \in N : Place(N, i) \in DOMAIN new /\ new[Place(N, i)] = g[i]
  <2> HIDE DEF N, new
  <2>1. ASSUME NEW i \in M
        PROVE  Place(N, i) \in DOMAIN new /\ new[Place(N, i)] = g[i]
    <3>1. Place(N, i) \in 1 .. Len(seq) /\ seq[Place(N, i)] = g[i]
      BY <1>5, <1>7
    <3> QED BY <1>2, <1>4, <3>1
  <2>2. Place(N, to) \in DOMAIN new /\ new[Place(N, to)] = g[to]
    BY <1>2, <1>4, <1>6
  <2> QED BY <2>1, <2>2 DEF N
<1>10. \A k \in DOMAIN new : \E i \in N : Place(N, i) = k
  <2>1. ASSUME NEW k \in 1 .. Len(seq)
        PROVE  \E i \in N : Place(N, i) = k
    BY <1>4, <1>5 DEF Lists
  <2>2. \A k \in DOMAIN new : k \in 1 .. Len(seq) \/ k = Len(seq) + 1
    BY <1>2, <1>4
  <2> QED BY <1>6, <2>1, <2>2
<1>11. \A i, j \in N : Place(N, i) = Place(N, j) => i = j
  BY <1>5, <1>6, <1>8 DEF Lists
<1> QED BY <1>2, <1>3, <1>4, <1>9, <1>10, <1>11 DEF Lists

(* What holds of all values, or of all pairs of them, may be read off the  *)
(* list.                                                                   *)
LEMMA ListHas ==
  ASSUME NEW seq, NEW M, NEW f, Lists(seq, M, f)
  PROVE  /\ \A i \in M : \E k \in DOMAIN seq : seq[k] = f[i]
         /\ \A k \in DOMAIN seq : \E i \in M : seq[k] = f[i]
         /\ \A i, j \in M : i # j =>
              \E k, l \in DOMAIN seq : k # l /\ seq[k] = f[i] /\ seq[l] = f[j]
         /\ \A k, l \in DOMAIN seq : k # l =>
              \E i, j \in M : i # j /\ seq[k] = f[i] /\ seq[l] = f[j]
         /\ Len(seq) = Cardinality(M) /\ DOMAIN seq = 1 .. Len(seq) /\ Len(seq) \in Nat
<1>1. /\ \A i \in M : Place(M, i) \in DOMAIN seq /\ seq[Place(M, i)] = f[i]
      /\ \A k \in DOMAIN seq : \E i \in M : Place(M, i) = k
      /\ \A i, j \in M : Place(M, i) = Place(M, j) => i = j
  BY DEF Lists
<1>2. Len(seq) = Cardinality(M) /\ DOMAIN seq = 1 .. Len(seq) /\ Len(seq) \in Nat
  BY DEF Lists
<1>3. \A i, j \in M : i # j => \E k, l \in DOMAIN seq : k # l /\ seq[k] = f[i] /\ seq[l] = f[j]
  BY <1>1
<1>4. ASSUME NEW k \in DOMAIN seq, NEW l \in DOMAIN seq, k # l
      PROVE  \E i, j \in M : i # j /\ seq[k] = f[i] /\ seq[l] = f[j]
  <2>1. PICK i \in M : Place(M, i) = k
    BY <1>1
  <2>2. PICK j \in M : Place(M, j) = l
    BY <1>1
  <2> QED BY <1>1, <1>4, <2>1, <2>2
<1> QED BY <1>1, <1>2, <1>3, <1>4

LEMMA ListSet ==
  ASSUME NEW seq, NEW M, NEW f, Lists(seq, M, f)
  PROVE  ToSet(seq) = {f[i] : i \in M}
BY ListHas DEF ToSet

-----------------------------------------------------------------------------
(* What the descriptor of a message says of the statements read.           *)

EndOfFile == [kind |-> "end_of_file"]

MapEntry(s) == [name |-> EntryName(s), key |-> s.key, value |-> s.type]
Declared(s) == [name |-> s.name, key |-> "none", value |-> "none"]

MapFieldOf(s) == [name |-> s.name, number |-> s.number, type |-> EntryName(s),
                  label |-> "repeated", oneof_index |-> 0, options |-> <<>>]

MessageTypeOK(S) ==
    /\ message_syntax \in {"proto2", "proto3"}
    /\ message_read \in Seq(S \cup {EndOfFile})
    /\ DOMAIN message = {"field", "oneof_decl", "nested_type", "enum_type"}
    /\ DOMAIN message_reserved = {"ranges", "names"}
    /\ message_status \in {"reading", "closed", "accepted", "rejected"}

(* The statements of certain kinds, and the oneofs opened up to one.       *)
Of(K) == {i \in DOMAIN message_read : Kind(i) \in K}
Opened(i) == Cardinality({j \in 1 .. i : Kind(j) = "oneof"})

Names == [i \in DOMAIN message_read |-> message_read[i].name]
Fields ==
    [i \in DOMAIN message_read |->
        IF Kind(i) = "map" THEN MapFieldOf(message_read[i])
        ELSE FieldOf(message_read[i], IF Inside(i) THEN Opened(i) ELSE 0)]
NestedTypes ==
    [i \in DOMAIN message_read |->
        IF Kind(i) = "map" THEN MapEntry(message_read[i]) ELSE Declared(message_read[i])]

NextPlace == Len(message_read) + 1

InOneof == Inside(NextPlace)

OneofIsOpen ==
    IF InOneof THEN open_oneof = Len(message.oneof_decl) /\ open_oneof # 0
    ELSE open_oneof = 0

IndicesKnown == \A i \in Of({"field"}) : Fields[i].oneof_index \in 0 .. Len(message.oneof_decl)

Describes ==
    /\ Lists(message.field, Of({"field", "map"}), Fields)
    /\ Lists(message.oneof_decl, Of({"oneof"}), Names)
    /\ Lists(message.nested_type, Of({"message", "map"}), NestedTypes)
    /\ Lists(message.enum_type, Of({"enum"}), Names)
    /\ Lists(message_reserved.ranges, Of({"reserved"}), message_read)
    /\ Lists(extensions, Of({"extensions"}), message_read)
    /\ message_reserved.names = {message_read[i].name : i \in Of({"reserved_name"})}
    /\ OneofIsOpen
    /\ IndicesKnown

-----------------------------------------------------------------------------
(* Reading one more statement.                                             *)

LEMMA ReadOne ==
  ASSUME NEW S, NEW s \in S \cup {EndOfFile}, MessageTypeOK(S), ReadingMessage(s)
  PROVE  LET n == Len(message_read)
         IN  /\ n \in Nat /\ DOMAIN message_read = 1 .. n /\ DOMAIN message_read' = 1 .. NextPlace
             /\ NextPlace = n + 1 /\ Len(message_read') = NextPlace
             /\ message_read' \in Seq(S \cup {EndOfFile})
             /\ \A i \in 1 .. n : message_read'[i] = message_read[i] /\ i \in 1 .. NextPlace /\ i # NextPlace
             /\ \A i \in 1 .. NextPlace : i \in 1 .. n \/ i = NextPlace
             /\ NextPlace \in 1 .. NextPlace /\ message_read'[NextPlace] = s
<1> DEFINE n == Len(message_read)
<1>1. message_read' = Append(message_read, s) /\ message_read \in Seq(S \cup {EndOfFile})
  BY DEF ReadingMessage, MessageTypeOK
<1>2. /\ n \in Nat /\ DOMAIN message_read = 1 .. n /\ DOMAIN message_read' = 1 .. n + 1
      /\ Len(message_read') = n + 1
      /\ message_read' \in Seq(S \cup {EndOfFile})
      /\ \A i \in 1 .. n : message_read'[i] = message_read[i]
      /\ message_read'[n + 1] = s
  BY <1>1
<1>3. NextPlace = n + 1
  BY DEF NextPlace
<1>4. /\ \A i \in 1 .. n : i \in 1 .. n + 1 /\ i # n + 1
      /\ \A i \in 1 .. n + 1 : i \in 1 .. n \/ i = n + 1
      /\ n + 1 \in 1 .. n + 1
  BY <1>2
<1> HIDE DEF n
<1> QED BY <1>2, <1>3, <1>4 DEF n

LEMMA KindsRead ==
  ASSUME NEW S, NEW s \in S \cup {EndOfFile}, MessageTypeOK(S), ReadingMessage(s)
  PROVE  /\ \A K : Of(K)' = IF s.kind \in K THEN Of(K) \cup {NextPlace} ELSE Of(K)
         /\ \A K : Of(K) \subseteq 1 .. Len(message_read)
<1>1. \A K : Of(K)' = IF s.kind \in K THEN Of(K) \cup {NextPlace} ELSE Of(K)
  BY ReadOne DEF Of, Kind
<1>2. \A K : Of(K) \subseteq 1 .. Len(message_read)
  BY ReadOne DEF Of
<1> QED BY <1>1, <1>2

(* The latest of some of the statements.                                   *)
LEMMA LatestOf ==
  ASSUME NEW n \in Nat, NEW M, M \subseteq 1 .. n, M # {}
  PROVE  Max(M) \in M /\ \A y \in M : Max(M) >= y
<1>1. M \subseteq 0 .. n
  OBVIOUS
<1> QED BY <1>1, GreatestNatural

LEMMA LatestIsLast ==
  ASSUME NEW n \in Nat, NEW M, M \subseteq 1 .. n, NEW to, to = n + 1
  PROVE  Max(M \cup {to}) = to
<1> DEFINE N == M \cup {to}
<1>1. N \subseteq 1 .. to /\ N # {} /\ to \in Nat /\ to \in N
  OBVIOUS
<1> HIDE DEF N
<1>2. Max(N) \in N /\ Max(N) >= to
  BY <1>1, LatestOf
<1>3. Max(N) \in 1 .. to
  BY <1>1, <1>2
<1>4. \A x \in 1 .. to : x >= to => x = to
  BY <1>1
<1>5. Max(N) = to
  BY <1>2, <1>3, <1>4
<1> QED BY <1>5 DEF N

(* Of a statement read before, nothing changes; whether the next statement *)
(* stands in a oneof is up to the one just read.                           *)
MarksBefore(i) == {j \in 1 .. i - 1 : message_read[j].kind \in {"oneof", "end_oneof"}}
Marks == Of({"oneof", "end_oneof"})

LEMMA InsideRead ==
  ASSUME NEW S, NEW s \in S \cup {EndOfFile}, MessageTypeOK(S), ReadingMessage(s)
  PROVE  /\ \A i \in 1 .. NextPlace : Inside(i)' <=> Inside(i)
         /\ InOneof' <=> IF s.kind \in {"oneof", "end_oneof"} THEN s.kind = "oneof" ELSE InOneof
<1> DEFINE n == Len(message_read)
<1>1. /\ n \in Nat /\ NextPlace = n + 1 /\ message_read'[NextPlace] = s
      /\ \A i \in 1 .. n : message_read'[i] = message_read[i]
      /\ DOMAIN message_read = 1 .. n /\ DOMAIN message_read' = 1 .. NextPlace
      /\ Len(message_read') = NextPlace
  BY ReadOne
<1> HIDE DEF n
<1>2. ASSUME NEW i \in 1 .. NextPlace
      PROVE  /\ MarksBefore(i)' = MarksBefore(i) /\ MarksBefore(i) \subseteq 1 .. n
             /\ MarksBefore(i) # {} => Max(MarksBefore(i)) \in 1 .. n
  <2>1. 1 .. i - 1 \subseteq 1 .. n
    BY <1>1
  <2>2. MarksBefore(i)' = MarksBefore(i) /\ MarksBefore(i) \subseteq 1 .. n
    BY <1>1, <2>1 DEF MarksBefore
  <2>3. MarksBefore(i) # {} => Max(MarksBefore(i)) \in MarksBefore(i)
    BY <1>1, <2>2, LatestOf
  <2> QED BY <2>2, <2>3
<1>3. ASSUME NEW i \in 1 .. NextPlace
      PROVE  Inside(i)' <=> Inside(i)
  <2>1. /\ Inside(i) <=> MarksBefore(i) # {} /\ message_read[Max(MarksBefore(i))].kind = "oneof"
        /\ Inside(i)' <=> MarksBefore(i)' # {} /\ message_read'[Max(MarksBefore(i)')].kind = "oneof"
    BY DEF Inside, MarksBefore
  <2> QED BY <1>1, <1>2, <2>1
<1>4. /\ InOneof <=> Marks # {} /\ message_read[Max(Marks)].kind = "oneof"
      /\ InOneof' <=> Marks' # {} /\ message_read'[Max(Marks')].kind = "oneof"
  <2>1. /\ NextPlace - 1 = n /\ DOMAIN message_read = 1 .. n
        /\ NextPlace' - 1 = NextPlace /\ DOMAIN message_read' = 1 .. NextPlace
    BY <1>1 DEF NextPlace
  <2>2. Marks = {j \in 1 .. NextPlace - 1 : message_read[j].kind \in {"oneof", "end_oneof"}}
    BY <2>1 DEF Marks, Of, Kind
  <2>3. Marks' = {j \in 1 .. NextPlace' - 1 : message_read'[j].kind \in {"oneof", "end_oneof"}}
    BY <2>1 DEF Marks, Of, Kind
  <2>4. InOneof <=> Marks # {} /\ message_read[Max(Marks)].kind = "oneof"
    BY <2>2 DEF InOneof, Inside
  <2>5. InOneof' <=> Marks' # {} /\ message_read'[Max(Marks')].kind = "oneof"
    BY <2>3 DEF InOneof, Inside
  <2> QED BY <2>4, <2>5
<1>5. /\ Marks' = IF s.kind \in {"oneof", "end_oneof"} THEN Marks \cup {NextPlace} ELSE Marks
      /\ Marks \subseteq 1 .. n
  BY KindsRead DEF Marks, n
<1>6. CASE s.kind \in {"oneof", "end_oneof"}
  <2>1. Marks' = Marks \cup {NextPlace}
    BY <1>5, <1>6
  <2>2. Max(Marks \cup {NextPlace}) = NextPlace
    BY <1>1, <1>5, LatestIsLast, ZenonT(60)
  <2>3. Max(Marks') = NextPlace /\ Marks' # {}
    BY <2>1, <2>2
  <2> QED BY <1>1, <1>3, <1>4, <1>6, <2>3
<1>7. CASE s.kind \notin {"oneof", "end_oneof"}
  <2>1. Marks # {} => Max(Marks) \in 1 .. n
    BY <1>1, <1>5, LatestOf
  <2> QED BY <1>1, <1>3, <1>4, <1>5, <1>7, <2>1
<1> QED BY <1>6, <1>7

LEMMA OpenedRead ==
  ASSUME NEW S, NEW s \in S \cup {EndOfFile}, MessageTypeOK(S), ReadingMessage(s)
  PROVE  /\ \A i \in 1 .. Len(message_read) : Opened(i)' = Opened(i)
         /\ s.kind # "oneof" => \A i : i = NextPlace => Opened(i)' = Cardinality(Of({"oneof"}))
<1> DEFINE n == Len(message_read)
<1>1. /\ n \in Nat /\ NextPlace = n + 1 /\ message_read'[NextPlace] = s
      /\ \A i \in 1 .. n : message_read'[i] = message_read[i]
      /\ DOMAIN message_read = 1 .. n
  BY ReadOne
<1> HIDE DEF n
<1>2. ASSUME NEW i \in 1 .. n
      PROVE  Opened(i)' = Opened(i)
  <2>1. 1 .. i \subseteq 1 .. n
    BY <1>1
  <2>2. {j \in 1 .. i : message_read'[j].kind = "oneof"} = {j \in 1 .. i : message_read[j].kind = "oneof"}
    BY <1>1, <2>1
  <2> QED BY <2>2 DEF Opened, Kind
<1>3. ASSUME s.kind # "oneof"
      PROVE  {j \in 1 .. n + 1 : message_read'[j].kind = "oneof"} = Of({"oneof"})
  <2>1. 1 .. n + 1 = (1 .. n) \cup {n + 1}
    BY <1>1
  <2> QED BY <1>1, <1>3, <2>1 DEF Of, Kind
<1> QED BY <1>1, <1>2, <1>3 DEF n, Opened, Kind

LEMMA ValuesRead ==
  ASSUME NEW S, NEW s \in S \cup {EndOfFile}, MessageTypeOK(S), ReadingMessage(s)
  PROVE  /\ \A i \in 1 .. Len(message_read) :
              Names'[i] = Names[i] /\ Fields'[i] = Fields[i] /\ NestedTypes'[i] = NestedTypes[i]
         /\ Names'[NextPlace] = s.name
         /\ NestedTypes'[NextPlace] = IF s.kind = "map" THEN MapEntry(s) ELSE Declared(s)
         /\ s.kind = "map" => Fields'[NextPlace] = MapFieldOf(s)
         /\ s.kind = "field" =>
              Fields'[NextPlace] = FieldOf(s, IF InOneof THEN Cardinality(Of({"oneof"})) ELSE 0)
<1> DEFINE n == Len(message_read)
<1>1. /\ n \in Nat /\ NextPlace = n + 1 /\ message_read'[NextPlace] = s
      /\ \A i \in 1 .. n : message_read'[i] = message_read[i] /\ i \in 1 .. NextPlace
      /\ DOMAIN message_read = 1 .. n /\ DOMAIN message_read' = 1 .. NextPlace
      /\ NextPlace \in 1 .. NextPlace
  BY ReadOne
<1>2. /\ \A i \in 1 .. NextPlace : Inside(i)' <=> Inside(i)
      /\ \A i \in 1 .. n : Opened(i)' = Opened(i)
      /\ s.kind # "oneof" => \A i : i = NextPlace => Opened(i)' = Cardinality(Of({"oneof"}))
  BY InsideRead, OpenedRead
<1> HIDE DEF n
<1>3. /\ \A i \in 1 .. n : Names[i] = message_read[i].name
      /\ \A i \in 1 .. NextPlace : Names'[i] = message_read'[i].name
      /\ \A i \in 1 .. n : NestedTypes[i] = IF message_read[i].kind = "map" THEN MapEntry(message_read[i]) ELSE Declared(message_read[i])
      /\ \A i \in 1 .. NextPlace : NestedTypes'[i] = IF message_read'[i].kind = "map" THEN MapEntry(message_read'[i]) ELSE Declared(message_read'[i])
  BY <1>1 DEF Names, NestedTypes, Kind, MapEntry, Declared, EntryName
<1>4. /\ \A i \in 1 .. n : Fields[i] = IF message_read[i].kind = "map" THEN MapFieldOf(message_read[i])
                                      ELSE FieldOf(message_read[i], IF Inside(i) THEN Opened(i) ELSE 0)
      /\ \A i \in 1 .. NextPlace : Fields'[i] = IF message_read'[i].kind = "map" THEN MapFieldOf(message_read'[i])
                                      ELSE FieldOf(message_read'[i], IF Inside(i)' THEN Opened(i)' ELSE 0)
  BY <1>1 DEF Fields, Kind, MapFieldOf, FieldOf, EntryName
<1>5. \A i \in 1 .. n : Names'[i] = Names[i] /\ Fields'[i] = Fields[i] /\ NestedTypes'[i] = NestedTypes[i]
  BY <1>1, <1>2, <1>3, <1>4
<1>6. Names'[NextPlace] = s.name /\ NestedTypes'[NextPlace] = IF s.kind = "map" THEN MapEntry(s) ELSE Declared(s)
  BY <1>1, <1>3
<1>7. /\ s.kind = "map" => Fields'[NextPlace] = MapFieldOf(s)
      /\ s.kind = "field" => Fields'[NextPlace] = FieldOf(s, IF InOneof THEN Cardinality(Of({"oneof"})) ELSE 0)
  BY <1>1, <1>2, <1>4 DEF InOneof
<1> QED BY <1>5, <1>6, <1>7 DEF n

(* A list of the statements of some kinds goes on with the one just read.  *)
Grown(seq, v, kind, K) == IF kind \in K THEN Append(seq, v) ELSE seq

LEMMA ListRead ==
  ASSUME NEW S, NEW s \in S \cup {EndOfFile}, MessageTypeOK(S), ReadingMessage(s), NEW K,
         NEW seq, NEW f, NEW g, Lists(seq, Of(K), f), NEW v, g[NextPlace] = v,
         \A i \in 1 .. Len(message_read) : g[i] = f[i]
  PROVE  Lists(Grown(seq, v, s.kind, K), Of(K)', g)
<1> DEFINE n == Len(message_read)
<1>1. n \in Nat /\ NextPlace = n + 1
  BY ReadOne
<1>2. Of(K) \subseteq 1 .. n /\ Of(K)' = IF s.kind \in K THEN Of(K) \cup {NextPlace} ELSE Of(K)
  BY KindsRead
<1>3. \A i \in Of(K) : g[i] = f[i]
  BY <1>2
<1> HIDE DEF n
<1>4. CASE s.kind \in K
  <2>1. Lists(Append(seq, g[NextPlace]), Of(K) \cup {NextPlace}, g)
    BY <1>1, <1>2, <1>3, ListGrows
  <2> QED BY <1>2, <1>4, <2>1 DEF Grown
<1>5. CASE s.kind \notin K
  BY <1>2, <1>3, <1>5, ListStays DEF Grown
<1> QED BY <1>4, <1>5

(* What an accepted statement leaves in the descriptor.                    *)
Recorded(s) ==
    /\ message'.field = Grown(message.field, Fields'[NextPlace], s.kind, {"field", "map"})
    /\ message'.oneof_decl = Grown(message.oneof_decl, s.name, s.kind, {"oneof"})
    /\ message'.nested_type = Grown(message.nested_type, NestedTypes'[NextPlace], s.kind, {"message", "map"})
    /\ message'.enum_type = Grown(message.enum_type, s.name, s.kind, {"enum"})
    /\ message_reserved'.ranges = Grown(message_reserved.ranges, s, s.kind, {"reserved"})
    /\ message_reserved'.names =
         IF s.kind = "reserved_name" THEN message_reserved.names \cup {s.name} ELSE message_reserved.names
    /\ extensions' = Grown(extensions, s, s.kind, {"extensions"})
    /\ open_oneof' = IF s.kind = "oneof" THEN Len(message.oneof_decl) + 1
                     ELSE IF s.kind = "end_oneof" THEN 0 ELSE open_oneof

LEMMA DescribesRead ==
  ASSUME NEW S, NEW s \in S, MessageTypeOK(S), ReadingMessage(s), Describes, Recorded(s)
  PROVE  Describes'
<1> DEFINE n == Len(message_read)
<1>1. /\ \A i \in 1 .. n : Names'[i] = Names[i] /\ Fields'[i] = Fields[i] /\ NestedTypes'[i] = NestedTypes[i]
      /\ \A i \in 1 .. n : message_read'[i] = message_read[i]
      /\ Names'[NextPlace] = s.name /\ message_read'[NextPlace] = s
  BY ValuesRead, ReadOne
<1>2. /\ \A K : Of(K)' = IF s.kind \in K THEN Of(K) \cup {NextPlace} ELSE Of(K)
      /\ \A K : Of(K) \subseteq 1 .. n
  BY KindsRead
<1>3. Lists(message'.field, Of({"field", "map"})', Fields')
  <2>1. Lists(message.field, Of({"field", "map"}), Fields) /\ message'.field = Grown(message.field, Fields'[NextPlace], s.kind, {"field", "map"})
    BY DEF Describes, Recorded
  <2>2. Lists(Grown(message.field, Fields'[NextPlace], s.kind, {"field", "map"}), Of({"field", "map"})', Fields')
    BY <1>1, <2>1, ListRead
  <2> QED BY <2>1, <2>2
<1>4. Lists(message'.oneof_decl, Of({"oneof"})', Names')
  <2>1. Lists(message.oneof_decl, Of({"oneof"}), Names) /\ message'.oneof_decl = Grown(message.oneof_decl, s.name, s.kind, {"oneof"})
    BY DEF Describes, Recorded
  <2>2. Lists(Grown(message.oneof_decl, s.name, s.kind, {"oneof"}), Of({"oneof"})', Names')
    BY <1>1, <2>1, ListRead
  <2> QED BY <2>1, <2>2
<1>5. Lists(message'.nested_type, Of({"message", "map"})', NestedTypes')
  <2>1. Lists(message.nested_type, Of({"message", "map"}), NestedTypes) /\ message'.nested_type = Grown(message.nested_type, NestedTypes'[NextPlace], s.kind, {"message", "map"})
    BY DEF Describes, Recorded
  <2>2. Lists(Grown(message.nested_type, NestedTypes'[NextPlace], s.kind, {"message", "map"}), Of({"message", "map"})', NestedTypes')
    BY <1>1, <2>1, ListRead
  <2> QED BY <2>1, <2>2
<1>6. Lists(message'.enum_type, Of({"enum"})', Names')
  <2>1. Lists(message.enum_type, Of({"enum"}), Names) /\ message'.enum_type = Grown(message.enum_type, s.name, s.kind, {"enum"})
    BY DEF Describes, Recorded
  <2>2. Lists(Grown(message.enum_type, s.name, s.kind, {"enum"}), Of({"enum"})', Names')
    BY <1>1, <2>1, ListRead
  <2> QED BY <2>1, <2>2
<1>7. Lists(message_reserved'.ranges, Of({"reserved"})', message_read')
  <2>1. Lists(message_reserved.ranges, Of({"reserved"}), message_read) /\ message_reserved'.ranges = Grown(message_reserved.ranges, s, s.kind, {"reserved"})
    BY DEF Describes, Recorded
  <2>2. Lists(Grown(message_reserved.ranges, s, s.kind, {"reserved"}), Of({"reserved"})', message_read')
    BY <1>1, <2>1, ListRead
  <2> QED BY <2>1, <2>2
<1>8. Lists(extensions', Of({"extensions"})', message_read')
  <2>1. Lists(extensions, Of({"extensions"}), message_read) /\ extensions' = Grown(extensions, s, s.kind, {"extensions"})
    BY DEF Describes, Recorded
  <2>2. Lists(Grown(extensions, s, s.kind, {"extensions"}), Of({"extensions"})', message_read')
    BY <1>1, <2>1, ListRead
  <2> QED BY <2>1, <2>2
<1>9. message_reserved'.names = {message_read'[i].name : i \in Of({"reserved_name"})'}
  <2>1. \A i \in Of({"reserved_name"}) : message_read'[i] = message_read[i]
    BY <1>1, <1>2
  <2>2. Of({"reserved_name"})' = IF s.kind = "reserved_name" THEN Of({"reserved_name"}) \cup {NextPlace} ELSE Of({"reserved_name"})
    BY <1>2
  <2> QED BY <1>1, <2>1, <2>2 DEF Describes, Recorded
<1>10. /\ Len(message.oneof_decl) \in Nat /\ Len(message.oneof_decl) = Cardinality(Of({"oneof"}))
       /\ Len(message'.oneof_decl) = IF s.kind = "oneof" THEN Len(message.oneof_decl) + 1 ELSE Len(message.oneof_decl)
  <2>1. Len(message.oneof_decl) \in Nat /\ Len(message.oneof_decl) = Cardinality(Of({"oneof"}))
    BY ListHas DEF Describes
  <2>2. message.oneof_decl \in Seq({Names[i] : i \in Of({"oneof"})})
    BY DEF Describes, Lists
  <2>3. \A A : \A q \in Seq(A) : \A e : Len(Append(q, e)) = Len(q) + 1
    OBVIOUS
  <2> QED BY <2>1, <2>2, <2>3 DEF Recorded, Grown
<1>11. OneofIsOpen'
  BY <1>10, InsideRead DEF Describes, OneofIsOpen, Recorded
<1>12. IndicesKnown'
  <2>1. ASSUME NEW i \in Of({"field"})
        PROVE  Fields'[i].oneof_index \in 0 .. Len(message'.oneof_decl)
    <3>1. Fields'[i] = Fields[i] /\ Fields[i].oneof_index \in 0 .. Len(message.oneof_decl)
      BY <1>1, <1>2 DEF Describes, IndicesKnown
    <3> QED BY <1>10, <3>1
  <2>2. ASSUME s.kind = "field"
        PROVE  Fields'[NextPlace].oneof_index \in 0 .. Len(message'.oneof_decl)
    <3> DEFINE k == IF InOneof THEN Cardinality(Of({"oneof"})) ELSE 0
    <3>1. Fields'[NextPlace] = FieldOf(s, k)
      BY <2>2, ValuesRead
    <3>2. k \in 0 .. Len(message'.oneof_decl)
      BY <1>10, <2>2
    <3> HIDE DEF k
    <3>3. FieldOf(s, k).oneof_index = k
      BY DEF FieldOf
    <3> QED BY <3>1, <3>2, <3>3
  <2> QED BY <1>2, <2>1, <2>2 DEF IndicesKnown
<1> QED BY <1>3, <1>4, <1>5, <1>6, <1>7, <1>8, <1>9, <1>11, <1>12 DEF Describes

-----------------------------------------------------------------------------
(* The rules, by the time at which the parser enforces them.               *)

(* Sound and Compatible, of statements rather than positions.              *)
RangeSound(s) == {s.first, s.last} \subseteq RangeEnd /\ s.first <= s.last

Judged(s, in_oneof) ==
    CASE s.kind = "field" ->
           /\ s.label \in Labels(in_oneof) /\ s.type # "group" /\ IsFieldNumber(s.number)
           /\ OptionsAllowed(s) /\ DefaultRule(s, in_oneof) /\ PackedRule(s)
      [] s.kind = "map" -> MapAllowed(s) /\ ~in_oneof
      [] s.kind \in {"reserved", "extensions"} ->
           /\ {s.first, s.last} \subseteq RangeEnd /\ s.first <= s.last
           /\ ~in_oneof /\ (s.kind = "extensions" => message_syntax = "proto2")
      [] s.kind \in {"reserved_name", "message", "enum", "oneof"} -> ~in_oneof
      [] s.kind = "end_oneof" -> in_oneof
      [] s.kind = "end_of_file" -> FALSE

Disjoint(r, t) == r.last < t.first \/ t.last < r.first
TypeNamed(s) == IF s.kind = "map" THEN EntryName(s) ELSE s.name

Agree(s, t) ==
    /\ s.kind \in {"field", "map"} /\ t.kind \in {"field", "map"} => s.name # t.name /\ s.number # t.number
    /\ s.kind \in {"field", "map"} /\ t.kind \in {"reserved", "extensions"} =>
         s.number < t.first \/ t.last < s.number
    /\ s.kind \in {"reserved", "extensions"} /\ t.kind \in {"reserved", "extensions"} => Disjoint(s, t)
    /\ s.kind \in {"field", "map"} /\ t.kind = "reserved_name" => s.name # t.name
    /\ s.kind = t.kind /\ s.kind \in {"reserved_name", "oneof"} => s.name # t.name
    /\ s.kind \in {"message", "enum", "map"} /\ t.kind \in {"message", "enum", "map"} =>
         TypeNamed(s) # TypeNamed(t)

LEMMA RulesAre ==
  /\ \A i : Sound(i) <=> Judged(message_read[i], Inside(i))
  /\ \A i, j : Compatible(i, j) <=> Agree(message_read[i], message_read[j])
<1>1. \A i : Sound(i) <=> Judged(message_read[i], Inside(i))
  BY DEF Sound, Judged, Kind, IsRange
<1>2. \A i, j : Compatible(i, j) <=> Agree(message_read[i], message_read[j])
  BY DEF Compatible, Agree, Kind, IsRange, Member, NamesType, TypeNameOf, TypeNamed, Disjoint
<1> QED BY <1>1, <1>2

(* What the parser asks of a statement when it reads it, and what it leaves*)
(* to the semantic pass.                                                   *)
Early(s, in_oneof) ==
    /\ s.kind = "field" => FieldAllowed(s, in_oneof)
    /\ s.kind = "map" => MapAllowed(s)
    /\ s.kind \in {"reserved", "extensions"} => RangeSound(s)
    /\ s.kind = "extensions" => message_syntax = "proto2"
    /\ s.kind \in {"map", "reserved", "extensions", "reserved_name", "message", "enum", "oneof"} => ~in_oneof
    /\ s.kind = "end_oneof" => in_oneof
    /\ s.kind # "end_of_file"

Late(s) ==
    s.kind = "field" =>
        /\ PackedRule(s)
        /\ Has(s, "default") => ValidDefault(s.type, Option(s, "default"))

Integral == Signed \cup Unsigned

LEMMA TypesOf ==
  ASSUME NEW name
  PROVE  /\ TypeOf(name) \in Integral <=> name \in Integral
         /\ name \in Integral => TypeOf(name) = name
         /\ TypeOf(name) = "message" /\ ~Unresolved(name) <=>
              name \in DOMAIN LocalTypes /\ LocalTypes[name] = "message"
<1>1. Integral \subseteq Builtin /\ "message" \notin Builtin /\ "message" \notin Integral /\ "enum" \notin Integral
  BY DEF Integral, Builtin, Signed, Unsigned
<1>2. name \in DOMAIN LocalTypes => name \notin Builtin /\ LocalTypes[name] \in {"message", "enum"}
  BY TypesAssumption
<1>3. name \in Builtin => TypeOf(name) = name
  BY <1>2 DEF TypeOf
<1>4. name \in DOMAIN LocalTypes => TypeOf(name) = LocalTypes[name]
  BY <1>2 DEF TypeOf
<1>5. name \notin Builtin /\ name \notin DOMAIN LocalTypes => TypeOf(name) = "message"
  BY DEF TypeOf
<1> QED BY <1>1, <1>2, <1>3, <1>4, <1>5 DEF Unresolved

(* parse_signed_32 and its siblings accept the range of the type.          *)
LEMMA FitsIs ==
  ASSUME NEW type \in Integral, NEW c, c.magnitude \in Nat
  PROVE  LET number == IF c.sign = "-" THEN -c.magnitude ELSE c.magnitude
         IN  Fits(type, c) <=> /\ number \in Least(type) .. Greatest(type)
                               /\ type \in Unsigned => c.sign # "-"
<1> DEFINE word == IF type \in Wide THEN U64 ELSE U32
           half == word \div 2
           m == c.magnitude
<1>1. word \in Nat /\ word = 2 * half /\ half \in Nat \ {0} /\ m \in Nat
  <2>1. word \in {U32, U64}
    OBVIOUS
  <2>2. word \in Nat \ {0} /\ word % 2 = 0
    BY <2>1, TypesAssumption
  <2> HIDE DEF word
  <2> QED BY <2>2
<1>2. /\ Least(type) = IF type \in Unsigned THEN 0 ELSE -half
      /\ Greatest(type) = Least(type) + word - 1
  BY DEF Least, Greatest
<1>3. type \in Unsigned => type \notin Signed
  BY DEF Signed, Unsigned
<1>4. Fits(type, c) <=> IF type \in Unsigned THEN c.sign # "-" /\ m < word
                        ELSE IF c.sign = "-" THEN m <= half ELSE m < half
  BY <1>3 DEF Fits, Integral
<1> HIDE DEF word, half, m
<1>5. CASE type \in Unsigned
  <2>1. Least(type) = 0 /\ Greatest(type) = word - 1
    BY <1>1, <1>2, <1>5
  <2>2. c.sign # "-" => (m \in 0 .. word - 1 <=> m < word)
    BY <1>1
  <2> QED BY <1>4, <1>5, <2>1, <2>2 DEF m
<1>6. CASE type \notin Unsigned
  <2>1. Least(type) = -half /\ Greatest(type) = half - 1
    BY <1>1, <1>2, <1>6
  <2>2. /\ -m \in -half .. half - 1 <=> m <= half
        /\ m \in -half .. half - 1 <=> m < half
    BY <1>1
  <2> QED BY <1>4, <1>6, <2>1, <2>2 DEF m
<1> QED BY <1>5, <1>6

LEMMA SoundIsEarlyAndLate ==
  ASSUME NEW s, WellFormed(s) \/ s = EndOfFile, NEW in_oneof \in BOOLEAN, message_syntax \in {"proto2", "proto3"}
  PROVE  Judged(s, in_oneof) <=> Early(s, in_oneof) /\ Late(s)
<1>1. CASE s.kind = "field"
  <2> DEFINE c == Option(s, "default")
  <2>1. s.label \in {"none", "optional", "required", "repeated"}
    BY <1>1 DEF WellFormed, EndOfFile
  <2>2. LabelAllowed(s, in_oneof) <=> s.label \in Labels(in_oneof)
    BY <2>1 DEF LabelAllowed, Labels
  <2>3. ASSUME s.label \in Labels(in_oneof)
        PROVE  DefaultRule(s, in_oneof) <=>
                 DefaultAllowed(s, in_oneof) /\ (Has(s, "default") => ValidDefault(s.type, c))
    <3>1. CASE ~Has(s, "default")
      BY <3>1 DEF DefaultRule, DefaultAllowed
    <3>2. CASE Has(s, "default")
      <4> DEFINE number == IF c.sign = "-" THEN -c.magnitude ELSE c.magnitude
      <4>1. /\ message_syntax = "proto2" /\ s.label \in {"optional", "required"} /\ ~in_oneof
            <=> message_syntax # "proto3" /\ s.label # "repeated" /\ ~in_oneof
        BY <2>1, <2>3 DEF Labels
      <4>2. c.kind = "integer" => c.magnitude \in Nat
        <5>1. PICK i \in DOMAIN s.options : c = s.options[i].value
          BY <3>2 DEF Has, Option, Options
        <5> QED BY <1>1, <5>1 DEF WellFormed, EndOfFile
      <4>3. s.type \in Integral /\ c.kind \in DefaultKinds(s.type) => c.kind = "integer"
        BY DEF DefaultKinds, Integral, Signed, Unsigned
      <4>4. ASSUME c.kind \in DefaultKinds(s.type)
            PROVE  ValidDefault(s.type, c) <=>
                     /\ s.type \in Integral => number \in Least(s.type) .. Greatest(s.type)
                     /\ s.type \in Unsigned => c.sign # "-"
                     /\ s.type \in DOMAIN LocalTypes => LocalTypes[s.type] = "enum"
        <5>1. s.type \in DOMAIN LocalTypes => LocalTypes[s.type] \in {"message", "enum"} /\ s.type \notin Builtin
          BY TypesAssumption
        <5>2. Integral \subseteq Builtin /\ Unsigned \subseteq Integral /\ "message" \notin Integral
          BY DEF Integral, Builtin, Signed, Unsigned
        <5>3. CASE s.type \in Integral
          <6>1. ValidDefault(s.type, c) <=> Fits(s.type, c)
            BY <5>2, <5>3, TypesOf DEF ValidDefault, Integral
          <6>2. Fits(s.type, c) <=> number \in Least(s.type) .. Greatest(s.type) /\ (s.type \in Unsigned => c.sign # "-")
            BY <4>2, <4>3, <4>4, <5>3, FitsIs
          <6> QED BY <5>1, <5>2, <5>3, <6>1, <6>2
        <5>4. CASE s.type \notin Integral
          <6>1. ValidDefault(s.type, c) <=> (TypeOf(s.type) = "message" => Unresolved(s.type))
            BY <5>4, TypesOf DEF ValidDefault, Integral
          <6> QED BY <5>1, <5>2, <5>4, <6>1, TypesOf
        <5> QED BY <5>3, <5>4
      <4> HIDE DEF c
      <4>5. DefaultRule(s, in_oneof) <=>
              /\ message_syntax = "proto2" /\ s.label \in {"optional", "required"} /\ ~in_oneof
              /\ c.kind \in DefaultKinds(s.type)
              /\ s.type \in Integral => number \in Least(s.type) .. Greatest(s.type)
              /\ s.type \in Unsigned => c.sign # "-"
              /\ s.type \in DOMAIN LocalTypes => LocalTypes[s.type] = "enum"
        BY <3>2 DEF DefaultRule, Integral, c
      <4>6. DefaultAllowed(s, in_oneof) <=>
              /\ message_syntax # "proto3" /\ s.label # "repeated" /\ ~in_oneof
              /\ c.kind \in DefaultKinds(s.type)
        BY <3>2 DEF DefaultAllowed, c
      <4> HIDE DEF number
      <4> QED BY <3>2, <4>1, <4>4, <4>5, <4>6
    <3> QED BY <3>1, <3>2
  <2>4. Judged(s, in_oneof) <=>
          /\ s.label \in Labels(in_oneof) /\ s.type # "group" /\ IsFieldNumber(s.number)
          /\ OptionsAllowed(s) /\ DefaultRule(s, in_oneof) /\ PackedRule(s)
    BY <1>1 DEF Judged
  <2>5. Early(s, in_oneof) <=> FieldAllowed(s, in_oneof)
    BY <1>1 DEF Early
  <2>6. Late(s) <=> PackedRule(s) /\ (Has(s, "default") => ValidDefault(s.type, c))
    BY <1>1 DEF Late
  <2> HIDE DEF c
  <2> QED BY <2>2, <2>3, <2>4, <2>5, <2>6 DEF FieldAllowed
<1>2. CASE s.kind # "field"
  <2>1. Late(s)
    BY <1>2 DEF Late
  <2>2. s.kind \in {"map", "oneof", "end_oneof", "message", "enum", "reserved", "reserved_name", "extensions", "end_of_file"}
    BY <1>2 DEF WellFormed, EndOfFile
  <2> QED BY <1>2, <2>1, <2>2 DEF Judged, Early, RangeSound
<1> QED BY <1>1, <1>2

(* What two statements must satisfy together, by the time at which it is   *)
(* checked: when the second is read, at the closing brace, at the end of   *)
(* the file.                                                               *)
EarlyAgree(s, t) ==
    /\ s.kind = t.kind /\ s.kind \in {"reserved", "extensions"} => Disjoint(s, t)
    /\ s.kind = t.kind /\ s.kind \in {"reserved_name", "oneof"} => s.name # t.name

CloseAgree(s, t) ==
    /\ s.kind \in {"field", "map"} /\ t.kind \in {"reserved", "extensions"} =>
         s.number < t.first \/ t.last < s.number
    /\ s.kind = "reserved" /\ t.kind = "extensions" => Disjoint(s, t)
    /\ s.kind \in {"field", "map"} /\ t.kind = "reserved_name" => s.name # t.name

LateAgree(s, t) ==
    /\ s.kind \in {"field", "map"} /\ t.kind \in {"field", "map"} => s.name # t.name /\ s.number # t.number
    /\ s.kind \in {"message", "enum", "map"} /\ t.kind \in {"message", "enum", "map"} =>
         TypeNamed(s) # TypeNamed(t)

KeptEarly ==
    /\ \A i \in DOMAIN message_read : Early(message_read[i], Inside(i))
    /\ \A i, j \in DOMAIN message_read : i # j => EarlyAgree(message_read[i], message_read[j])

KeptAtClose ==
    \A i, j \in DOMAIN message_read : i # j => CloseAgree(message_read[i], message_read[j])

KeptLate ==
    /\ \A i \in DOMAIN message_read : Late(message_read[i])
    /\ \A i, j \in DOMAIN message_read : i # j => LateAgree(message_read[i], message_read[j])

(* No rule is left out and none is added: the three times make up the      *)
(* rules on the statements in whatever order.                              *)
LEMMA RulesByTime ==
  ASSUME NEW S, \A s \in S : WellFormed(s), MessageTypeOK(S)
  PROVE  Rules <=> KeptEarly /\ KeptAtClose /\ KeptLate
<1>1. ASSUME NEW i \in DOMAIN message_read
      PROVE  Sound(i) <=> Early(message_read[i], Inside(i)) /\ Late(message_read[i])
  <2>1. WellFormed(message_read[i]) \/ message_read[i] = EndOfFile
    BY DEF MessageTypeOK
  <2>2. Inside(i) \in BOOLEAN /\ message_syntax \in {"proto2", "proto3"}
    BY DEF Inside, MessageTypeOK
  <2>3. Judged(message_read[i], Inside(i)) <=> Early(message_read[i], Inside(i)) /\ Late(message_read[i])
    BY <2>1, <2>2, SoundIsEarlyAndLate
  <2> QED BY <2>3, RulesAre
<1>2. \A s, t : Agree(s, t) /\ Agree(t, s) <=>
                  /\ EarlyAgree(s, t) /\ EarlyAgree(t, s)
                  /\ CloseAgree(s, t) /\ CloseAgree(t, s)
                  /\ LateAgree(s, t) /\ LateAgree(t, s)
  BY DEF Agree, EarlyAgree, CloseAgree, LateAgree, Disjoint
<1>3. (\A i, j \in DOMAIN message_read : i # j => Compatible(i, j)) <=>
      (\A i, j \in DOMAIN message_read : i # j =>
          /\ Agree(message_read[i], message_read[j])
          /\ Agree(message_read[j], message_read[i]))
  BY RulesAre
<1> QED BY <1>1, <1>2, <1>3 DEF Rules, KeptEarly, KeptAtClose, KeptLate

(* The next statement keeps the rules if it keeps them by itself and with  *)
(* each statement before it.                                               *)
LEMMA KeptRead ==
  ASSUME NEW S, NEW s \in S \cup {EndOfFile}, MessageTypeOK(S), ReadingMessage(s), KeptEarly
  PROVE  KeptEarly' <=>
           /\ Early(s, InOneof)
           /\ \A i \in DOMAIN message_read : EarlyAgree(message_read[i], s)
<1> DEFINE n == Len(message_read)
<1>1. /\ DOMAIN message_read = 1 .. n /\ DOMAIN message_read' = 1 .. NextPlace
      /\ \A i \in 1 .. n : message_read'[i] = message_read[i] /\ i \in 1 .. NextPlace /\ i # NextPlace
      /\ \A i \in 1 .. NextPlace : i \in 1 .. n \/ i = NextPlace
      /\ NextPlace \in 1 .. NextPlace /\ message_read'[NextPlace] = s
  BY ReadOne
<1> HIDE DEF n
<1>2. message_syntax' = message_syntax
  BY DEF ReadingMessage
<1>3. \A t, b : Early(t, b)' <=> Early(t, b)
  BY <1>2 DEF Early, FieldAllowed, LabelAllowed, DefaultAllowed, MapAllowed
<1>4. ASSUME NEW i \in 1 .. NextPlace
      PROVE  Early(message_read[i], Inside(i))' <=> Early(message_read'[i], Inside(i))
  BY <1>2, <1>4, InsideRead DEF Early, FieldAllowed, LabelAllowed, DefaultAllowed, MapAllowed
<1>5. (\A i \in DOMAIN message_read : Early(message_read[i], Inside(i)))' <=> Early(s, InOneof)
  BY <1>1, <1>4 DEF KeptEarly, InOneof
<1>6. \A t, u : EarlyAgree(t, u) <=> EarlyAgree(u, t)
  BY DEF EarlyAgree, Disjoint
<1>7. (\A i, j \in DOMAIN message_read : i # j => EarlyAgree(message_read[i], message_read[j]))' <=>
      \A i \in DOMAIN message_read : EarlyAgree(message_read[i], s)
  <2>1. (\A i, j \in DOMAIN message_read : i # j => EarlyAgree(message_read[i], message_read[j]))' <=>
        \A i, j \in 1 .. NextPlace : i # j => EarlyAgree(message_read'[i], message_read'[j])
    BY <1>1 DEF EarlyAgree, Disjoint
  <2> QED BY <1>1, <1>6, <2>1 DEF KeptEarly
<1> QED BY <1>5, <1>7 DEF KeptEarly

-----------------------------------------------------------------------------
(* Each statement is either recorded, and the rules kept so far stay kept, *)
(* or refused because it breaks one of them.                               *)

Outcome(s) ==
    \/ message_status' = "reading" /\ Recorded(s) /\ KeptEarly'
    \/ message_status' = "rejected" /\ ~KeptEarly'

LEMMA OpenIs ==
  ASSUME Describes
  PROVE  /\ InOneof <=> open_oneof # 0
         /\ open_oneof = IF InOneof THEN Cardinality(Of({"oneof"})) ELSE 0
<1>1. Len(message.oneof_decl) = Cardinality(Of({"oneof"}))
  BY ListHas DEF Describes
<1> QED BY <1>1 DEF Describes, OneofIsOpen

LEMMA FieldOutcome ==
  ASSUME NEW S, NEW s \in S, MessageTypeOK(S), Describes, KeptEarly, ParseMessageField(s)
  PROVE  Outcome(s)
<1>1. s.kind = "field" /\ ReadingMessage(s) /\ message_status = "reading"
  BY DEF ParseMessageField, ReadingMessage
<1>2. Early(s, InOneof) <=> FieldAllowed(s, open_oneof # 0)
  <2>1. Early(s, InOneof) <=> FieldAllowed(s, InOneof)
    BY <1>1 DEF Early
  <2>2. InOneof = (open_oneof # 0)
    BY OpenIs DEF InOneof, Inside
  <2> QED BY <2>1, <2>2
<1>3. \A i \in DOMAIN message_read : EarlyAgree(message_read[i], s)
  BY <1>1 DEF EarlyAgree
<1>4. KeptEarly' <=> FieldAllowed(s, open_oneof # 0)
  BY <1>1, <1>2, <1>3, KeptRead
<1>5. CASE FieldAllowed(s, open_oneof # 0)
  <2>1. /\ message' = [message EXCEPT !.field = Append(@, FieldOf(s, open_oneof))]
        /\ UNCHANGED <<message_reserved, extensions, open_oneof, message_status>>
    BY <1>5 DEF ParseMessageField
  <2>2. Fields'[NextPlace] = FieldOf(s, open_oneof)
    BY <1>1, ValuesRead, OpenIs
  <2>3. Recorded(s)
    <3> DEFINE f == FieldOf(s, open_oneof)
    <3> HIDE DEF f
    <3>1. /\ message'.field = Append(message.field, f) /\ message'.oneof_decl = message.oneof_decl
          /\ message'.nested_type = message.nested_type /\ message'.enum_type = message.enum_type
      BY <2>1 DEF MessageTypeOK, f
    <3>2. Fields'[NextPlace] = f
      BY <2>2 DEF f
    <3> QED BY <1>1, <2>1, <3>1, <3>2 DEF Recorded, Grown
  <2> QED BY <1>1, <1>4, <1>5, <2>1, <2>3 DEF Outcome
<1>6. CASE ~FieldAllowed(s, open_oneof # 0)
  BY <1>4, <1>6 DEF ParseMessageField, RejectMessage, Outcome
<1> QED BY <1>5, <1>6

LEMMA MapOutcome ==
  ASSUME NEW S, NEW s \in S, MessageTypeOK(S), Describes, KeptEarly, ParseMap(s)
  PROVE  Outcome(s)
<1>1. s.kind = "map" /\ ReadingMessage(s) /\ message_status = "reading"
  BY DEF ParseMap, ReadingMessage
<1>2. Early(s, InOneof) <=> open_oneof = 0 /\ MapAllowed(s)
  BY <1>1, OpenIs DEF Early
<1>3. \A i \in DOMAIN message_read : EarlyAgree(message_read[i], s)
  BY <1>1 DEF EarlyAgree
<1>4. KeptEarly' <=> open_oneof = 0 /\ MapAllowed(s)
  BY <1>1, <1>2, <1>3, KeptRead
<1>5. CASE open_oneof = 0 /\ MapAllowed(s)
  <2>1. /\ message' = [message EXCEPT !.field = Append(@, MapFieldOf(s)),
                                      !.nested_type = Append(@, MapEntry(s))]
        /\ UNCHANGED <<message_reserved, extensions, open_oneof, message_status>>
    BY <1>5 DEF ParseMap, MapFieldOf, MapEntry
  <2>2. Fields'[NextPlace] = MapFieldOf(s) /\ NestedTypes'[NextPlace] = MapEntry(s)
    BY <1>1, ValuesRead
  <2>3. Recorded(s)
    <3>1. /\ message'.field = Append(message.field, MapFieldOf(s)) /\ message'.oneof_decl = message.oneof_decl
          /\ message'.nested_type = Append(message.nested_type, MapEntry(s))
          /\ message'.enum_type = message.enum_type
      BY <2>1 DEF MessageTypeOK
    <3> QED BY <1>1, <2>1, <2>2, <3>1 DEF Recorded, Grown
  <2> QED BY <1>1, <1>4, <1>5, <2>1, <2>3 DEF Outcome
<1>6. CASE ~(open_oneof = 0 /\ MapAllowed(s))
  BY <1>4, <1>6 DEF ParseMap, RejectMessage, Outcome
<1> QED BY <1>5, <1>6

LEMMA OneofOutcome ==
  ASSUME NEW S, NEW s \in S, MessageTypeOK(S), Describes, KeptEarly, ParseOneof(s)
  PROVE  Outcome(s)
<1> DEFINE new == s.name \notin ToSet(message.oneof_decl)
<1>1. s.kind = "oneof" /\ ReadingMessage(s) /\ message_status = "reading" /\ open_oneof = 0
  BY DEF ParseOneof, ReadingMessage
<1>2. Early(s, InOneof)
  BY <1>1, OpenIs DEF Early
<1>3. new <=> \A i \in DOMAIN message_read : EarlyAgree(message_read[i], s)
  <2>1. ToSet(message.oneof_decl) = {Names[i] : i \in Of({"oneof"})}
    <3>1. Lists(message.oneof_decl, Of({"oneof"}), Names)
      BY DEF Describes
    <3> QED BY <3>1, ListSet
  <2>2. \A i \in Of({"oneof"}) : Names[i] = message_read[i].name
    BY DEF Of, Names
  <2>3. new <=> \A i \in Of({"oneof"}) : message_read[i].name # s.name
    BY <2>1, <2>2
  <2> HIDE DEF new
  <2> QED BY <1>1, <2>3 DEF EarlyAgree, Of, Kind
<1>4. KeptEarly' <=> new
  BY <1>1, <1>2, <1>3, KeptRead
<1>5. CASE new
  <2>1. /\ message' = [message EXCEPT !.oneof_decl = Append(@, s.name)]
        /\ open_oneof' = Len(message.oneof_decl) + 1
        /\ UNCHANGED <<message_reserved, extensions, message_status>>
    BY <1>5 DEF ParseOneof
  <2>2. Recorded(s)
    <3>1. /\ message'.field = message.field /\ message'.oneof_decl = Append(message.oneof_decl, s.name)
          /\ message'.nested_type = message.nested_type /\ message'.enum_type = message.enum_type
      BY <2>1 DEF MessageTypeOK
    <3> QED BY <1>1, <2>1, <3>1 DEF Recorded, Grown
  <2> QED BY <1>1, <1>4, <1>5, <2>1, <2>2 DEF Outcome
<1>6. CASE ~new
  BY <1>4, <1>6 DEF ParseOneof, RejectMessage, Outcome
<1> QED BY <1>5, <1>6

LEMMA CloseOneofOutcome ==
  ASSUME NEW S, NEW s \in S, MessageTypeOK(S), Describes, KeptEarly, CloseOneof(s)
  PROVE  Outcome(s)
<1>1. s.kind = "end_oneof" /\ ReadingMessage(s) /\ message_status = "reading" /\ open_oneof # 0
  BY DEF CloseOneof, ReadingMessage
<1>2. Early(s, InOneof)
  BY <1>1, OpenIs DEF Early
<1>3. \A i \in DOMAIN message_read : EarlyAgree(message_read[i], s)
  BY <1>1 DEF EarlyAgree
<1>4. KeptEarly'
  BY <1>1, <1>2, <1>3, KeptRead
<1>5. Recorded(s)
  BY <1>1 DEF CloseOneof, Recorded, Grown
<1> QED BY <1>1, <1>4, <1>5 DEF Outcome, CloseOneof

LEMMA NestedOutcome ==
  ASSUME NEW S, NEW s \in S, MessageTypeOK(S), Describes, KeptEarly, ParseNested(s)
  PROVE  Outcome(s)
<1>1. s.kind \in {"message", "enum"} /\ ReadingMessage(s) /\ message_status = "reading" /\ open_oneof = 0
  BY DEF ParseNested, ReadingMessage
<1>2. Early(s, InOneof)
  BY <1>1, OpenIs DEF Early
<1>3. \A i \in DOMAIN message_read : EarlyAgree(message_read[i], s)
  BY <1>1 DEF EarlyAgree
<1>4. KeptEarly'
  BY <1>1, <1>2, <1>3, KeptRead
<1>5. NestedTypes'[NextPlace] = Declared(s)
  BY <1>1, ValuesRead
<1>6. /\ message' = IF s.kind = "message" THEN [message EXCEPT !.nested_type = Append(@, Declared(s))]
                    ELSE [message EXCEPT !.enum_type = Append(@, s.name)]
      /\ UNCHANGED <<message_reserved, extensions, open_oneof, message_status>>
  BY DEF ParseNested, Declared
<1>7. Recorded(s)
  <2>1. /\ message'.field = message.field /\ message'.oneof_decl = message.oneof_decl
        /\ message'.nested_type = Grown(message.nested_type, Declared(s), s.kind, {"message", "map"})
        /\ message'.enum_type = Grown(message.enum_type, s.name, s.kind, {"enum"})
    BY <1>1, <1>6 DEF MessageTypeOK, Grown
  <2> QED BY <1>1, <1>5, <1>6, <2>1 DEF Recorded, Grown
<1> QED BY <1>1, <1>4, <1>6, <1>7 DEF Outcome

(* A range meets none of those read before it.                             *)
LEMMA RangeIsNew ==
  ASSUME NEW K \in {{"reserved"}, {"extensions"}}, NEW s, s.kind \in K, KeptEarly,
         NEW seq, Lists(seq, Of(K), message_read)
  PROVE  {s.first, s.last} \subseteq RangeEnd /\ RangeAllowed(seq, s) <=>
           /\ RangeSound(s)
           /\ \A i \in DOMAIN message_read : EarlyAgree(message_read[i], s)
<1>1. /\ \A i \in Of(K) : \E k \in DOMAIN seq : seq[k] = message_read[i]
      /\ \A k \in DOMAIN seq : \E i \in Of(K) : seq[k] = message_read[i]
  BY ListHas
<1>2. \A i \in Of(K) : RangeSound(message_read[i])
  BY DEF KeptEarly, Early, Of, Kind
<1>3. ASSUME {s.first, s.last} \subseteq RangeEnd, NEW i \in Of(K)
      PROVE  ~Overlap(message_read[i], s) <=> Disjoint(message_read[i], s)
  <2>1. \A x \in RangeEnd : x \in Int
    BY DEF RangeEnd
  <2> QED BY <1>2, <1>3, <2>1 DEF RangeSound, Overlap, Disjoint
<1>4. (\A i \in DOMAIN message_read : EarlyAgree(message_read[i], s)) <=>
      \A i \in Of(K) : Disjoint(message_read[i], s)
  BY DEF EarlyAgree, Of, Kind
<1> QED BY <1>1, <1>3, <1>4 DEF RangeAllowed, RangeSound

LEMMA ReservedRangeOutcome ==
  ASSUME NEW S, NEW s \in S, MessageTypeOK(S), Describes, KeptEarly, ParseReservedRange(s)
  PROVE  Outcome(s)
<1> DEFINE allowed == {s.first, s.last} \subseteq RangeEnd /\ RangeAllowed(message_reserved.ranges, s)
<1>1. s.kind = "reserved" /\ ReadingMessage(s) /\ message_status = "reading" /\ open_oneof = 0
  BY DEF ParseReservedRange, ReadingMessage
<1>2. Early(s, InOneof) <=> RangeSound(s)
  BY <1>1, OpenIs DEF Early
<1>3. allowed <=> RangeSound(s) /\ \A i \in DOMAIN message_read : EarlyAgree(message_read[i], s)
  <2>1. Lists(message_reserved.ranges, Of({"reserved"}), message_read)
    BY DEF Describes
  <2> QED BY <1>1, <2>1, RangeIsNew
<1> HIDE DEF allowed
<1>4. KeptEarly' <=> allowed
  BY <1>1, <1>2, <1>3, KeptRead
<1>5. /\ allowed => /\ message_reserved' = [message_reserved EXCEPT !.ranges = Append(@, s)]
                    /\ UNCHANGED <<message, extensions, open_oneof, message_status>>
      /\ ~allowed => message_status' = "rejected"
  BY DEF ParseReservedRange, RejectMessage, allowed
<1>6. ASSUME allowed PROVE Recorded(s)
  <2>1. message_reserved'.ranges = Append(message_reserved.ranges, s) /\ message_reserved'.names = message_reserved.names
    BY <1>5, <1>6 DEF MessageTypeOK
  <2> QED BY <1>1, <1>5, <1>6, <2>1 DEF Recorded, Grown
<1> QED BY <1>1, <1>4, <1>5, <1>6 DEF Outcome

LEMMA ExtensionsOutcome ==
  ASSUME NEW S, NEW s \in S, MessageTypeOK(S), Describes, KeptEarly, ParseExtensions(s)
  PROVE  Outcome(s)
<1> DEFINE allowed == {s.first, s.last} \subseteq RangeEnd /\ RangeAllowed(extensions, s)
<1>1. s.kind = "extensions" /\ ReadingMessage(s) /\ message_status = "reading" /\ open_oneof = 0
  BY DEF ParseExtensions, ReadingMessage
<1>2. Early(s, InOneof) <=> RangeSound(s) /\ message_syntax = "proto2"
  BY <1>1, OpenIs DEF Early
<1>3. allowed <=> RangeSound(s) /\ \A i \in DOMAIN message_read : EarlyAgree(message_read[i], s)
  <2>1. Lists(extensions, Of({"extensions"}), message_read)
    BY DEF Describes
  <2> QED BY <1>1, <2>1, RangeIsNew
<1>4. /\ message_syntax = "proto2" /\ allowed =>
           /\ extensions' = Append(extensions, s)
           /\ UNCHANGED <<message, message_reserved, open_oneof, message_status>>
      /\ ~(message_syntax = "proto2" /\ allowed) => message_status' = "rejected"
  BY DEF ParseExtensions, RejectMessage
<1> HIDE DEF allowed
<1>5. KeptEarly' <=> message_syntax = "proto2" /\ allowed
  BY <1>1, <1>2, <1>3, KeptRead
<1>6. ASSUME message_syntax = "proto2" /\ allowed PROVE Recorded(s)
  BY <1>1, <1>4, <1>6 DEF Recorded, Grown
<1> QED BY <1>1, <1>4, <1>5, <1>6 DEF Outcome

LEMMA ReservedNameOutcome ==
  ASSUME NEW S, NEW s \in S, MessageTypeOK(S), Describes, KeptEarly, ParseReservedName(s)
  PROVE  Outcome(s)
<1> DEFINE new == s.name \notin message_reserved.names
<1>1. s.kind = "reserved_name" /\ ReadingMessage(s) /\ message_status = "reading" /\ open_oneof = 0
  BY DEF ParseReservedName, ReadingMessage
<1>2. Early(s, InOneof)
  BY <1>1, OpenIs DEF Early
<1>3. new <=> \A i \in DOMAIN message_read : EarlyAgree(message_read[i], s)
  BY <1>1 DEF Describes, EarlyAgree, Of, Kind
<1>4. KeptEarly' <=> new
  BY <1>1, <1>2, <1>3, KeptRead
<1>5. CASE new
  <2>1. /\ message_reserved' = [message_reserved EXCEPT !.names = @ \cup {s.name}]
        /\ UNCHANGED <<message, extensions, open_oneof, message_status>>
    BY <1>5 DEF ParseReservedName
  <2>2. Recorded(s)
    <3>1. message_reserved'.names = message_reserved.names \cup {s.name} /\ message_reserved'.ranges = message_reserved.ranges
      BY <2>1 DEF MessageTypeOK
    <3> QED BY <1>1, <2>1, <3>1 DEF Recorded, Grown
  <2> QED BY <1>1, <1>4, <1>5, <2>1, <2>2 DEF Outcome
<1>6. CASE ~new
  BY <1>4, <1>6 DEF ParseReservedName, RejectMessage, Outcome
<1> QED BY <1>5, <1>6

LEMMA MisplacedOutcome ==
  ASSUME NEW S, NEW s \in S, WellFormed(s), MessageTypeOK(S), Describes, KeptEarly, Misplaced(s)
  PROVE  Outcome(s)
<1>1. s.kind \notin {"field", "map", "end_oneof"} /\ ReadingMessage(s) /\ open_oneof # 0
  BY DEF Misplaced
<1>2. ~Early(s, InOneof)
  BY <1>1, OpenIs DEF Early, WellFormed
<1>3. ~KeptEarly'
  BY <1>1, <1>2, KeptRead
<1> QED BY <1>3 DEF Outcome, Misplaced, RejectMessage

LEMMA UnterminatedOutcome ==
  ASSUME NEW S, MessageTypeOK(S), Describes, KeptEarly, UnterminatedMessage
  PROVE  message_status' = "rejected" /\ ~KeptEarly'
<1>1. ReadingMessage(EndOfFile) /\ message_status' = "rejected"
  BY DEF UnterminatedMessage, RejectMessage, EndOfFile
<1>2. ~Early(EndOfFile, InOneof)
  BY DEF Early, EndOfFile
<1>3. ~KeptEarly'
  BY <1>1, <1>2, KeptRead
<1> QED BY <1>1, <1>3

-----------------------------------------------------------------------------
(* The closing brace and the end of the file.                              *)

Members == Of({"field", "map"})

LEMMA FieldsAre ==
  ASSUME Describes
  PROVE  /\ \A i \in Members : Fields[i].name = message_read[i].name /\ Fields[i].number = message_read[i].number
         /\ \A k \in DOMAIN message.field : \E i \in Members : message.field[k] = Fields[i]
         /\ \A i \in Members : \E k \in DOMAIN message.field : message.field[k] = Fields[i]
         /\ \A k, l \in DOMAIN message.field : k # l =>
              \E i, j \in Members : i # j /\ message.field[k] = Fields[i] /\ message.field[l] = Fields[j]
         /\ \A i, j \in Members : i # j =>
              \E k, l \in DOMAIN message.field : k # l /\ message.field[k] = Fields[i] /\ message.field[l] = Fields[j]
<1>1. \A i \in Members : Fields[i].name = message_read[i].name /\ Fields[i].number = message_read[i].number
  BY DEF Fields, Members, Of, MapFieldOf, FieldOf
<1>2. Lists(message.field, Members, Fields)
  BY DEF Describes, Members
<1> DEFINE seq == message.field
           f == Fields
<1>3. Lists(seq, Members, f)
  BY <1>2
<1> HIDE DEF seq, f
<1>4. /\ \A i \in Members : \E k \in DOMAIN seq : seq[k] = f[i]
      /\ \A k \in DOMAIN seq : \E i \in Members : seq[k] = f[i]
      /\ \A i, j \in Members : i # j =>
           \E k, l \in DOMAIN seq : k # l /\ seq[k] = f[i] /\ seq[l] = f[j]
      /\ \A k, l \in DOMAIN seq : k # l =>
           \E i, j \in Members : i # j /\ seq[k] = f[i] /\ seq[l] = f[j]
  BY <1>3, ListHas
<1> QED BY <1>1, <1>4 DEF seq, f

LEMMA ConstraintsAre ==
  ASSUME Describes, KeptEarly
  PROVE  ConstraintsHold <=> KeptAtClose
<1> DEFINE R == message_reserved.ranges
           RV == {message_read[i] : i \in Of({"reserved"})}
           XV == {message_read[i] : i \in Of({"extensions"})}
<1>1. ToSet(R) = RV /\ ToSet(extensions) = XV
  <2>1. Lists(R, Of({"reserved"}), message_read) /\ Lists(extensions, Of({"extensions"}), message_read)
    BY DEF Describes
  <2> HIDE DEF R
  <2> QED BY <2>1, ListSet
<1>2. /\ \A r \in RV \cup XV : RangeSound(r)
      /\ \A i \in Members : message_read[i].number \in RangeEnd
  BY SMTT(30) DEF KeptEarly, Early, FieldAllowed, MapAllowed, IsFieldNumber, Of, Kind, Members
<1>3. \A x \in RangeEnd : x \in Int
  BY DEF RangeEnd
<1>4. ASSUME NEW r \in RV \cup XV, NEW x \in RV \cup XV
      PROVE  ~Overlap(r, x) <=> Disjoint(r, x)
  BY <1>2, <1>3 DEF RangeSound, Overlap, Disjoint
<1> DEFINE outside(number, r) == number < r.first \/ r.last < number
<1>5. ASSUME NEW r \in RV \cup XV, NEW i \in Members
      PROVE  ~Covers(r, message_read[i].number) <=> outside(message_read[i].number, r)
  BY <1>2, <1>3 DEF RangeSound, Covers
<1>7. message_reserved.names = {message_read[i].name : i \in Of({"reserved_name"})}
  BY DEF Describes
<1> DEFINE B == \A i \in Of({"reserved"}), j \in Of({"extensions"}) : Disjoint(message_read[i], message_read[j])
           A == \A i \in Members, j \in Of({"reserved"}) \cup Of({"extensions"}) :
                  outside(message_read[i].number, message_read[j])
           C == \A i \in Members, j \in Of({"reserved_name"}) : message_read[i].name # message_read[j].name
<1>8. B <=> \A k \in DOMAIN R, l \in DOMAIN extensions : ~Overlap(R[k], extensions[l])
  <2>1. B <=> \A r \in RV, x \in XV : Disjoint(r, x)
    OBVIOUS
  <2>2. (\A k \in DOMAIN R, l \in DOMAIN extensions : ~Overlap(R[k], extensions[l])) <=>
        \A r \in ToSet(R), x \in ToSet(extensions) : ~Overlap(r, x)
    BY DEF ToSet
  <2> HIDE DEF B, R, RV, XV
  <2> QED BY <1>1, <1>4, <2>1, <2>2
<1>9. A <=> \A i \in Members : /\ \A j \in DOMAIN R : ~Covers(R[j], message_read[i].number)
                               /\ \A j \in DOMAIN extensions : ~Covers(extensions[j], message_read[i].number)
  <2> HIDE DEF outside
  <2>1. A <=> \A i \in Members : \A r \in RV \cup XV : outside(message_read[i].number, r)
    OBVIOUS
  <2>2. \A n : (/\ \A j \in DOMAIN R : ~Covers(R[j], n)
               /\ \A j \in DOMAIN extensions : ~Covers(extensions[j], n)) <=>
              \A r \in ToSet(R) \cup ToSet(extensions) : ~Covers(r, n)
    BY DEF ToSet
  <2> HIDE DEF A, R, RV, XV
  <2> QED BY <1>1, <1>5, <2>1, <2>2
<1>10. C <=> \A i \in Members : message_read[i].name \notin message_reserved.names
  BY <1>7
<1>11. KeptAtClose <=> A /\ B /\ C
  BY DEF KeptAtClose, CloseAgree, Of, Kind, Members
<1> DEFINE free(name, number) ==
             /\ name \notin message_reserved.names
             /\ \A j \in DOMAIN R : ~Covers(R[j], number)
             /\ \A j \in DOMAIN extensions : ~Covers(extensions[j], number)
<1>12. ConstraintsHold <=>
         /\ \A k \in DOMAIN R, l \in DOMAIN extensions : ~Overlap(R[k], extensions[l])
         /\ \A k \in DOMAIN message.field : free(message.field[k].name, message.field[k].number)
  BY DEF ConstraintsHold
<1>13. A /\ C <=> \A i \in Members : free(message_read[i].name, message_read[i].number)
  <2> HIDE DEF R, A, C
  <2> QED BY <1>9, <1>10
<1> HIDE DEF free, R, A, B, C, outside
<1>14. (\A k \in DOMAIN message.field : free(message.field[k].name, message.field[k].number)) <=>
       \A i \in Members : free(message_read[i].name, message_read[i].number)
  BY FieldsAre, SMTT(30)
<1> QED BY <1>8, <1>11, <1>12, <1>13, <1>14

LEMMA ConcatInjective ==
  ASSUME NEW A, NEW u \in Seq(A), NEW v \in Seq(A)
  PROVE  IsInjective(u \o v) <=> /\ IsInjective(u) /\ IsInjective(v)
                                 /\ \A k \in DOMAIN u, l \in DOMAIN v : u[k] # v[l]
<1> DEFINE m == Len(u)
           n == Len(v)
           w == u \o v
<1>1. /\ m \in Nat /\ n \in Nat /\ DOMAIN u = 1 .. m /\ DOMAIN v = 1 .. n /\ DOMAIN w = 1 .. m + n
      /\ \A k \in 1 .. m : w[k] = u[k] /\ k \in 1 .. m + n
      /\ \A l \in 1 .. n : w[m + l] = v[l] /\ m + l \in 1 .. m + n
  OBVIOUS
<1> HIDE DEF m, n, w
<1>2. \A k \in 1 .. m + n : k \in 1 .. m \/ \E l \in 1 .. n : k = m + l
  <2>1. ASSUME NEW k \in 1 .. m + n, k \notin 1 .. m
        PROVE  k - m \in 1 .. n /\ k = m + (k - m)
    BY <1>1, <2>1
  <2> QED BY <2>1
<1>3. \A k, l \in 1 .. n : m + k = m + l => k = l
  BY <1>1
<1>4. \A k \in 1 .. m, l \in 1 .. n : k # m + l
  BY <1>1
<1>5. ASSUME IsInjective(w)
      PROVE  IsInjective(u) /\ IsInjective(v) /\ \A k \in 1 .. m, l \in 1 .. n : u[k] # v[l]
  <2>1. \A k, l \in 1 .. m + n : w[k] = w[l] => k = l
    BY <1>1, <1>5 DEF IsInjective
  <2>2. \A k, l \in 1 .. m : u[k] = u[l] => k = l
    BY <1>1, <2>1
  <2>3. ASSUME NEW k \in 1 .. n, NEW l \in 1 .. n, v[k] = v[l]
        PROVE  k = l
    <3>1. w[m + k] = w[m + l] /\ m + k \in 1 .. m + n /\ m + l \in 1 .. m + n
      BY <1>1, <2>3
    <3>2. m + k = m + l
      BY <2>1, <3>1
    <3> QED BY <1>3, <3>2
  <2>4. ASSUME NEW k \in 1 .. m, NEW l \in 1 .. n, u[k] = v[l]
        PROVE  FALSE
    <3>1. w[k] = w[m + l] /\ k \in 1 .. m + n /\ m + l \in 1 .. m + n
      BY <1>1, <2>4
    <3>2. k = m + l
      BY <2>1, <3>1
    <3> QED BY <1>4, <3>2
  <2> QED BY <1>1, <2>2, <2>3, <2>4 DEF IsInjective
<1>6. ASSUME IsInjective(u), IsInjective(v), \A k \in 1 .. m, l \in 1 .. n : u[k] # v[l]
      PROVE  IsInjective(w)
  <2>1. ASSUME NEW a \in 1 .. m + n, NEW b \in 1 .. m + n, w[a] = w[b]
        PROVE  a = b
    <3>1. CASE a \in 1 .. m /\ b \in 1 .. m
      <4>1. u[a] = u[b]
        BY <1>1, <2>1, <3>1
      <4> QED BY <1>1, <1>6, <3>1, <4>1 DEF IsInjective
    <3>2. CASE a \in 1 .. m /\ b \notin 1 .. m
      <4>1. PICK l \in 1 .. n : b = m + l
        BY <1>2, <3>2
      <4>2. u[a] = v[l]
        BY <1>1, <2>1, <3>2, <4>1
      <4> QED BY <1>6, <3>2, <4>2
    <3>3. CASE a \notin 1 .. m /\ b \in 1 .. m
      <4>1. PICK l \in 1 .. n : a = m + l
        BY <1>2, <3>3
      <4>2. u[b] = v[l]
        BY <1>1, <2>1, <3>3, <4>1
      <4> QED BY <1>6, <3>3, <4>2
    <3>4. CASE a \notin 1 .. m /\ b \notin 1 .. m
      <4>1. PICK k \in 1 .. n : a = m + k
        BY <1>2, <3>4
      <4>2. PICK l \in 1 .. n : b = m + l
        BY <1>2, <3>4
      <4>3. v[k] = v[l]
        BY <1>1, <2>1, <4>1, <4>2
      <4>4. k = l
        BY <1>1, <1>6, <4>3 DEF IsInjective
      <4> QED BY <4>1, <4>2, <4>4
    <3> QED BY <3>1, <3>2, <3>3, <3>4
  <2> QED BY <1>1, <2>1 DEF IsInjective
<1> QED BY <1>1, <1>5, <1>6 DEF w

LEMMA ListInjective ==
  ASSUME NEW seq, NEW M, NEW f, Lists(seq, M, f)
  PROVE  IsInjective(seq) <=> \A i, j \in M : i # j => f[i] # f[j]
<1>1. /\ \A i, j \in M : i # j =>
           \E k, l \in DOMAIN seq : k # l /\ seq[k] = f[i] /\ seq[l] = f[j]
      /\ \A k, l \in DOMAIN seq : k # l =>
           \E i, j \in M : i # j /\ seq[k] = f[i] /\ seq[l] = f[j]
  BY ListHas
<1>2. ASSUME IsInjective(seq), NEW i \in M, NEW j \in M, i # j
      PROVE  f[i] # f[j]
  <2>1. PICK k \in DOMAIN seq, l \in DOMAIN seq : k # l /\ seq[k] = f[i] /\ seq[l] = f[j]
    BY <1>1, <1>2
  <2> QED BY <1>2, <2>1 DEF IsInjective
<1>3. ASSUME \A i, j \in M : i # j => f[i] # f[j], NEW k \in DOMAIN seq, NEW l \in DOMAIN seq, seq[k] = seq[l]
      PROVE  k = l
  <2>1. SUFFICES ASSUME k # l PROVE FALSE
    OBVIOUS
  <2>2. PICK i \in M, j \in M : i # j /\ seq[k] = f[i] /\ seq[l] = f[j]
    BY <1>1, <2>1
  <2> QED BY <1>3, <2>2
<1> QED BY <1>2, <1>3 DEF IsInjective

LEMMA ListNames ==
  ASSUME NEW seq, NEW M, NEW f, NEW g, Lists(seq, M, f), \A i \in M : g[i] = f[i].name
  PROVE  Lists([k \in DOMAIN seq |-> seq[k].name], M, g)
<1> DEFINE names == [k \in DOMAIN seq |-> seq[k].name]
           A == {g[i] : i \in M}
<1>1. Len(seq) \in Nat /\ DOMAIN seq = 1 .. Len(seq) /\ \A k \in DOMAIN seq : \E i \in M : seq[k] = f[i]
  BY ListHas
<1>2. \A k \in 1 .. Len(seq) : seq[k].name \in A
  BY <1>1
<1>3. DOMAIN names = 1 .. Len(seq) /\ \A k \in 1 .. Len(seq) : names[k] = seq[k].name
  BY <1>1
<1>4. names = [k \in 1 .. Len(seq) |-> seq[k].name]
  BY <1>1
<1>5. names \in Seq(A) /\ Len(names) = Len(seq)
  <2> HIDE DEF A
  <2>1. \A n \in Nat : \A q \in [1 .. n -> A] : q \in Seq(A) /\ Len(q) = n
    OBVIOUS
  <2>2. names \in [1 .. Len(seq) -> A]
    BY <1>2, <1>4
  <2> QED BY <1>1, <2>1, <2>2
<1> HIDE DEF names
<1>6. IsFiniteSet(M) /\ Len(names) = Cardinality(M)
  BY <1>5 DEF Lists
<1>7. \A i \in M : Place(M, i) \in DOMAIN names /\ names[Place(M, i)] = g[i]
  BY <1>1, <1>3 DEF Lists
<1>8. \A k \in DOMAIN names : \E i \in M : Place(M, i) = k
  BY <1>1, <1>3 DEF Lists
<1>9. \A i, j \in M : Place(M, i) = Place(M, j) => i = j
  BY DEF Lists
<1>10. Lists(names, M, g)
  BY <1>5, <1>6, <1>7, <1>8, <1>9 DEF Lists, A
<1> QED BY <1>10 DEF names

LEMMA NestedNamesAre ==
  ASSUME Describes
  PROVE  IsInjective(NestedNames) <=>
           \A i, j \in Of({"message", "enum", "map"}) :
             i # j => TypeNamed(message_read[i]) # TypeNamed(message_read[j])
<1> DEFINE E == message.enum_type
           T == message.nested_type
           D == [k \in DOMAIN T |-> T[k].name]
           EO == Of({"enum"})
           TO == Of({"message", "map"})
           TN == [i \in DOMAIN message_read |-> TypeNamed(message_read[i])]
<1>1. Of({"message", "enum", "map"}) = EO \cup TO /\ EO \cap TO = {} /\ NestedNames = E \o D
  BY DEF Of, NestedNames
<1>2. Lists(E, EO, TN)
  <2>1. Lists(E, EO, Names)
    BY DEF Describes
  <2>2. \A i \in EO : TN[i] = Names[i]
    BY DEF Of, Names, Kind, TypeNamed
  <2> HIDE DEF E, EO, TN
  <2> QED BY <2>1, <2>2, ListStays
<1>3. Lists(D, TO, TN)
  <2>1. Lists(T, TO, NestedTypes)
    BY DEF Describes
  <2>2. ASSUME NEW i \in TO
        PROVE  TN[i] = NestedTypes[i].name
    <3>1. i \in DOMAIN message_read /\ message_read[i].kind \in {"message", "map"}
      BY DEF Of, Kind
    <3>2. /\ TN[i] = IF message_read[i].kind = "map" THEN EntryName(message_read[i]) ELSE message_read[i].name
          /\ NestedTypes[i] = IF message_read[i].kind = "map" THEN MapEntry(message_read[i])
                              ELSE Declared(message_read[i])
      BY <3>1 DEF TypeNamed, NestedTypes, Kind, MapEntry, Declared, EntryName
    <3>3. \A s : MapEntry(s).name = EntryName(s) /\ Declared(s).name = s.name
      BY DEF MapEntry, Declared
    <3> QED BY <3>2, <3>3
  <2> HIDE DEF T, TO, TN
  <2> QED BY <2>1, <2>2, ListNames
<1>4. \A i \in EO \cup TO : TN[i] = TypeNamed(message_read[i])
  BY DEF Of
<1> HIDE DEF E, T, D, EO, TO, TN
<1>5. \E A : E \in Seq(A) /\ D \in Seq(A)
  <2> DEFINE X == {TN[i] : i \in EO}
             Y == {TN[i] : i \in TO}
  <2>1. E \in Seq(X) /\ D \in Seq(Y)
    BY <1>2, <1>3 DEF Lists
  <2> HIDE DEF X, Y
  <2>2. \A A, B : \A q : q \in Seq(A) => q \in Seq(A \cup B) /\ q \in Seq(B \cup A)
    <3> TAKE A, B
    <3>1. A \subseteq A \cup B /\ A \subseteq B \cup A
      OBVIOUS
    <3>2. \A C : A \subseteq C => \A q : q \in Seq(A) => q \in Seq(C)
      OBVIOUS
    <3> QED BY <3>1, <3>2
  <2> QED BY <2>1, <2>2
<1>6. IsInjective(E \o D) <=> /\ IsInjective(E) /\ IsInjective(D)
                              /\ \A k \in DOMAIN E, l \in DOMAIN D : E[k] # D[l]
  BY <1>5, ConcatInjective
<1>7. /\ IsInjective(E) <=> \A i, j \in EO : i # j => TN[i] # TN[j]
      /\ IsInjective(D) <=> \A i, j \in TO : i # j => TN[i] # TN[j]
  BY <1>2, <1>3, ListInjective
<1>8. (\A k \in DOMAIN E, l \in DOMAIN D : E[k] # D[l]) <=> \A i \in EO, j \in TO : TN[i] # TN[j]
  <2>1. ToSet(E) = {TN[i] : i \in EO} /\ ToSet(D) = {TN[i] : i \in TO}
    BY <1>2, <1>3, ListSet
  <2>2. (\A k \in DOMAIN E, l \in DOMAIN D : E[k] # D[l]) <=> \A x \in ToSet(E), y \in ToSet(D) : x # y
    BY DEF ToSet
  <2> QED BY <2>1, <2>2
<1> QED BY <1>1, <1>4, <1>6, <1>7, <1>8

(* What the semantic pass asks of a field, and of a map field nothing.     *)
LEMMA FieldResolvesIs ==
  ASSUME Describes, NEW i \in Members
  PROVE  FieldResolves(Fields[i]) <=> Late(message_read[i])
<1> DEFINE s == message_read[i]
           f == Fields[i]
           known == f.oneof_index <= Len(message.oneof_decl)
<1> SUFFICES FieldResolves(f) <=> Late(s)
  OBVIOUS
<1>1. i \in DOMAIN message_read /\ (s.kind = "map" \/ s.kind = "field") /\ Len(message.oneof_decl) \in Nat
  <2>1. Len(message.oneof_decl) \in Nat
    BY ListHas DEF Describes
  <2> QED BY <2>1 DEF Members, Of, Kind
<1>2. CASE s.kind = "map"
  <2>1. f = MapFieldOf(s)
    BY <1>1, <1>2 DEF Fields, Kind
  <2>2. f.oneof_index = 0 /\ f.options = <<>>
    BY <2>1 DEF MapFieldOf
  <2>3. ~Has(f, "packed") /\ ~Has(f, "default")
    BY <2>2 DEF Has, Options
  <2> HIDE DEF s, f
  <2> QED BY <1>1, <1>2, <2>2, <2>3 DEF FieldResolves, Late
<1>3. CASE s.kind = "field"
  <2> DEFINE k == IF Inside(i) THEN Opened(i) ELSE 0
  <2>1. f = FieldOf(s, k)
    BY <1>1, <1>3 DEF Fields, Kind
  <2>2. f.oneof_index \in 0 .. Len(message.oneof_decl)
    BY <1>1, <1>3 DEF Describes, IndicesKnown, Of, Kind
  <2>3. known
    BY <1>1, <2>2
  <2> HIDE DEF s, f, k
  <2>4. f.options = s.options /\ f.type = s.type /\ (f.label = "repeated" <=> s.label = "repeated")
    BY <2>1 DEF FieldOf
  <2>5. /\ Has(f, "packed") <=> Has(s, "packed")
        /\ Has(f, "default") <=> Has(s, "default")
        /\ Option(f, "default") = Option(s, "default")
    BY <2>4 DEF Has, Options, Option
  <2> QED BY <1>3, <2>3, <2>4, <2>5 DEF FieldResolves, Late, PackedRule
<1> QED BY <1>1, <1>2, <1>3

LEMMA ResolvesAre ==
  ASSUME Describes
  PROVE  Resolves <=> KeptLate
<1>1. (\A k, l \in DOMAIN message.field :
         k # l => /\ message.field[k].name # message.field[l].name
                  /\ message.field[k].number # message.field[l].number) <=>
      \A i, j \in Members :
        i # j => message_read[i].name # message_read[j].name /\ message_read[i].number # message_read[j].number
  <2>1. ASSUME \A k, l \in DOMAIN message.field :
                 k # l => /\ message.field[k].name # message.field[l].name
                          /\ message.field[k].number # message.field[l].number,
               NEW i \in Members, NEW j \in Members, i # j
        PROVE  message_read[i].name # message_read[j].name /\ message_read[i].number # message_read[j].number
    <3>1. PICK k \in DOMAIN message.field, l \in DOMAIN message.field :
            k # l /\ message.field[k] = Fields[i] /\ message.field[l] = Fields[j]
      BY <2>1, FieldsAre
    <3>2. /\ Fields[i].name = message_read[i].name /\ Fields[i].number = message_read[i].number
          /\ Fields[j].name = message_read[j].name /\ Fields[j].number = message_read[j].number
      BY FieldsAre
    <3> QED BY <2>1, <3>1, <3>2
  <2>2. ASSUME \A i, j \in Members :
                 i # j => message_read[i].name # message_read[j].name /\ message_read[i].number # message_read[j].number,
               NEW k \in DOMAIN message.field, NEW l \in DOMAIN message.field, k # l
        PROVE  message.field[k].name # message.field[l].name /\ message.field[k].number # message.field[l].number
    <3>1. PICK i \in Members, j \in Members :
            i # j /\ message.field[k] = Fields[i] /\ message.field[l] = Fields[j]
      BY <2>2, FieldsAre
    <3>2. /\ Fields[i].name = message_read[i].name /\ Fields[i].number = message_read[i].number
          /\ Fields[j].name = message_read[j].name /\ Fields[j].number = message_read[j].number
      BY FieldsAre
    <3> QED BY <2>2, <3>1, <3>2
  <2> QED BY <2>1, <2>2
<1>2. (\A k \in DOMAIN message.field : FieldResolves(message.field[k])) <=>
      \A i \in DOMAIN message_read : Late(message_read[i])
  <2>1. (\A k \in DOMAIN message.field : FieldResolves(message.field[k])) <=>
        \A i \in Members : FieldResolves(Fields[i])
    BY FieldsAre
  <2>2. (\A i \in DOMAIN message_read : Late(message_read[i])) <=> \A i \in Members : Late(message_read[i])
    BY DEF Members, Of, Kind, Late
  <2> QED BY <2>1, <2>2, FieldResolvesIs
<1>3. (\A i, j \in DOMAIN message_read : i # j => LateAgree(message_read[i], message_read[j])) <=>
      /\ \A i, j \in Members :
           i # j => message_read[i].name # message_read[j].name /\ message_read[i].number # message_read[j].number
      /\ \A i, j \in Of({"message", "enum", "map"}) :
           i # j => TypeNamed(message_read[i]) # TypeNamed(message_read[j])
  BY DEF LateAgree, Of, Kind, Members
<1> QED BY <1>1, <1>2, <1>3, NestedNamesAre DEF Resolves, KeptLate

(* The same after a step.                                                  *)
ByTime ==
    \A S : (\A s \in S : WellFormed(s)) /\ MessageTypeOK(S) =>
             (Rules <=> KeptEarly /\ KeptAtClose /\ KeptLate)

LEMMA ByTimeNext == ByTime'
<1>1. ByTime
  BY RulesByTime DEF ByTime
<1> QED BY <1>1, PTL

-----------------------------------------------------------------------------
(* The inductive invariant of the message body, on statements from a set S:*)
(* the descriptor says what the statements read say, the rules that are due*)
(* are kept, and a message is refused only if some rule is broken.         *)

MessageIInv(S) ==
    /\ MessageTypeOK(S)
    /\ message_status # "rejected" => Describes /\ KeptEarly
    /\ message_status = "closed" => KeptAtClose
    /\ MessageAcceptsByTheRules

LEMMA MessageBegins ==
  ASSUME NEW S, MessageInit
  PROVE  MessageIInv(S)
<1>1. /\ message_read = <<>> /\ message_status = "reading" /\ open_oneof = 0
      /\ message = [field |-> <<>>, oneof_decl |-> <<>>, nested_type |-> <<>>, enum_type |-> <<>>]
      /\ message_reserved = [ranges |-> <<>>, names |-> {}] /\ extensions = <<>>
      /\ message_syntax \in {"proto2", "proto3"}
  BY DEF MessageInit
<1>2. DOMAIN message_read = {} /\ Len(message_read) = 0
  BY <1>1
<1>3. MessageTypeOK(S)
  BY <1>1 DEF MessageTypeOK
<1>4. \A K : Of(K) = {}
  BY <1>2 DEF Of
<1>5. OneofIsOpen
  <2>1. NextPlace = 1
    BY <1>2 DEF NextPlace
  <2>2. {j \in 1 .. 1 - 1 : message_read[j].kind \in {"oneof", "end_oneof"}} = {}
    OBVIOUS
  <2>3. ~InOneof
    BY <2>1, <2>2 DEF InOneof, Inside
  <2> QED BY <1>1, <2>3 DEF OneofIsOpen
<1>6. IndicesKnown
  BY <1>4 DEF IndicesKnown
<1>7. Describes
  <2>1. /\ message.field = <<>> /\ message.oneof_decl = <<>> /\ message.nested_type = <<>> /\ message.enum_type = <<>>
        /\ message_reserved.ranges = <<>> /\ message_reserved.names = {} /\ extensions = <<>>
    BY <1>1
  <2>2. \A K, f : Lists(<<>>, Of(K), f)
    BY <1>4, EmptyList
  <2> QED BY <1>4, <1>5, <1>6, <2>1, <2>2 DEF Describes
<1>8. KeptEarly
  BY <1>2 DEF KeptEarly
<1> QED BY <1>1, <1>3, <1>7, <1>8 DEF MessageIInv, MessageAcceptsByTheRules

(* What was established of the statements is not touched by a step that    *)
(* reads none.                                                             *)
LEMMA NothingRead ==
  ASSUME UNCHANGED <<message_syntax, message, message_reserved, extensions, open_oneof, message_read>>
  PROVE  /\ Describes' <=> Describes
         /\ KeptEarly' <=> KeptEarly
         /\ KeptAtClose' <=> KeptAtClose
         /\ KeptLate' <=> KeptLate
<1>1. /\ \A K : Of(K)' = Of(K)
      /\ \A i : Inside(i)' <=> Inside(i)
      /\ \A i : Opened(i)' = Opened(i)
      /\ Names' = Names
  BY DEF Of, Kind, Inside, Opened, Names
<1>2. Fields' = Fields /\ NestedTypes' = NestedTypes
  BY <1>1 DEF Fields, NestedTypes, Kind
<1>3. OneofIsOpen' <=> OneofIsOpen
  BY DEF OneofIsOpen, InOneof, Inside, NextPlace
<1>4. IndicesKnown' <=> IndicesKnown
  BY <1>1, <1>2 DEF IndicesKnown
<1>5. Describes' <=> Describes
  BY <1>1, <1>2, <1>3, <1>4 DEF Describes
<1>6. KeptEarly' <=> KeptEarly
  <2>1. \A i : Early(message_read[i], Inside(i))' <=> Early(message_read[i], Inside(i))
    BY <1>1 DEF Early, FieldAllowed, LabelAllowed, DefaultAllowed
  <2> QED BY <2>1 DEF KeptEarly
<1>7. KeptAtClose' <=> KeptAtClose
  BY DEF KeptAtClose
<1>8. KeptLate' <=> KeptLate
  BY DEF KeptLate
<1> QED BY <1>5, <1>6, <1>7, <1>8

LEMMA StatementStep ==
  ASSUME NEW S, \A s \in S : WellFormed(s), MessageIInv(S), NEW s \in S,
         \/ Misplaced(s) \/ ParseMessageField(s) \/ ParseMap(s) \/ ParseOneof(s) \/ CloseOneof(s)
         \/ ParseNested(s) \/ ParseReservedRange(s) \/ ParseReservedName(s) \/ ParseExtensions(s)
  PROVE  MessageIInv(S)'
<1>1. ReadingMessage(s) /\ message_status = "reading"
  BY DEF ReadingMessage, Misplaced, ParseMessageField, ParseMap, ParseOneof, CloseOneof, ParseNested,
         ParseReservedRange, ParseReservedName, ParseExtensions
<1>2. MessageTypeOK(S) /\ Describes /\ KeptEarly
  BY <1>1 DEF MessageIInv
<1>3. Outcome(s)
  BY <1>2, MisplacedOutcome, FieldOutcome, MapOutcome, OneofOutcome, CloseOneofOutcome, NestedOutcome,
     ReservedRangeOutcome, ReservedNameOutcome, ExtensionsOutcome
<1>4. MessageTypeOK(S)'
  <2>1. message_read' \in Seq(S \cup {EndOfFile})
    BY <1>1, <1>2, ReadOne
  <2>2. message_syntax' = message_syntax
    BY <1>1 DEF ReadingMessage
  <2>3. DOMAIN message' = DOMAIN message
    BY DEF RejectMessage, Misplaced, ParseMessageField, ParseMap, ParseOneof, CloseOneof, ParseNested,
           ParseReservedRange, ParseReservedName, ParseExtensions
  <2>4. DOMAIN message_reserved' = DOMAIN message_reserved
    BY DEF RejectMessage, Misplaced, ParseMessageField, ParseMap, ParseOneof, CloseOneof, ParseNested,
           ParseReservedRange, ParseReservedName, ParseExtensions
  <2>5. message_status' \in {"reading", "rejected"}
    BY <1>3 DEF Outcome
  <2> QED BY <1>2, <2>1, <2>2, <2>3, <2>4, <2>5 DEF MessageTypeOK
<1>5. CASE message_status' = "reading" /\ Recorded(s) /\ KeptEarly'
  <2>1. Describes'
    BY <1>1, <1>2, <1>5, DescribesRead
  <2> QED BY <1>4, <1>5, <2>1 DEF MessageIInv, MessageAcceptsByTheRules
<1>6. CASE message_status' = "rejected" /\ ~KeptEarly'
  <2>1. ~Rules'
    BY <1>4, <1>6, ByTimeNext DEF ByTime
  <2> QED BY <1>4, <1>6, <2>1 DEF MessageIInv, MessageAcceptsByTheRules
<1> QED BY <1>3, <1>5, <1>6 DEF Outcome

LEMMA UnterminatedStep ==
  ASSUME NEW S, \A s \in S : WellFormed(s), MessageIInv(S), UnterminatedMessage
  PROVE  MessageIInv(S)'
<1>1. ReadingMessage(EndOfFile) /\ message_status = "reading"
  BY DEF ReadingMessage, UnterminatedMessage, EndOfFile
<1>2. MessageTypeOK(S) /\ Describes /\ KeptEarly
  BY <1>1 DEF MessageIInv
<1>3. message_status' = "rejected" /\ ~KeptEarly'
  BY <1>2, UnterminatedOutcome
<1>4. MessageTypeOK(S)'
  <2>1. message_read' \in Seq(S \cup {EndOfFile})
    BY <1>1, <1>2, ReadOne
  <2>2. message_syntax' = message_syntax /\ UNCHANGED <<message, message_reserved>>
    BY <1>1 DEF ReadingMessage, UnterminatedMessage, RejectMessage
  <2> QED BY <1>2, <1>3, <2>1, <2>2 DEF MessageTypeOK
<1>5. ~Rules'
  BY <1>3, <1>4, ByTimeNext DEF ByTime
<1> QED BY <1>3, <1>4, <1>5 DEF MessageIInv, MessageAcceptsByTheRules

LEMMA CloseStep ==
  ASSUME NEW S, \A s \in S : WellFormed(s), MessageIInv(S), CloseBody
  PROVE  MessageIInv(S)'
<1>1. /\ message_status = "reading" /\ message_status' = IF ConstraintsHold THEN "closed" ELSE "rejected"
      /\ UNCHANGED <<message_syntax, message, message_reserved, extensions, open_oneof, message_read>>
  BY DEF CloseBody
<1>2. MessageTypeOK(S) /\ Describes /\ KeptEarly
  BY <1>1 DEF MessageIInv
<1>3. ConstraintsHold <=> KeptAtClose
  BY <1>2, ConstraintsAre
<1>4. MessageTypeOK(S)'
  BY <1>1, <1>2 DEF MessageTypeOK
<1>5. Describes' /\ KeptEarly' /\ (KeptAtClose' <=> ConstraintsHold)
  BY <1>1, <1>2, <1>3, NothingRead
<1>6. ~ConstraintsHold => ~Rules'
  BY <1>4, <1>5, ByTimeNext DEF ByTime
<1> QED BY <1>1, <1>4, <1>5, <1>6 DEF MessageIInv, MessageAcceptsByTheRules

LEMMA ResolveStep ==
  ASSUME NEW S, \A s \in S : WellFormed(s), MessageIInv(S), ResolveMessage
  PROVE  MessageIInv(S)'
<1>1. /\ message_status = "closed" /\ message_status' = IF Resolves THEN "accepted" ELSE "rejected"
      /\ UNCHANGED <<message_syntax, message, message_reserved, extensions, open_oneof, message_read>>
  BY DEF ResolveMessage
<1>2. MessageTypeOK(S) /\ Describes /\ KeptEarly /\ KeptAtClose
  BY <1>1 DEF MessageIInv
<1>3. Resolves <=> KeptLate
  BY <1>2, ResolvesAre
<1>4. MessageTypeOK(S)'
  BY <1>1, <1>2 DEF MessageTypeOK
<1>5. Describes' /\ KeptEarly' /\ KeptAtClose' /\ (KeptLate' <=> Resolves)
  BY <1>1, <1>2, <1>3, NothingRead
<1>6. Resolves <=> Rules'
  BY <1>4, <1>5, ByTimeNext DEF ByTime
<1> QED BY <1>1, <1>4, <1>5, <1>6 DEF MessageIInv, MessageAcceptsByTheRules

LEMMA MessageStutters ==
  ASSUME NEW S, \A s \in S : WellFormed(s), MessageIInv(S), UNCHANGED messageVars
  PROVE  MessageIInv(S)'
<1>1. /\ UNCHANGED <<message_syntax, message, message_reserved, extensions, open_oneof, message_read>>
      /\ UNCHANGED message_status
  BY DEF messageVars
<1>2. MessageTypeOK(S)' <=> MessageTypeOK(S)
  BY <1>1 DEF MessageTypeOK
<1>3. Rules' <=> Rules
  <2>1. MessageTypeOK(S) /\ MessageTypeOK(S)'
    BY <1>2 DEF MessageIInv
  <2>2. /\ Rules <=> KeptEarly /\ KeptAtClose /\ KeptLate
        /\ Rules' <=> KeptEarly' /\ KeptAtClose' /\ KeptLate'
    BY <2>1, RulesByTime, ByTimeNext DEF ByTime
  <2> QED BY <1>1, <2>2, NothingRead
<1> QED BY <1>1, <1>2, <1>3, NothingRead DEF MessageIInv, MessageAcceptsByTheRules

LEMMA MessageStays ==
  ASSUME NEW S, \A r : MessageStatements(r) \subseteq S, \A s \in S : WellFormed(s),
         MessageIInv(S), [MessageNext]_messageVars
  PROVE  MessageIInv(S)'
<1>1. CASE \E s \in MessageStatements(message_read) :
             \/ Misplaced(s) \/ ParseMessageField(s) \/ ParseMap(s) \/ ParseOneof(s) \/ CloseOneof(s)
             \/ ParseNested(s) \/ ParseReservedRange(s) \/ ParseReservedName(s) \/ ParseExtensions(s)
  <2>1. PICK s \in S :
             \/ Misplaced(s) \/ ParseMessageField(s) \/ ParseMap(s) \/ ParseOneof(s) \/ CloseOneof(s)
             \/ ParseNested(s) \/ ParseReservedRange(s) \/ ParseReservedName(s) \/ ParseExtensions(s)
    BY <1>1
  <2> QED BY <2>1, StatementStep
<1>2. CASE UnterminatedMessage
  BY <1>2, UnterminatedStep
<1>3. CASE CloseBody
  BY <1>3, CloseStep
<1>4. CASE ResolveMessage
  BY <1>4, ResolveStep
<1>5. CASE UNCHANGED messageVars
  BY <1>5, MessageStutters
<1> QED BY <1>1, <1>2, <1>3, <1>4, <1>5 DEF MessageNext

LEMMA LinkedInIInv ==
  ASSUME NEW S, MessageIInv(S)
  PROVE  OneofMembersLinked
<1>1. SUFFICES ASSUME message_status # "rejected", NEW i \in DOMAIN message_read, Member(i)
               PROVE  message.field[Cardinality({j \in 1 .. i : Member(j)})].oneof_index =
                        IF Inside(i) THEN Opened(i) ELSE 0
  BY DEF OneofMembersLinked, Opened
<1>2. /\ i \in Members /\ Describes /\ KeptEarly
      /\ \A j : j \in Members <=> j \in DOMAIN message_read /\ Member(j)
  BY <1>1 DEF MessageIInv, Members, Of, Member
<1>3. {j \in 1 .. i : Member(j)} = {j \in Members : j <= i}
  <2>1. DOMAIN message_read = 1 .. Len(message_read) /\ Len(message_read) \in Nat
    BY DEF MessageIInv, MessageTypeOK
  <2> QED BY <1>2, <2>1
<1>4. message.field[Place(Members, i)] = Fields[i]
  BY <1>2 DEF Describes, Lists, Members
<1>5. Fields[i].oneof_index = IF Inside(i) THEN Opened(i) ELSE 0
  <2>1. CASE Kind(i) = "map"
    <3>1. ~Inside(i)
      BY <1>1, <1>2, <2>1 DEF KeptEarly, Early, Kind
    <3> QED BY <1>1, <2>1, <3>1 DEF Fields, MapFieldOf
  <2>2. CASE Kind(i) # "map"
    BY <1>1, <2>2 DEF Fields, FieldOf
  <2> QED BY <2>1, <2>2
<1> QED BY <1>3, <1>4, <1>5 DEF Place

LEMMA EntriesInIInv ==
  ASSUME NEW S, \A s \in S : WellFormed(s), MessageIInv(S)
  PROVE  EntriesUnambiguous
<1>1. SUFFICES ASSUME message_status = "accepted", NEW i \in DOMAIN message_read, Kind(i) = "map",
                      NEW k \in DOMAIN message.nested_type,
                      message.nested_type[k].name = EntryName(message_read[i])
               PROVE  /\ message.nested_type[k].key = message_read[i].key
                      /\ message.nested_type[k].value = message_read[i].type
  BY DEF EntriesUnambiguous
<1>2. MessageTypeOK(S) /\ Describes /\ Rules
  BY <1>1 DEF MessageIInv, MessageAcceptsByTheRules
<1>3. KeptLate
  BY <1>2, RulesByTime
<1>4. PICK j \in Of({"message", "map"}) : message.nested_type[k] = NestedTypes[j]
  <2> DEFINE seq == message.nested_type
  <2>1. Lists(seq, Of({"message", "map"}), NestedTypes) /\ k \in DOMAIN seq
    BY <1>2 DEF Describes
  <2> HIDE DEF seq
  <2>2. \E j \in Of({"message", "map"}) : seq[k] = NestedTypes[j]
    BY <2>1, ListHas
  <2> QED BY <2>2 DEF seq
<1>5. /\ j \in DOMAIN message_read /\ Kind(j) \in {"message", "map"}
      /\ NestedTypes[j] = IF Kind(j) = "map" THEN MapEntry(message_read[j]) ELSE Declared(message_read[j])
      /\ NestedTypes[i] = MapEntry(message_read[i])
  BY <1>1 DEF Of, NestedTypes
<1>6. TypeNamed(message_read[i]) = EntryName(message_read[i]) /\ TypeNamed(message_read[j]) = NestedTypes[j].name
  BY <1>1, <1>5 DEF TypeNamed, Kind, MapEntry, Declared
<1>7. i = j
  BY <1>1, <1>3, <1>4, <1>5, <1>6 DEF KeptLate, LateAgree, Kind
<1> QED BY <1>4, <1>5, <1>7 DEF MapEntry

(* A message of any length is accepted if and only if its statements keep  *)
(* the documented rules, in whatever order they are written and whichever  *)
(* of the three times each rule is enforced at.                            *)
THEOREM MessagesJudgedByTheRules ==
  ASSUME NEW S, \A r : MessageStatements(r) \subseteq S, \A s \in S : WellFormed(s)
  PROVE  MessageSpec => []MessageAcceptsByTheRules
<1>1. MessageInit => MessageIInv(S)
  BY MessageBegins
<1>2. MessageIInv(S) /\ [MessageNext]_messageVars => MessageIInv(S)'
  BY MessageStays
<1>3. MessageIInv(S) => MessageAcceptsByTheRules
  BY DEF MessageIInv
<1> QED BY <1>1, <1>2, <1>3, PTL DEF MessageSpec

(* The fields of a oneof, and no others, carry the index of the oneof they *)
(* were written in (oneof_index in parse_oneof and parse_field).           *)
THEOREM MembersLinked ==
  ASSUME NEW S, \A r : MessageStatements(r) \subseteq S, \A s \in S : WellFormed(s)
  PROVE  MessageSpec => []OneofMembersLinked
<1>1. MessageInit => MessageIInv(S)
  BY MessageBegins
<1>2. MessageIInv(S) /\ [MessageNext]_messageVars => MessageIInv(S)'
  BY MessageStays
<1>3. MessageIInv(S) => OneofMembersLinked
  BY LinkedInIInv
<1> QED BY <1>1, <1>2, <1>3, PTL DEF MessageSpec

(* In an accepted message the type of a map field names one nested message *)
(* only, which has its key and value types (collect_message_symbols).      *)
THEOREM EntriesStayUnambiguous ==
  ASSUME NEW S, \A r : MessageStatements(r) \subseteq S, \A s \in S : WellFormed(s)
  PROVE  MessageSpec => []EntriesUnambiguous
<1>1. MessageInit => MessageIInv(S)
  BY MessageBegins
<1>2. MessageIInv(S) /\ [MessageNext]_messageVars => MessageIInv(S)'
  BY MessageStays
<1>3. MessageIInv(S) => EntriesUnambiguous
  BY EntriesInIInv
<1> QED BY <1>1, <1>2, <1>3, PTL DEF MessageSpec

-----------------------------------------------------------------------------
(* A file is read under one syntax: statements are checked under the       *)
(* syntax known when they are read, and a syntax declaration that comes    *)
(* after any of them is refused.                                           *)

Record(S) == [statement : S, syntax : {"proto2", "proto3"}]

(* Statements that no rule about the syntax applies to.                    *)
Preamble == {"syntax", "empty"}

(* As long as only such statements have been read the syntax may change.   *)
NothingBefore ==
    status = "reading" /\ ~seen_statement =>
        \A i \in DOMAIN read : read[i].statement.kind \in Preamble

FileIInv(S) ==
    /\ read \in Seq(Record(S))
    /\ syntax \in {"proto2", "proto3"}
    /\ status \in {"reading", "accepted", "rejected"}
    /\ seen_statement \in BOOLEAN
    /\ NothingBefore
    /\ OneSyntax

LEMMA OneMoreFileStatement ==
  ASSUME NEW S, NEW s \in S, FileIInv(S), Reading(s)
  PROVE  /\ read' \in Seq(Record(S))
         /\ \A i \in DOMAIN read' :
              \/ i \in DOMAIN read /\ read'[i] = read[i]
              \/ read'[i].statement = s /\ read'[i].syntax = syntax
         /\ status = "reading"
<1> DEFINE r == [statement |-> s, syntax |-> syntax]
<1>1. r \in Record(S) /\ r.statement = s /\ r.syntax = syntax
  BY DEF FileIInv, Record
<1>2. read' = Append(read, r) /\ read \in Seq(Record(S)) /\ status = "reading"
  BY DEF FileIInv, Reading
<1>3. /\ read' \in Seq(Record(S))
      /\ \A i \in DOMAIN read' : (i \in DOMAIN read /\ read'[i] = read[i]) \/ read'[i] = r
  BY <1>1, <1>2
<1> QED BY <1>1, <1>2, <1>3

(* A statement that leaves the syntax as it is and is counted as seen, if  *)
(* rules about the syntax may apply to it.                                 *)
LEMMA SyntaxKept ==
  ASSUME NEW S, NEW s \in S, FileIInv(S), Reading(s), syntax' = syntax,
         status' \in {"reading", "rejected"},
         seen_statement' \in BOOLEAN,
         seen_statement' = TRUE \/ (seen_statement' = seen_statement /\ s.kind \in Preamble)
  PROVE  FileIInv(S)'
<1>1. /\ read' \in Seq(Record(S))
      /\ \A i \in DOMAIN read' :
           \/ i \in DOMAIN read /\ read'[i] = read[i]
           \/ read'[i].statement = s /\ read'[i].syntax = syntax
      /\ status = "reading"
  BY OneMoreFileStatement
<1>2. OneSyntax'
  BY <1>1 DEF FileIInv, OneSyntax
<1>3. NothingBefore'
  BY <1>1 DEF FileIInv, NothingBefore
<1> QED BY <1>1, <1>2, <1>3 DEF FileIInv

(* A syntax declaration is accepted before all other statements only.      *)
LEMMA SyntaxStep ==
  ASSUME NEW S, NEW s \in S, FileIInv(S), ParseSyntax(s)
  PROVE  FileIInv(S)'
<1>1. /\ Reading(s) /\ s.kind = "syntax"
      /\ seen_statement' = seen_statement
  BY DEF ParseSyntax
<1>2. CASE ~SyntaxAllowed(s)
  BY <1>1, <1>2, SyntaxKept DEF ParseSyntax, Reject, Preamble, FileIInv
<1>3. CASE SyntaxAllowed(s)
  <2>1. syntax' = s.value /\ s.value \in {"proto2", "proto3"} /\ status' = status /\ ~seen_statement
    BY <1>3 DEF ParseSyntax, SyntaxAllowed
  <2>2. /\ read' \in Seq(Record(S))
        /\ \A i \in DOMAIN read' :
             \/ i \in DOMAIN read /\ read'[i] = read[i]
             \/ read'[i].statement = s /\ read'[i].syntax = syntax
        /\ status = "reading"
    BY <1>1, OneMoreFileStatement
  <2>3. \A i \in DOMAIN read' : read'[i].statement.kind \in Preamble
    BY <1>1, <2>1, <2>2 DEF FileIInv, NothingBefore, Preamble
  <2> QED BY <1>1, <2>1, <2>2, <2>3 DEF FileIInv, NothingBefore, OneSyntax, Preamble
<1> QED BY <1>2, <1>3

LEMMA FileNextKeepsIInv ==
  ASSUME NEW S, \A r : FileStatements(r) \subseteq S, FileIInv(S), [FileNext]_fileVars
  PROVE  FileIInv(S)'
<1>1. CASE UNCHANGED fileVars
  BY <1>1 DEF FileIInv, fileVars, tree, seen, NothingBefore, OneSyntax
<1>2. CASE SemanticPass
  BY <1>2 DEF SemanticPass, Reject, tree, seen, FileIInv, NothingBefore, OneSyntax
<1>3. CASE Unterminated
  BY <1>3 DEF Unterminated, Reject, tree, seen, FileIInv, NothingBefore, OneSyntax
<1>4. ASSUME NEW s \in FileStatements(read)
      PROVE  /\ EmptyStatement(s) => FileIInv(S)'
             /\ ParseSyntax(s) => FileIInv(S)'
             /\ ParsePackage(s) => FileIInv(S)'
             /\ ParseImport(s) => FileIInv(S)'
             /\ ParseOption(s) => FileIInv(S)'
             /\ ParseExtend(s) => FileIInv(S)'
             /\ OpenMessage(s) => FileIInv(S)'
             /\ ParseEnum(s) => FileIInv(S)'
             /\ ParseField(s) => FileIInv(S)'
             /\ CloseMessage(s) => FileIInv(S)'
             /\ Unsupported(s) => FileIInv(S)'
  <2>1. s \in S
    BY <1>4
  <2>2. status \in {"reading", "accepted", "rejected"} /\ seen_statement \in BOOLEAN
    BY DEF FileIInv
  <2>3. ASSUME TopLevel(s) \/ Element(s), syntax' = syntax, status' = status \/ status' = "rejected"
        PROVE  FileIInv(S)'
    BY <2>1, <2>2, <2>3, SyntaxKept DEF TopLevel, Element, Reading
  <2>4. EmptyStatement(s) => FileIInv(S)'
    BY <2>1, <2>2, SyntaxKept DEF EmptyStatement, Reading, seen, Preamble
  <2>5. ParseSyntax(s) => FileIInv(S)'
    BY <2>1, SyntaxStep
  <2>6. ParsePackage(s) => FileIInv(S)'
    BY <2>3 DEF ParsePackage, Reject, tree
  <2>7. ParseImport(s) => FileIInv(S)'
    BY <2>3 DEF ParseImport
  <2>8. ParseOption(s) => FileIInv(S)'
    BY <2>3 DEF ParseOption
  <2>9. ParseExtend(s) => FileIInv(S)'
    BY <2>3 DEF ParseExtend, Reject
  <2>10. OpenMessage(s) => FileIInv(S)'
    BY <2>3 DEF OpenMessage
  <2>11. ParseEnum(s) => FileIInv(S)'
    BY <2>3 DEF ParseEnum
  <2>12. ParseField(s) => FileIInv(S)'
    BY <2>3 DEF ParseField, Reject
  <2>13. CloseMessage(s) => FileIInv(S)'
    BY <2>3 DEF CloseMessage
  <2>14. Unsupported(s) => FileIInv(S)'
    BY <2>3 DEF Unsupported, Reject
  <2> QED BY <2>4, <2>5, <2>6, <2>7, <2>8, <2>9, <2>10, <2>11, <2>12, <2>13, <2>14
<1> QED BY <1>1, <1>2, <1>3, <1>4 DEF FileNext

(* Whatever is declared in a file that is not rejected was read, and       *)
(* checked, under the syntax the file turns out to have (the flag          *)
(* seen_statement of parse_file).                                          *)
THEOREM ReadUnderOneSyntax ==
  ASSUME NEW S, \A r : FileStatements(r) \subseteq S
  PROVE  FileSpec => []OneSyntax
<1>1. FileInit => FileIInv(S)
  <2>1. <<>> \in Seq(Record(S)) /\ DOMAIN <<>> = {}
    OBVIOUS
  <2> QED BY <2>1 DEF FileInit, FileIInv, NothingBefore, OneSyntax
<1>2. FileIInv(S) /\ [FileNext]_fileVars => FileIInv(S)'
  BY FileNextKeepsIInv
<1>3. FileIInv(S) => OneSyntax
  BY DEF FileIInv
<1> QED BY <1>1, <1>2, <1>3, PTL DEF FileSpec

-----------------------------------------------------------------------------
(* Prefixes and suffixes.                                                  *)

LEMMA PrefixIs ==
  ASSUME NEW A, NEW s \in Seq(A), NEW t \in Seq(A)
  PROVE  IsPrefix(s, t) <=> Len(s) <= Len(t) /\ \A j \in 1 .. Len(s) : s[j] = t[j]
<1>1. /\ Len(s) \in Nat /\ Len(t) \in Nat
      /\ \A j \in 1 .. Len(s) : s[j] \in A
      /\ \A j \in 1 .. Len(t) : t[j] \in A
  OBVIOUS
<1>2. ASSUME Len(s) <= Len(t)
      PROVE  SubSeq(s, 1, Len(s)) = SubSeq(t, 1, Len(s)) <=> \A j \in 1 .. Len(s) : s[j] = t[j]
  <2>1. SubSeq(s, 1, Len(s)) = s
    BY SubSeqFull
  <2>2. \A j \in 1 .. Len(s) : t[j] \in A
    BY <1>1, <1>2
  <2>3. /\ SubSeq(t, 1, Len(s)) \in Seq(A)
        /\ Len(SubSeq(t, 1, Len(s))) = Len(s)
        /\ \A j \in 1 .. Len(s) : SubSeq(t, 1, Len(s))[j] = t[j]
    <3>1. /\ SubSeq(t, 1, Len(s)) \in Seq(A)
          /\ Len(SubSeq(t, 1, Len(s))) = IF 1 <= Len(s) THEN Len(s) - 1 + 1 ELSE 0
          /\ \A j \in 1 .. Len(s) - 1 + 1 : SubSeq(t, 1, Len(s))[j] = t[1 + j - 1]
      BY <1>1, <2>2, SubSeqProperties
    <3>2. Len(s) - 1 + 1 = Len(s) /\ (~(1 <= Len(s)) => Len(s) = 0) /\ \A j \in 1 .. Len(s) : 1 + j - 1 = j
      BY <1>1
    <3> QED BY <3>1, <3>2
  <2>4. s = SubSeq(t, 1, Len(s)) <=> \A j \in 1 .. Len(s) : s[j] = SubSeq(t, 1, Len(s))[j]
    BY <2>3, SeqEqual
  <2> QED BY <2>1, <2>3, <2>4
<1> QED BY <1>2 DEF IsPrefix

LEMMA ReverseIs ==
  ASSUME NEW A, NEW s \in Seq(A)
  PROVE  /\ Reverse(s) \in Seq(A) /\ Len(Reverse(s)) = Len(s) /\ Len(s) \in Nat
         /\ \A j \in 1 .. Len(s) : Reverse(s)[j] = s[Len(s) - j + 1]
<1>1. Len(s) \in Nat /\ \A j \in 1 .. Len(s) : s[j] \in A
  OBVIOUS
<1>2. \A j \in 1 .. Len(s) : Len(s) - j + 1 \in 1 .. Len(s)
  BY <1>1
<1>3. Reverse(s) \in [1 .. Len(s) -> A]
  BY <1>1, <1>2 DEF Reverse
<1>4. \A n \in Nat : \A q \in [1 .. n -> A] : q \in Seq(A) /\ Len(q) = n
  OBVIOUS
<1> QED BY <1>1, <1>3, <1>4 DEF Reverse

LEMMA SuffixIs ==
  ASSUME NEW A, NEW s \in Seq(A), NEW t \in Seq(A)
  PROVE  IsSuffix(s, t) <=>
           Len(s) <= Len(t) /\ \A j \in 1 .. Len(s) : s[j] = t[Len(t) - Len(s) + j]
<1> DEFINE m == Len(s)
           n == Len(t)
<1>1. /\ Reverse(s) \in Seq(A) /\ Len(Reverse(s)) = m /\ m \in Nat
      /\ \A j \in 1 .. m : Reverse(s)[j] = s[m - j + 1]
  BY ReverseIs
<1>2. /\ Reverse(t) \in Seq(A) /\ Len(Reverse(t)) = n /\ n \in Nat
      /\ \A j \in 1 .. n : Reverse(t)[j] = t[n - j + 1]
  BY ReverseIs
<1>3. IsPrefix(Reverse(s), Reverse(t)) <=> m <= n /\ \A j \in 1 .. m : Reverse(s)[j] = Reverse(t)[j]
  BY <1>1, <1>2, PrefixIs
<1> SUFFICES ASSUME m <= n
             PROVE  (\A j \in 1 .. m : Reverse(s)[j] = Reverse(t)[j]) <=> \A j \in 1 .. m : s[j] = t[n - m + j]
  BY <1>3 DEF IsSuffix
<1> HIDE DEF m, n
<1>4. ASSUME NEW j \in 1 .. m
      PROVE  Reverse(s)[j] = s[m - j + 1] /\ Reverse(t)[j] = t[n - j + 1]
  <2>1. j \in 1 .. n
    BY <1>1, <1>2
  <2> QED BY <1>1, <1>2, <2>1
<1>5. \A j \in 1 .. m : m - j + 1 \in 1 .. m /\ m - (m - j + 1) + 1 = j /\ n - m + (m - j + 1) = n - j + 1
  BY <1>1, <1>2
<1>6. ASSUME \A j \in 1 .. m : Reverse(s)[j] = Reverse(t)[j], NEW j \in 1 .. m
      PROVE  s[j] = t[n - m + j]
  <2> DEFINE i == m - j + 1
  <2>1. i \in 1 .. m /\ m - i + 1 = j /\ n - i + 1 = n - m + j
    BY <1>1, <1>2
  <2> HIDE DEF i
  <2>2. Reverse(s)[i] = s[j] /\ Reverse(t)[i] = t[n - m + j]
    BY <1>4, <2>1
  <2> QED BY <1>6, <2>1, <2>2
<1>7. ASSUME \A j \in 1 .. m : s[j] = t[n - m + j], NEW j \in 1 .. m
      PROVE  Reverse(s)[j] = Reverse(t)[j]
  <2>1. m - j + 1 \in 1 .. m /\ n - m + (m - j + 1) = n - j + 1
    BY <1>5
  <2>2. s[m - j + 1] = t[n - j + 1]
    BY <1>7, <2>1
  <2> QED BY <1>4, <2>2
<1> QED BY <1>6, <1>7

-----------------------------------------------------------------------------
(* Looking up a relative name.                                             *)

Candidate(path, from, k) == SubSeq(from, 1, k) \o path
FoundAs(name) == [Found EXCEPT !.name = name]

(* The scopes, of the first k, in which the name denotes a type.           *)
Reached(path, from, k) == {j \in 0 .. k : Candidate(path, from, j) \in Symbols}

Answer(path, from, k) ==
    IF Reached(path, from, k) = {} THEN NotFound
    ELSE FoundAs(Candidate(path, from, Max(Reached(path, from, k))))

AnswerFrom(t, path, from, k) ==
    IF Candidate(path, from, k) \in Symbols THEN FoundAs(Candidate(path, from, k))
    ELSE IF k = 0 THEN NotFound
    ELSE t[k - 1]

LEMMA AnswerStep ==
  ASSUME NEW path, NEW from, NEW k \in Nat
  PROVE  Answer(path, from, k) =
           IF Candidate(path, from, k) \in Symbols THEN FoundAs(Candidate(path, from, k))
           ELSE IF k = 0 THEN NotFound
           ELSE Answer(path, from, k - 1)
<1> DEFINE M == Reached(path, from, k)
<1>1. CASE Candidate(path, from, k) \in Symbols
  <2>1. k \in M /\ M \subseteq 0 .. k
    BY <1>1 DEF Reached
  <2> HIDE DEF M
  <2>2. Max(M) \in M /\ Max(M) >= k
    BY <2>1, GreatestNatural
  <2>3. Max(M) \in 0 .. k
    BY <2>1, <2>2
  <2>4. Max(M) = k
    BY <2>2, <2>3
  <2> QED BY <1>1, <2>1, <2>4 DEF Answer, M
<1>2. CASE Candidate(path, from, k) \notin Symbols
  <2>1. CASE k = 0
    <3>1. M = {}
      BY <1>2, <2>1 DEF Reached
    <3> QED BY <1>2, <2>1, <3>1 DEF Answer
  <2>2. CASE k # 0
    <3>1. 0 .. k = (0 .. k - 1) \cup {k}
      BY <2>2
    <3>2. M = Reached(path, from, k - 1)
      BY <1>2, <3>1 DEF Reached
    <3> QED BY <1>2, <2>2, <3>2 DEF Answer
  <2> QED BY <2>1, <2>2
<1> QED BY <1>1, <1>2

IsTry(t, path, from) == t = [k \in 0 .. Len(from) |-> AnswerFrom(t, path, from, k)]

LEMMA LookupIs ==
  ASSUME NEW path, NEW from, Len(from) \in Nat
  PROVE  Lookup(path, from) = Answer(path, from, Len(from))
<1> DEFINE n == Len(from)
           s == CHOOSE t : IsTry(t, path, from)
           a == [k \in 0 .. n |-> Answer(path, from, k)]
<1>1. Lookup(path, from) = s[n]
  BY DEF Lookup, IsTry, AnswerFrom, Candidate, FoundAs
<1>2. IsTry(a, path, from)
  <2>1. \A k \in 0 .. n : k # 0 => k - 1 \in 0 .. n
    OBVIOUS
  <2>2. \A k \in 0 .. n : a[k] = Answer(path, from, k)
    OBVIOUS
  <2> HIDE DEF a
  <2>3. \A k \in 0 .. n : Answer(path, from, k) = AnswerFrom(a, path, from, k)
    BY <2>1, <2>2, AnswerStep DEF AnswerFrom
  <2>4. a = [k \in 0 .. n |-> AnswerFrom(a, path, from, k)]
    BY <2>3 DEF a
  <2> QED BY <2>4 DEF IsTry
<1>3. IsTry(s, path, from)
  <2> DEFINE P(t) == IsTry(t, path, from)
  <2>1. P(a)
    BY <1>2
  <2> HIDE DEF P
  <2>2. P(CHOOSE t : P(t))
    BY <2>1
  <2> QED BY <2>2 DEF P
<1> HIDE DEF s, a
<1>4. \A k \in 0 .. n : s[k] = AnswerFrom(s, path, from, k)
  BY <1>3 DEF IsTry
<1> DEFINE T == {k \in 0 .. n : s[k] = Answer(path, from, k)}
<1> HIDE DEF n
<1>5. n \in Nat /\ 0 \in 0 .. n /\ \A k \in 1 .. n : k \in Nat /\ k # 0 /\ k \in 0 .. n
  BY DEF n
<1>6. 0 \in T
  <2>1. s[0] = AnswerFrom(s, path, from, 0)
    BY <1>4, <1>5
  <2>2. Answer(path, from, 0) = AnswerFrom(s, path, from, 0)
    BY AnswerStep DEF AnswerFrom
  <2> QED BY <1>5, <2>1, <2>2
<1>7. ASSUME NEW k \in 1 .. n, k - 1 \in T
      PROVE  k \in T
  <2>1. s[k] = AnswerFrom(s, path, from, k) /\ s[k - 1] = Answer(path, from, k - 1)
    BY <1>4, <1>5, <1>7
  <2>2. Answer(path, from, k) = AnswerFrom(s, path, from, k)
    BY <1>5, <2>1, AnswerStep DEF AnswerFrom
  <2> QED BY <1>5, <2>1, <2>2
<1>8. 0 .. n \subseteq T
  <2> HIDE DEF T
  <2> QED BY <1>5, <1>6, <1>7, Induction
<1>9. n \in 0 .. n
  BY <1>5
<1> QED BY <1>1, <1>8, <1>9 DEF n

(* A name that ends in the reference and begins as the place it stands in  *)
(* is one the lookup tries.                                                *)
LEMMA Candidates ==
  ASSUME NEW A, NEW path \in Seq(A), NEW from \in Seq(A), NEW name \in Seq(A)
  PROVE  IsSuffix(path, name) /\ IsPrefix(SubSeq(name, 1, Len(name) - Len(path)), from) <=>
           \E k \in 0 .. Len(from) : name = Candidate(path, from, k)
<1> DEFINE m == Len(path)
           n == Len(from)
           l == Len(name)
<1>1. /\ m \in Nat /\ n \in Nat /\ l \in Nat
      /\ \A j \in 1 .. m : path[j] \in A
      /\ \A j \in 1 .. n : from[j] \in A
      /\ \A j \in 1 .. l : name[j] \in A
  OBVIOUS
<1>2. ASSUME NEW k \in 0 .. n
      PROVE  /\ SubSeq(from, 1, k) \in Seq(A) /\ Len(SubSeq(from, 1, k)) = k
             /\ \A j \in 1 .. k : SubSeq(from, 1, k)[j] = from[j]
  <2>1. \A j \in 1 .. k : from[j] \in A
    BY <1>1
  <2>2. /\ SubSeq(from, 1, k) \in Seq(A)
        /\ Len(SubSeq(from, 1, k)) = IF 1 <= k THEN k - 1 + 1 ELSE 0
        /\ \A j \in 1 .. k - 1 + 1 : SubSeq(from, 1, k)[j] = from[1 + j - 1]
    BY <2>1, SubSeqProperties
  <2>3. k - 1 + 1 = k /\ (~(1 <= k) => k = 0) /\ \A j \in 1 .. k : 1 + j - 1 = j
    OBVIOUS
  <2> QED BY <2>2, <2>3
<1>3. ASSUME NEW k \in 0 .. l
      PROVE  /\ SubSeq(name, 1, k) \in Seq(A) /\ Len(SubSeq(name, 1, k)) = k
             /\ \A j \in 1 .. k : SubSeq(name, 1, k)[j] = name[j]
  <2>1. \A j \in 1 .. k : name[j] \in A
    BY <1>1
  <2>2. /\ SubSeq(name, 1, k) \in Seq(A)
        /\ Len(SubSeq(name, 1, k)) = IF 1 <= k THEN k - 1 + 1 ELSE 0
        /\ \A j \in 1 .. k - 1 + 1 : SubSeq(name, 1, k)[j] = name[1 + j - 1]
    BY <2>1, SubSeqProperties
  <2>3. k - 1 + 1 = k /\ (~(1 <= k) => k = 0) /\ \A j \in 1 .. k : 1 + j - 1 = j
    OBVIOUS
  <2> QED BY <2>2, <2>3
<1>4. ASSUME NEW k \in 0 .. n
      PROVE  /\ Candidate(path, from, k) \in Seq(A) /\ Len(Candidate(path, from, k)) = k + m
             /\ \A j \in 1 .. k + m : Candidate(path, from, k)[j] = IF j <= k THEN from[j] ELSE path[j - k]
  <2> DEFINE u == SubSeq(from, 1, k)
  <2>1. u \in Seq(A) /\ Len(u) = k /\ \A j \in 1 .. k : u[j] = from[j]
    BY <1>2
  <2> HIDE DEF u
  <2>2. /\ u \o path \in Seq(A) /\ Len(u \o path) = k + m
        /\ \A j \in 1 .. k + m : (u \o path)[j] = IF j <= k THEN u[j] ELSE path[j - k]
    BY <2>1, ConcatProperties
  <2>3. \A j \in 1 .. k + m : j <= k => j \in 1 .. k
    OBVIOUS
  <2> QED BY <2>1, <2>2, <2>3 DEF Candidate, u
<1>5. IsSuffix(path, name) <=> m <= l /\ \A j \in 1 .. m : path[j] = name[l - m + j]
  BY SuffixIs
<1>6. m <= l => (IsPrefix(SubSeq(name, 1, l - m), from) <=> l - m <= n /\ \A j \in 1 .. l - m : name[j] = from[j])
  <2> DEFINE v == SubSeq(name, 1, l - m)
  <2> SUFFICES ASSUME m <= l
               PROVE  IsPrefix(v, from) <=> l - m <= n /\ \A j \in 1 .. l - m : name[j] = from[j]
    OBVIOUS
  <2>1. l - m \in 0 .. l
    BY <1>1
  <2>2. v \in Seq(A) /\ Len(v) = l - m /\ \A j \in 1 .. l - m : v[j] = name[j]
    BY <1>3, <2>1
  <2> HIDE DEF v
  <2>3. IsPrefix(v, from) <=> Len(v) <= n /\ \A j \in 1 .. Len(v) : v[j] = from[j]
    BY <2>2, PrefixIs
  <2> QED BY <2>2, <2>3
<1>7. ASSUME IsSuffix(path, name), IsPrefix(SubSeq(name, 1, l - m), from)
      PROVE  \E k \in 0 .. n : name = Candidate(path, from, k)
  <2> DEFINE k == l - m
             c == Candidate(path, from, k)
  <2>1. /\ k \in 0 .. n /\ l = k + m
        /\ \A j \in 1 .. m : path[j] = name[k + j]
        /\ \A j \in 1 .. k : name[j] = from[j]
    BY <1>1, <1>5, <1>6, <1>7
  <2> HIDE DEF k
  <2>2. c \in Seq(A) /\ Len(c) = k + m /\ \A j \in 1 .. k + m : c[j] = IF j <= k THEN from[j] ELSE path[j - k]
    BY <1>4, <2>1
  <2> HIDE DEF c, m, n, l
  <2>3. ASSUME NEW j \in 1 .. l
        PROVE  name[j] = c[j]
    <3>1. CASE j <= k
      <4>1. j \in 1 .. k
        BY <1>1, <2>1, <3>1
      <4> QED BY <2>1, <2>2, <3>1, <4>1
    <3>2. CASE ~(j <= k)
      <4>1. j - k \in 1 .. m /\ k + (j - k) = j
        BY <1>1, <2>1, <3>2
      <4>2. path[j - k] = name[j]
        BY <2>1, <4>1
      <4> QED BY <2>1, <2>2, <3>2, <4>2
    <3> QED BY <3>1, <3>2
  <2>4. name = c
    BY <2>1, <2>2, <2>3, SeqEqual DEF l
  <2> QED BY <2>1, <2>4 DEF c
<1>8. ASSUME NEW k \in 0 .. n, name = Candidate(path, from, k)
      PROVE  IsSuffix(path, name) /\ IsPrefix(SubSeq(name, 1, l - m), from)
  <2>1. l = k + m /\ \A j \in 1 .. k + m : name[j] = IF j <= k THEN from[j] ELSE path[j - k]
    BY <1>4, <1>8
  <2> HIDE DEF m, n, l
  <2>2. l - m = k /\ m <= l /\ k <= n
    BY <1>1, <2>1
  <2>3. \A j \in 1 .. k : j \in 1 .. k + m /\ j <= k
    BY <1>1
  <2>4. \A j \in 1 .. m : k + j \in 1 .. k + m /\ ~(k + j <= k) /\ k + j - k = j
    BY <1>1
  <2>5. \A j \in 1 .. m : path[j] = name[k + j]
    BY <2>1, <2>4
  <2>6. \A j \in 1 .. k : name[j] = from[j]
    BY <2>1, <2>3
  <2> QED BY <1>5, <1>6, <2>2, <2>5, <2>6
<1> QED BY <1>7, <1>8

LEMMA CandidateIs ==
  ASSUME NEW A, NEW path \in Seq(A), NEW from \in Seq(A), NEW k \in 0 .. Len(from)
  PROVE  Candidate(path, from, k) \in Seq(A) /\ Len(Candidate(path, from, k)) = k + Len(path)
<1> DEFINE u == SubSeq(from, 1, k)
<1>1. \A j \in 1 .. k : from[j] \in A
  OBVIOUS
<1>2. u \in Seq(A) /\ Len(u) = IF 1 <= k THEN k - 1 + 1 ELSE 0
  BY <1>1, SubSeqProperties
<1>3. Len(u) = k
  BY <1>2
<1> HIDE DEF u
<1>4. u \o path \in Seq(A) /\ Len(u \o path) = Len(u) + Len(path)
  BY <1>2, ConcatProperties
<1> QED BY <1>3, <1>4 DEF Candidate, u

(* The lookup finds a meaning of the reference if there is one, and then   *)
(* the innermost.                                                          *)
LEMMA ResolutionIs ==
  ASSUME NEW A, package \in Seq(A), \A name \in Symbols : name \in Seq(A),
         NEW f, f.scope \in Seq(A), f.ref.path \in Seq(A)
  PROVE  LET r == Resolution(f)
         IN  \/ r.found = FALSE /\ Meanings(f) = {}
             \/ /\ r.found = TRUE /\ r.name \in Meanings(f)
                /\ \A name \in Meanings(f) : Len(name) <= Len(r.name)
<1> DEFINE path == f.ref.path
           from == package \o f.scope
<1>1. /\ \A name : FoundAs(name).found = TRUE /\ FoundAs(name).name = name
      /\ NotFound.found = FALSE
  BY DEF FoundAs, Found, NotFound
<1>2. CASE f.ref.absolute
  <2>1. Resolution(f) = IF path \in Symbols THEN FoundAs(path) ELSE NotFound
    BY <1>2 DEF Resolution, ResolveName, FoundAs
  <2>2. Meanings(f) = {name \in Symbols : name = path}
    BY <1>2 DEF Meanings
  <2>3. Len(path) <= Len(path)
    OBVIOUS
  <2> QED BY <1>1, <2>1, <2>2, <2>3
<1>3. CASE ~f.ref.absolute
  <2> DEFINE n == Len(from)
             K == Reached(path, from, n)
  <2>1. from \in Seq(A) /\ n \in Nat /\ path \in Seq(A) /\ Len(path) \in Nat
    OBVIOUS
  <2>2. Resolution(f) = Lookup(path, from)
    BY <1>3 DEF Resolution, ResolveName
  <2>3. Meanings(f) = {name \in Symbols : IsSuffix(path, name) /\ IsPrefix(SubSeq(name, 1, Len(name) - Len(path)), from)}
    BY <1>3 DEF Meanings
  <2> HIDE DEF path, from
  <2>4. Resolution(f) = Answer(path, from, n)
    BY <2>1, <2>2, LookupIs
  <2>5. Meanings(f) = {name \in Symbols : \E k \in 0 .. n : name = Candidate(path, from, k)}
    BY <2>1, <2>3, Candidates
  <2>6. Meanings(f) = {Candidate(path, from, k) : k \in K}
    BY <2>5 DEF Reached
  <2>7. CASE K = {}
    <3>1. Resolution(f) = NotFound
      BY <2>4, <2>7 DEF Answer
    <3> QED BY <1>1, <2>6, <2>7, <3>1
  <2>8. CASE K # {}
    <3> DEFINE g == Max(K)
    <3>1. K \subseteq 0 .. n
      BY DEF Reached
    <3>2. Resolution(f) = FoundAs(Candidate(path, from, g))
      BY <2>4, <2>8 DEF Answer
    <3> HIDE DEF K, n
    <3>3. g \in K /\ \A k \in K : g >= k
      BY <2>1, <2>8, <3>1, GreatestNatural
    <3> HIDE DEF g
    <3>4. ASSUME NEW k \in K
          PROVE  Len(Candidate(path, from, k)) <= Len(Candidate(path, from, g))
      <4>1. k \in 0 .. Len(from) /\ g \in 0 .. Len(from) /\ k <= g
        BY <2>1, <3>1, <3>3 DEF n
      <4>2. Len(Candidate(path, from, k)) = k + Len(path) /\ Len(Candidate(path, from, g)) = g + Len(path)
        BY <2>1, <4>1, CandidateIs
      <4> QED BY <2>1, <4>1, <4>2
    <3>5. Resolution(f).found = TRUE /\ Resolution(f).name = Candidate(path, from, g)
      BY <1>1, <3>2
    <3> QED BY <2>6, <3>3, <3>4, <3>5
  <2> QED BY <2>7, <2>8
<1> QED BY <1>2, <1>3

LEMMA KindIs ==
  ASSUME NEW name \in Symbols
  PROVE  \E j \in DOMAIN types : package \o types[j].path = name /\ types[j].kind = KindOf(name)
<1> DEFINE P(i) == FullName(types[i]) = name
<1>1. \E i \in DOMAIN types : P(i)
  BY DEF Symbols
<1> DEFINE j == CHOOSE i \in DOMAIN types : P(i)
<1>2. KindOf(name) = types[j].kind
  BY DEF KindOf
<1> HIDE DEF P
<1>3. j \in DOMAIN types /\ P(j)
  BY <1>1
<1> QED BY <1>2, <1>3 DEF P, FullName

-----------------------------------------------------------------------------
(* While the file is read its types and fields are as they were written;   *)
(* the semantic pass then binds every field at once.                       *)

TypesWritten(A, S) == [path : Seq(A), kind : {"message", "enum"}, values : {{}} \cup {s.values : s \in S}]

FieldsWritten(A, S) ==
    [scope : Seq(A), ref : {s.ref : s \in {t \in S : t.kind = "field"}}, default : {s.default : s \in S},
     type : {"message"}, type_name : {<<>>}]

AsWritten(A, S) ==
    /\ package \in Seq(A) /\ scope \in Seq(A)
    /\ types \in Seq(TypesWritten(A, S))
    /\ fields \in Seq(FieldsWritten(A, S))
    /\ warnings = {}

BindingIInv(A, S) ==
    /\ status \in {"reading", "accepted", "rejected"}
    /\ status = "reading" => AsWritten(A, S)
    /\ BoundToInnermost

LEMMA WrittenStep ==
  ASSUME NEW A, NEW S, NEW s \in S, NamesFrom(A, s), BindingIInv(A, S),
         \/ EmptyStatement(s) \/ ParseSyntax(s) \/ ParsePackage(s) \/ ParseImport(s) \/ ParseOption(s)
         \/ ParseExtend(s) \/ OpenMessage(s) \/ ParseEnum(s) \/ ParseField(s) \/ CloseMessage(s)
         \/ Unsupported(s)
  PROVE  BindingIInv(A, S)'
<1>1. status = "reading"
  BY DEF Reading, TopLevel, Element, EmptyStatement, ParseSyntax, ParsePackage, ParseImport, ParseOption,
         ParseExtend, OpenMessage, ParseEnum, ParseField, CloseMessage, Unsupported
<1>2. /\ package \in Seq(A) /\ scope \in Seq(A)
      /\ types \in Seq(TypesWritten(A, S)) /\ fields \in Seq(FieldsWritten(A, S)) /\ warnings = {}
  BY <1>1 DEF BindingIInv, AsWritten
<1>3. SUFFICES status' = "rejected" \/ (status' = "reading" /\ AsWritten(A, S)')
  BY DEF BindingIInv, BoundToInnermost
<1>4. ASSUME UNCHANGED <<package, scope, types, fields, warnings>>
      PROVE  AsWritten(A, S)'
  BY <1>2, <1>4 DEF AsWritten
<1>5. CASE EmptyStatement(s)
  BY <1>1, <1>4, <1>5 DEF EmptyStatement, tree
<1>6. CASE ParseSyntax(s)
  BY <1>1, <1>4, <1>6 DEF ParseSyntax, Reject, tree
<1>7. CASE ParsePackage(s)
  <2>1. CASE ~seen_package
    <3>1. package' = s.path /\ s.kind = "package" /\ UNCHANGED <<scope, types, fields, warnings, status>>
      BY <1>7, <2>1 DEF ParsePackage
    <3>2. package' \in Seq(A)
      BY <3>1 DEF NamesFrom
    <3> QED BY <1>1, <1>2, <3>1, <3>2 DEF AsWritten
  <2>2. CASE seen_package
    BY <1>7, <2>2 DEF ParsePackage, Reject
  <2> QED BY <2>1, <2>2
<1>8. CASE ParseImport(s)
  BY <1>1, <1>4, <1>8 DEF ParseImport
<1>9. CASE ParseOption(s)
  BY <1>1, <1>4, <1>9 DEF ParseOption, tree
<1>10. CASE ParseExtend(s)
  BY <1>1, <1>4, <1>10 DEF ParseExtend, Reject, tree
<1>11. CASE OpenMessage(s)
  <2> DEFINE t == [path |-> Append(scope, s.name), kind |-> "message", values |-> {}]
  <2>1. /\ types' = Append(types, t) /\ scope' = Append(scope, s.name) /\ s.kind = "message"
        /\ UNCHANGED <<package, fields, warnings, status>>
    BY <1>11 DEF OpenMessage
  <2>2. s.name \in A
    BY <2>1 DEF NamesFrom
  <2>3. scope' \in Seq(A)
    BY <1>2, <2>1, <2>2
  <2>4. t \in TypesWritten(A, S)
    BY <2>1, <2>3 DEF TypesWritten
  <2> HIDE DEF t
  <2>5. types' \in Seq(TypesWritten(A, S))
    BY <1>2, <2>1, <2>4
  <2> QED BY <1>1, <1>2, <2>1, <2>3, <2>5 DEF AsWritten, FieldsWritten, TypesWritten
<1>12. CASE ParseEnum(s)
  <2> DEFINE t == [path |-> Append(scope, s.name), kind |-> "enum", values |-> s.values]
  <2>1. /\ types' = Append(types, t) /\ s.kind = "enum"
        /\ UNCHANGED <<package, scope, fields, warnings, status>>
    BY <1>12 DEF ParseEnum
  <2>2. s.name \in A
    BY <2>1 DEF NamesFrom
  <2>3. Append(scope, s.name) \in Seq(A) /\ s.values \in {{}} \cup {u.values : u \in S}
    BY <1>2, <2>2
  <2>4. t \in TypesWritten(A, S)
    BY <2>3 DEF TypesWritten
  <2> HIDE DEF t
  <2>5. types' \in Seq(TypesWritten(A, S))
    BY <1>2, <2>1, <2>4
  <2> QED BY <1>1, <1>2, <2>1, <2>5 DEF AsWritten, FieldsWritten, TypesWritten
<1>13. CASE ParseField(s)
  <2> DEFINE f == [scope |-> scope, ref |-> s.ref, default |-> s.default, type |-> "message", type_name |-> <<>>]
  <2>1. CASE s.default = "none" \/ syntax = "proto2"
    <3>1. fields' = Append(fields, f) /\ s.kind = "field" /\ UNCHANGED <<package, types, warnings, scope, status>>
      BY <1>13, <2>1 DEF ParseField
    <3>2. f \in FieldsWritten(A, S)
      BY <1>2, <3>1 DEF FieldsWritten
    <3> HIDE DEF f
    <3>3. fields' \in Seq(FieldsWritten(A, S))
      BY <1>2, <3>1, <3>2
    <3> QED BY <1>1, <1>2, <3>1, <3>3 DEF AsWritten, FieldsWritten, TypesWritten
  <2>2. CASE ~(s.default = "none" \/ syntax = "proto2")
    BY <1>13, <2>2 DEF ParseField, Reject
  <2> QED BY <2>1, <2>2
<1>14. CASE CloseMessage(s)
  <2>1. scope' = Front(scope) /\ scope # <<>> /\ UNCHANGED <<package, types, fields, warnings, status>>
    BY <1>14 DEF CloseMessage, tree
  <2>2. SubSeq(scope, 1, Len(scope) - 1) \in Seq(A)
    <3>1. \A i \in 1 .. Len(scope) - 1 : scope[i] \in A
      BY <1>2
    <3>2. Len(scope) - 1 \in Int
      BY <1>2
    <3> QED BY <3>1, <3>2, SubSeqProperties
  <2> QED BY <1>1, <1>2, <2>1, <2>2 DEF AsWritten, Front, FieldsWritten, TypesWritten
<1>15. CASE Unsupported(s)
  BY <1>15 DEF Unsupported, Reject
<1> QED BY <1>5, <1>6, <1>7, <1>8, <1>9, <1>10, <1>11, <1>12, <1>13, <1>14, <1>15

LEMMA BindingStep ==
  ASSUME NEW A, NEW S, \A s \in S : NamesFrom(A, s), BindingIInv(A, S), SemanticPass
  PROVE  BindingIInv(A, S)'
<1>1. status = "reading" /\ AsWritten(A, S)
  BY DEF SemanticPass, BindingIInv
<1>2. CASE ~Accepted
  BY <1>2 DEF SemanticPass, Reject, BindingIInv, BoundToInnermost
<1>3. CASE Accepted
  <2>1. /\ status' = "accepted" /\ fields' = [i \in DOMAIN fields |-> Resolved(fields[i])]
        /\ warnings' = warnings \cup {[scope |-> g.scope, ref |-> g.ref] :
                                        g \in {h \in ToSet(fields) : ~Resolution(h).found}}
        /\ package' = package /\ types' = types
    BY <1>3 DEF SemanticPass
  <2>2. Symbols' = Symbols /\ \A f : Meanings(f)' = Meanings(f)
    BY <2>1 DEF Meanings, Symbols, FullName
  <2>3. package \in Seq(A) /\ \A name \in Symbols : name \in Seq(A)
    <3>1. \A i \in DOMAIN types : types[i].path \in Seq(A)
      <4>1. types \in Seq(TypesWritten(A, S))
        BY <1>1 DEF AsWritten
      <4>2. \A i \in DOMAIN types : types[i] \in TypesWritten(A, S)
        BY <4>1
      <4> QED BY <4>2 DEF TypesWritten
    <3>2. package \in Seq(A)
      BY <1>1 DEF AsWritten
    <3>3. \A p, q \in Seq(A) : p \o q \in Seq(A)
      BY ConcatProperties
    <3> QED BY <3>1, <3>2, <3>3 DEF Symbols, FullName
  <2>4. SUFFICES ASSUME NEW i \in DOMAIN fields
                 PROVE  LET f == fields'[i]
                            warned == [scope |-> f.scope, ref |-> f.ref] \in warnings'
                        IN  IF Meanings(f) = {} THEN warned /\ f.type = "message" /\ f.type_name = <<>>
                            ELSE /\ ~warned
                                 /\ f.type_name \in Meanings(f)
                                 /\ \A name \in Meanings(f) : Len(name) <= Len(f.type_name)
                                 /\ \E j \in DOMAIN types :
                                      package \o types[j].path = f.type_name /\ types[j].kind = f.type
    BY <2>1, <2>2 DEF BindingIInv, BoundToInnermost
  <2> DEFINE g == fields[i]
             f == fields'[i]
             r == Resolution(g)
             mark == [scope |-> g.scope, ref |-> g.ref]
  <2>5. g \in FieldsWritten(A, S) /\ g \in ToSet(fields)
    <3>1. fields \in Seq(FieldsWritten(A, S))
      BY <1>1 DEF AsWritten
    <3>2. \A k \in DOMAIN fields : fields[k] \in FieldsWritten(A, S)
      BY <3>1
    <3> QED BY <2>4, <3>2 DEF ToSet
  <2>6. g.scope \in Seq(A) /\ g.ref.path \in Seq(A) /\ g.type = "message" /\ g.type_name = <<>>
    BY <2>5 DEF FieldsWritten, NamesFrom
  <2>7. f = IF r.found THEN [g EXCEPT !.type = KindOf(r.name), !.type_name = r.name] ELSE g
    BY <2>1, <2>4 DEF Resolved
  <2>8. /\ f.scope = g.scope /\ f.ref = g.ref
        /\ r.found => f.type = KindOf(r.name) /\ f.type_name = r.name
        /\ ~r.found => f.type = "message" /\ f.type_name = <<>>
    <3> HIDE DEF f, r
    <3>1. DOMAIN g = {"scope", "ref", "default", "type", "type_name"}
      BY <2>5 DEF FieldsWritten
    <3> HIDE DEF g
    <3> QED BY <2>6, <2>7, <3>1
  <2>9. \/ r.found = FALSE /\ Meanings(g) = {}
        \/ /\ r.found = TRUE /\ r.name \in Meanings(g)
           /\ \A name \in Meanings(g) : Len(name) <= Len(r.name)
    BY <2>3, <2>6, ResolutionIs
  <2>10. Meanings(f) = Meanings(g)
    BY <2>8 DEF Meanings
  <2>11. mark \in warnings' <=> ~r.found
    <3>1. warnings' = {[scope |-> h.scope, ref |-> h.ref] : h \in {e \in ToSet(fields) : ~Resolution(e).found}}
      BY <1>1, <2>1 DEF AsWritten
    <3>2. ASSUME NEW h, [scope |-> h.scope, ref |-> h.ref] = mark
          PROVE  Resolution(h) = r
      <4>1. h.scope = g.scope /\ h.ref = g.ref
        BY <3>2
      <4> QED BY <4>1 DEF Resolution
    <3> HIDE DEF g, r
    <3> QED BY <2>5, <3>1, <3>2 DEF r
  <2>12. r.found => \E j \in DOMAIN types : package \o types[j].path = r.name /\ types[j].kind = KindOf(r.name)
    <3>1. Meanings(g) \subseteq Symbols
      BY DEF Meanings
    <3> QED BY <2>9, <3>1, KindIs
  <2> HIDE DEF f, g, r
  <2> QED BY <2>8, <2>9, <2>10, <2>11, <2>12 DEF f
<1> QED BY <1>2, <1>3

(* In an accepted file every reference is bound to the innermost type that *)
(* its name may mean, wherever in the file the type and the package are    *)
(* declared (resolve_name, resolve_message).                               *)
THEOREM BindsInnermost ==
  ASSUME NEW A, NEW S, \A r : FileStatements(r) \subseteq S, \A s \in S : NamesFrom(A, s)
  PROVE  FileSpec => []BoundToInnermost
<1>1. FileInit => BindingIInv(A, S)
  <2>1. \A B : <<>> \in Seq(B)
    OBVIOUS
  <2> QED BY <2>1 DEF FileInit, BindingIInv, AsWritten, BoundToInnermost
<1>2. BindingIInv(A, S) /\ [FileNext]_fileVars => BindingIInv(A, S)'
  <2> SUFFICES ASSUME BindingIInv(A, S), [FileNext]_fileVars
               PROVE  BindingIInv(A, S)'
    OBVIOUS
  <2>1. CASE \E s \in FileStatements(read) :
         \/ EmptyStatement(s) \/ ParseSyntax(s) \/ ParsePackage(s) \/ ParseImport(s) \/ ParseOption(s)
         \/ ParseExtend(s) \/ OpenMessage(s) \/ ParseEnum(s) \/ ParseField(s) \/ CloseMessage(s)
         \/ Unsupported(s)
    <3>1. PICK s \in S :
         \/ EmptyStatement(s) \/ ParseSyntax(s) \/ ParsePackage(s) \/ ParseImport(s) \/ ParseOption(s)
         \/ ParseExtend(s) \/ OpenMessage(s) \/ ParseEnum(s) \/ ParseField(s) \/ CloseMessage(s)
         \/ Unsupported(s)
      BY <2>1
    <3> QED BY <3>1, WrittenStep
  <2>2. CASE SemanticPass
    BY <2>2, BindingStep
  <2>3. CASE Unterminated
    BY <2>3 DEF Unterminated, Reject, BindingIInv, BoundToInnermost
  <2>4. CASE UNCHANGED fileVars
    <3>1. UNCHANGED <<package, types, fields, warnings, scope, status>>
      BY <2>4 DEF fileVars, tree
    <3>2. \A f : Meanings(f)' = Meanings(f)
      BY <3>1 DEF Meanings, Symbols, FullName
    <3>3. BoundToInnermost'
      BY <3>1, <3>2 DEF BindingIInv, BoundToInnermost
    <3>4. AsWritten(A, S)' <=> AsWritten(A, S)
      BY <3>1 DEF AsWritten
    <3> QED BY <3>1, <3>3, <3>4 DEF BindingIInv
  <2> QED BY <2>1, <2>2, <2>3, <2>4 DEF FileNext
<1>3. BindingIInv(A, S) => BoundToInnermost
  BY DEF BindingIInv
<1> QED BY <1>1, <1>2, <1>3, PTL DEF FileSpec

-----------------------------------------------------------------------------
(* The string pool: a block of memory is filled from its start, and what   *)
(* was stored in it stays until the next parse.                            *)

Block == [mem : Seq(Cell), used : Nat]

(* A block in use, with use within its capacity.                           *)
SoundBlock(b) == b \in Block /\ b.used <= Capacity(b)

LEMMA BlockType ==
  ASSUME NEW b \in Block
  PROVE  b.mem \in Seq(Cell) /\ b.used \in Nat /\ Capacity(b) \in Nat
BY DEF Block, Capacity

(* A store into a block with room leaves what is there and puts the text   *)
(* and its terminator behind it.                                           *)
LEMMA StoreFacts ==
  ASSUME NEW b \in Block, NEW text \in Seq(Char), b.used + Len(text) + 1 <= Capacity(b)
  PROVE  LET s == Store(b, text)
         IN  /\ SoundBlock(s) /\ s.used = b.used + Len(text) + 1
             /\ \A i \in 1 .. b.used : s.mem[i] = b.mem[i]
             /\ \A i \in 1 .. Len(text) : s.mem[b.used + i] = text[i]
             /\ s.mem[b.used + Len(text) + 1] = NUL
<1> DEFINE n == Capacity(b)
           u == b.used
           c(i) == IF i \in u + 1 .. u + Len(text) THEN text[i - u]
                   ELSE IF i = u + Len(text) + 1 THEN NUL ELSE b.mem[i]
           s == Store(b, text)
<1>1. n \in Nat /\ u \in Nat /\ Len(text) \in Nat /\ b.mem \in Seq(Cell) /\ n = Len(b.mem)
  BY BlockType DEF Capacity
<1>2. ASSUME NEW i \in 1 .. n
      PROVE  c(i) \in Cell
  <2>1. CASE i \in u + 1 .. u + Len(text)
    <3>1. i - u \in 1 .. Len(text)
      BY <1>1, <2>1
    <3>2. text[i - u] \in Char
      BY <3>1
    <3> QED BY <2>1, <3>2 DEF Cell
  <2>2. CASE i \notin u + 1 .. u + Len(text)
    <3>1. b.mem[i] \in Cell
      BY <1>1
    <3> QED BY <2>2, <3>1 DEF Cell
  <2> QED BY <2>1, <2>2
<1>3. s.mem = [i \in 1 .. n |-> c(i)] /\ s.used = u + Len(text) + 1
  BY DEF Store
<1>4. /\ \A i \in 1 .. u : c(i) = b.mem[i]
      /\ \A i \in 1 .. Len(text) : c(u + i) = text[i]
      /\ c(u + Len(text) + 1) = NUL
  <2>1. \A i \in 1 .. u : i \notin u + 1 .. u + Len(text) /\ i # u + Len(text) + 1
    BY <1>1
  <2>2. \A i \in 1 .. Len(text) : u + i \in u + 1 .. u + Len(text) /\ (u + i) - u = i
    BY <1>1
  <2>3. u + Len(text) + 1 \notin u + 1 .. u + Len(text)
    BY <1>1
  <2> QED BY <2>1, <2>2, <2>3
<1>5. s = [mem |-> [i \in 1 .. n |-> c(i)], used |-> u + Len(text) + 1]
  BY DEF Store
<1>6. u + Len(text) + 1 <= n
  BY <1>1
<1> HIDE DEF c, n, u
<1>7. s.mem \in Seq(Cell) /\ Len(s.mem) = n
  BY <1>1, <1>2, <1>3
<1>8. SoundBlock(s)
  BY <1>1, <1>3, <1>5, <1>6, <1>7 DEF SoundBlock, Block, Capacity
<1>9. \A i \in 1 .. u : s.mem[i] = b.mem[i]
  BY <1>1, <1>3, <1>4, <1>6
<1>10. \A i \in 1 .. Len(text) : s.mem[u + i] = text[i]
  <2> SUFFICES ASSUME NEW i \in 1 .. Len(text) PROVE s.mem[u + i] = text[i]
    OBVIOUS
  <2>1. u + i \in 1 .. n
    BY <1>1, <1>6
  <2> QED BY <1>3, <1>4, <2>1
<1>11. s.mem[u + Len(text) + 1] = NUL
  <2>1. u + Len(text) + 1 \in 1 .. n
    BY <1>1, <1>6
  <2> QED BY <1>3, <1>4, <2>1
<1> QED BY <1>3, <1>8, <1>9, <1>10, <1>11 DEF u

(* Making room keeps every block, and the last one can take the text.      *)
LEMMA RoomFacts ==
  ASSUME blocks \in Seq(Block), UsedWithinCapacity, NEW text \in Seq(Char)
  PROVE  LET room == Room(text)
             n == Len(room)
         IN  /\ room \in Seq(Block) /\ n \in Nat /\ n >= 1 /\ n >= Len(blocks)
             /\ \A b \in 1 .. n : room[b].used <= Capacity(room[b])
             /\ \A b \in 1 .. Len(blocks) : room[b] = blocks[b]
             /\ room[n].used + Len(text) + 1 <= Capacity(room[n])
<1> DEFINE new == NewBlock(text)
           k == Len(blocks)
           cap == NewCapacity(text)
<1>1. k \in Nat /\ Len(text) \in Nat /\ DOMAIN blocks = 1 .. k
  OBVIOUS
<1>2. \A b \in 1 .. k : blocks[b] \in Block
  OBVIOUS
<1>3. \A b \in 1 .. k : /\ blocks[b].used \in Nat /\ Capacity(blocks[b]) \in Nat
                        /\ blocks[b].used <= Capacity(blocks[b])
  BY <1>1, <1>2, BlockType DEF UsedWithinCapacity
<1>4. cap \in Nat /\ cap >= Len(text) + 1
  <2>1. blocks # <<>> => k \in 1 .. k
    BY <1>1
  <2>2. blocks # <<>> => Capacity(Back) \in Nat
    BY <1>3, <2>1 DEF Back
  <2> QED BY <1>1, <2>2, PoolAssumption DEF NewCapacity, AtLeast, AtMost
<1>5. new \in Block /\ Capacity(new) = cap /\ new.used = 0
  <2> HIDE DEF cap
  <2>1. new = [mem |-> [i \in 1 .. cap |-> Junk], used |-> 0]
    BY DEF NewBlock, cap
  <2> QED BY <1>4, <2>1 DEF Block, Capacity, Cell
<1> HIDE DEF new, cap
<1>6. CASE NeedsBlock(text)
  <2>1. Room(text) = Append(blocks, new)
    BY <1>6 DEF Room, new
  <2>2. /\ Append(blocks, new) \in Seq(Block) /\ Len(Append(blocks, new)) = k + 1
        /\ \A b \in 1 .. k : Append(blocks, new)[b] = blocks[b]
        /\ Append(blocks, new)[k + 1] = new
    BY <1>1, <1>5
  <2>3. \A b \in 1 .. k + 1 : b \in 1 .. k \/ b = k + 1
    BY <1>1
  <2> QED BY <1>1, <1>3, <1>4, <1>5, <2>1, <2>2, <2>3
<1>7. CASE ~NeedsBlock(text)
  <2>1. Room(text) = blocks /\ blocks # <<>> /\ ~(Capacity(Back) - Back.used < Len(text) + 1)
    BY <1>7 DEF Room, NeedsBlock
  <2>2. k \in 1 .. k
    BY <1>1, <2>1
  <2>3. blocks[k].used + Len(text) + 1 <= Capacity(blocks[k])
    BY <1>1, <1>3, <2>1, <2>2 DEF Back
  <2> QED BY <1>1, <1>3, <2>1, <2>2, <2>3
<1> QED BY <1>6, <1>7

-----------------------------------------------------------------------------
(* The inductive invariant: disjointness is inductive only because every   *)
(* view ends below the use of its block, which ViewsIntact says.           *)
IInv == TypeOK /\ UsedWithinCapacity /\ ViewsIntact /\ ViewsDisjoint

(* What one save does to the pool, whose last block is then n.             *)
Stored(text, n, at) ==
  /\ n \in Nat \ {0} /\ at \in Nat
  /\ blocks' \in Seq(Block) /\ Len(blocks') = n /\ Len(blocks) <= n
  /\ \A b \in 1 .. n : blocks'[b].used <= Capacity(blocks'[b])
  /\ \A b \in 1 .. Len(blocks) :
       /\ blocks[b].used <= blocks'[b].used
       /\ \A i \in 1 .. blocks[b].used : blocks'[b].mem[i] = blocks[b].mem[i]
  /\ n \in 1 .. Len(blocks) => blocks[n].used = at
  /\ blocks'[n].used = at + Len(text) + 1
  /\ \A i \in 1 .. Len(text) : blocks'[n].mem[at + i] = text[i]
  /\ blocks'[n].mem[at + Len(text) + 1] = NUL

LEMMA SaveStores ==
  ASSUME IInv, NEW text \in Texts, Save(text)
  PROVE  \E n, at : /\ Stored(text, n, at)
                    /\ views' = views \cup {[block |-> n, at |-> at, text |-> text]}
<1> DEFINE room == Room(text)
           n == Len(room)
           at == room[n].used
           s == Store(room[n], text)
<1>1. text \in Seq(Char) /\ blocks \in Seq(Block) /\ UsedWithinCapacity
  BY PoolAssumption DEF IInv, TypeOK, Block
<1>2. /\ room \in Seq(Block) /\ n \in Nat /\ n >= 1 /\ n >= Len(blocks)
      /\ \A b \in 1 .. n : room[b].used <= Capacity(room[b])
      /\ \A b \in 1 .. Len(blocks) : room[b] = blocks[b]
      /\ room[n].used + Len(text) + 1 <= Capacity(room[n])
  BY <1>1, RoomFacts
<1>3. /\ blocks' = [room EXCEPT ![n] = Store(@, text)]
      /\ views' = views \cup {[block |-> n, at |-> at, text |-> text]}
  BY DEF Save, Destination
<1> HIDE DEF room, n
<1>4. n \in 1 .. n /\ room[n] \in Block /\ Len(text) \in Nat /\ Len(blocks) \in Nat
  BY <1>1, <1>2 DEF n
<1>5. at \in Nat
  BY <1>4, BlockType
<1>6. /\ SoundBlock(s) /\ s.used = at + Len(text) + 1
      /\ \A i \in 1 .. at : s.mem[i] = room[n].mem[i]
      /\ \A i \in 1 .. Len(text) : s.mem[at + i] = text[i]
      /\ s.mem[at + Len(text) + 1] = NUL
  BY <1>1, <1>2, <1>4, StoreFacts
<1>7. n = Len(room) /\ DOMAIN room = 1 .. n
  BY <1>2 DEF n
<1> HIDE DEF s, at
<1>8. /\ blocks' \in Seq(Block) /\ Len(blocks') = n /\ blocks'[n] = s
      /\ \A b \in 1 .. n : b # n => blocks'[b] = room[b]
  BY <1>2, <1>3, <1>4, <1>6, <1>7 DEF SoundBlock, s
<1>9. \A b \in 1 .. n : blocks'[b].used <= Capacity(blocks'[b])
  BY <1>2, <1>6, <1>8 DEF SoundBlock
<1>10. ASSUME NEW b \in 1 .. Len(blocks)
       PROVE  /\ blocks[b].used <= blocks'[b].used
              /\ \A i \in 1 .. blocks[b].used : blocks'[b].mem[i] = blocks[b].mem[i]
  <2>1. b \in 1 .. n /\ room[b] = blocks[b] /\ room[b].used \in Nat
    BY <1>2, <1>4, BlockType, <1>1, SMTT(60)
  <2>2. CASE b = n
    BY <1>4, <1>5, <1>6, <1>8, <2>1, <2>2 DEF at
  <2>3. CASE b # n
    BY <1>8, <2>1, <2>3
  <2> QED BY <2>2, <2>3
<1>11. n \in 1 .. Len(blocks) => blocks[n].used = at
  BY <1>2 DEF at
<1>12. Stored(text, n, at)
  BY <1>2, <1>4, <1>5, <1>6, <1>8, <1>9, <1>10, <1>11 DEF Stored
<1> QED BY <1>3, <1>12 DEF at

LEMMA SaveKeepsViewsIntact ==
  ASSUME IInv, NEW text \in Texts, NEW n, NEW at, Stored(text, n, at),
         NEW new, new = [block |-> n, at |-> at, text |-> text],
         views' = views \cup {new}
  PROVE  ViewsIntact'
<1>1. /\ blocks \in Seq(Block) /\ views \subseteq View /\ text \in Seq(Char)
      /\ DOMAIN blocks = 1 .. Len(blocks) /\ Len(blocks) \in Nat
  BY PoolAssumption DEF IInv, TypeOK, Block
<1>2. /\ n \in Nat \ {0} /\ at \in Nat /\ Len(text) \in Nat
      /\ DOMAIN blocks' = 1 .. n /\ Len(blocks) <= n
      /\ \A b \in 1 .. n : blocks'[b].used \in Nat
  <2>1. n \in Nat \ {0} /\ at \in Nat /\ blocks' \in Seq(Block) /\ Len(blocks') = n
    BY DEF Stored
  <2>2. \A b \in 1 .. n : blocks'[b] \in Block
    BY <2>1
  <2> QED BY <1>1, <2>1, <2>2, BlockType DEF Stored
<1> SUFFICES ASSUME NEW v \in views'
             PROVE  /\ v.block \in DOMAIN blocks'
                    /\ v.at + Len(v.text) + 1 <= blocks'[v.block].used
                    /\ \A i \in DOMAIN v.text : blocks'[v.block].mem[v.at + i] = v.text[i]
                    /\ blocks'[v.block].mem[v.at + Len(v.text) + 1] = NUL
  BY DEF ViewsIntact
<1>3. CASE v = new
  <2>1. v.block = n /\ v.at = at /\ v.text = text /\ DOMAIN text = 1 .. Len(text)
    BY <1>1, <1>3
  <2> QED BY <1>2, <2>1 DEF Stored
<1>4. CASE v \in views
  <2> DEFINE b == v.block
             end == v.at + Len(v.text) + 1
  <2>1. /\ v.at \in Nat /\ v.text \in Seq(Char)
        /\ Len(v.text) \in Nat /\ DOMAIN v.text = 1 .. Len(v.text)
    BY <1>1, <1>4 DEF View
  <2>2. /\ b \in 1 .. Len(blocks) /\ end <= blocks[b].used
        /\ \A i \in DOMAIN v.text : blocks[b].mem[v.at + i] = v.text[i]
        /\ blocks[b].mem[end] = NUL
    BY <1>1, <1>4 DEF IInv, ViewsIntact
  <2>3. blocks[b].used \in Nat
    BY <1>1, <2>2, BlockType
  <2>4. /\ blocks[b].used <= blocks'[b].used
        /\ \A i \in 1 .. blocks[b].used : blocks'[b].mem[i] = blocks[b].mem[i]
    BY <2>2 DEF Stored
  <2> HIDE DEF b
  <2>5. end \in 1 .. blocks[b].used /\ \A i \in DOMAIN v.text : v.at + i \in 1 .. blocks[b].used
    <3> DEFINE len == Len(v.text)
               used == blocks[b].used
    <3>1. len \in Nat /\ used \in Nat /\ v.at \in Nat /\ v.at + len + 1 <= used
      BY <2>1, <2>2, <2>3
    <3> HIDE DEF len, used
    <3>2. v.at + len + 1 \in 1 .. used /\ \A i \in 1 .. len : v.at + i \in 1 .. used
      BY <3>1
    <3> QED BY <2>1, <3>2 DEF len, used
  <2>6. b \in DOMAIN blocks' /\ blocks'[b].used \in Nat
    BY <1>1, <1>2, <2>2
  <2>7. end \in Nat /\ end <= blocks'[b].used
    BY <2>1, <2>2, <2>3, <2>4, <2>6
  <2>8. \A i \in DOMAIN v.text : blocks'[b].mem[v.at + i] = v.text[i]
    BY <2>2, <2>4, <2>5
  <2>9. blocks'[b].mem[end] = NUL
    BY <2>2, <2>4, <2>5
  <2> QED BY <2>6, <2>7, <2>8, <2>9 DEF b
<1> QED BY <1>3, <1>4

LEMMA SaveKeepsViewsDisjoint ==
  ASSUME IInv, NEW text \in Texts, NEW n, NEW at, Stored(text, n, at),
         NEW new, new = [block |-> n, at |-> at, text |-> text],
         views' = views \cup {new}
  PROVE  ViewsDisjoint'
<1>1. /\ blocks \in Seq(Block) /\ views \subseteq View /\ text \in Seq(Char)
      /\ DOMAIN blocks = 1 .. Len(blocks)
  BY PoolAssumption DEF IInv, TypeOK, Block
<1>2. ASSUME NEW v \in views, v.block = n
      PROVE  Span(v) \cap Span(new) = {}
  <2>1. v.at \in Nat /\ Len(v.text) \in Nat
    BY <1>1 DEF View
  <2>2. n \in 1 .. Len(blocks) /\ v.at + Len(v.text) + 1 <= blocks[n].used
    BY <1>1, <1>2 DEF IInv, ViewsIntact
  <2>3. blocks[n].used = at /\ at \in Nat
    BY <2>2 DEF Stored
  <2>4. new.at = at
    OBVIOUS
  <2> QED BY <2>1, <2>2, <2>3, <2>4 DEF Span
<1>3. new.block = n
  OBVIOUS
<1> SUFFICES ASSUME NEW v \in views', NEW w \in views', v # w, v.block = w.block
             PROVE  Span(v) \cap Span(w) = {}
  BY DEF ViewsDisjoint, Span
<1>4. CASE v \in views /\ w \in views
  BY <1>4 DEF IInv, ViewsDisjoint
<1>5. CASE v = new /\ w \in views
  BY <1>2, <1>3, <1>5
<1>6. CASE v \in views /\ w = new
  BY <1>2, <1>3, <1>6
<1> QED BY <1>4, <1>5, <1>6

(* A new pool has no block, and its tree no string.                        *)
THEOREM InitIInv == PoolInit => IInv
<1> SUFFICES ASSUME PoolInit PROVE IInv
  OBVIOUS
<1>1. blocks = <<>> /\ views = {} /\ parsing = FALSE
  BY DEF PoolInit
<1>2. TypeOK
  <2>1. <<>> \in Seq(Block)
    OBVIOUS
  <2> QED BY <1>1, <2>1 DEF TypeOK, Block
<1> QED BY <1>1, <1>2 DEF IInv, UsedWithinCapacity, ViewsIntact, ViewsDisjoint

(* save(), clear() and the parse around them keep the views readable.      *)
THEOREM StepIInv == IInv /\ [PoolNext]_poolVars => IInv'
<1> SUFFICES ASSUME IInv, [PoolNext]_poolVars PROVE IInv'
  OBVIOUS
<1>1. CASE BeginParse
  BY <1>1 DEF BeginParse, ClearedTree, IInv, TypeOK, UsedWithinCapacity, ViewsIntact, ViewsDisjoint
<1>2. ASSUME NEW text \in Texts, Save(text) PROVE IInv'
  <2>1. PICK n, at : /\ Stored(text, n, at)
                     /\ views' = views \cup {[block |-> n, at |-> at, text |-> text]}
    BY <1>2, SaveStores
  <2>2. ViewsIntact' /\ ViewsDisjoint'
    BY <2>1, SaveKeepsViewsIntact, SaveKeepsViewsDisjoint
  <2>3. UsedWithinCapacity'
    BY <2>1 DEF Stored, UsedWithinCapacity
  <2>4. parsing' \in BOOLEAN
    BY <1>2 DEF Save, IInv, TypeOK
  <2>5. [block |-> n, at |-> at, text |-> text] \in View
    BY <2>1, PoolAssumption DEF Stored, View
  <2>6. TypeOK'
    BY <2>1, <2>4, <2>5 DEF Stored, IInv, TypeOK, Block
  <2> QED BY <2>2, <2>3, <2>6 DEF IInv
<1>3. CASE EndParse
  BY <1>3 DEF EndParse, IInv, TypeOK, UsedWithinCapacity, ViewsIntact, ViewsDisjoint, Span
<1>4. CASE UNCHANGED poolVars
  BY <1>4 DEF poolVars, IInv, TypeOK, UsedWithinCapacity, ViewsIntact, ViewsDisjoint, Span
<1> QED BY <1>1, <1>2, <1>3, <1>4 DEF PoolNext

(* The inductive invariant holds in every state of the pool.               *)
THEOREM Invariance == PoolSpec => []IInv
BY InitIInv, StepIInv, PTL DEF PoolSpec

(* Every variable keeps its type.                                          *)
THEOREM TypeCorrect == PoolSpec => []TypeOK
BY Invariance, PTL DEF IInv

(* save() never writes past the end of a block.                            *)
THEOREM NoOverflow == PoolSpec => []UsedWithinCapacity
BY Invariance, PTL DEF IInv

(* A string of the tree reads as it was saved for as long as the tree      *)
(* lives: through growth, a failed parse, and reuse of the ParsedProto.    *)
THEOREM ViewsStayIntact == PoolSpec => []ViewsIntact
BY Invariance, PTL DEF IInv

(* No two strings of the tree overlap.                                     *)
THEOREM ViewsStayDisjoint == PoolSpec => []ViewsDisjoint
BY Invariance, PTL DEF IInv

(* StoredStays, as a predicate of one step.                                *)
KeepsStored ==
  parsing =>
    /\ views \subseteq views'
    /\ \A b \in DOMAIN blocks :
         /\ b \in DOMAIN blocks'
         /\ \A i \in 1 .. blocks[b].used : blocks'[b].mem[i] = blocks[b].mem[i]

LEMMA StepKeepsStored == IInv /\ [PoolNext]_poolVars => [KeepsStored]_poolVars
<1> SUFFICES ASSUME IInv, PoolNext PROVE KeepsStored
  OBVIOUS
<1>1. CASE BeginParse
  BY <1>1 DEF BeginParse, KeepsStored
<1>2. ASSUME NEW text \in Texts, Save(text) PROVE KeepsStored
  <2>1. PICK n, at : /\ Stored(text, n, at)
                     /\ views' = views \cup {[block |-> n, at |-> at, text |-> text]}
    BY <1>2, SaveStores
  <2>2. /\ DOMAIN blocks = 1 .. Len(blocks) /\ Len(blocks) \in Nat
        /\ DOMAIN blocks' = 1 .. n /\ n \in Nat /\ Len(blocks) <= n
    BY <2>1 DEF Stored, IInv, TypeOK
  <2>3. views \subseteq views'
    BY <2>1
  <2>4. ASSUME NEW b \in DOMAIN blocks
        PROVE  /\ b \in DOMAIN blocks'
               /\ \A i \in 1 .. blocks[b].used : blocks'[b].mem[i] = blocks[b].mem[i]
    <3>1. b \in 1 .. Len(blocks) /\ b \in 1 .. n
      BY <2>2
    <3> QED BY <2>1, <2>2, <3>1 DEF Stored
  <2> QED BY <2>3, <2>4 DEF KeepsStored
<1>3. CASE EndParse
  BY <1>3 DEF EndParse, KeepsStored
<1> QED BY <1>1, <1>2, <1>3 DEF PoolNext

(* While a parse runs nothing stored changes or moves, so a view may be    *)
(* read at any moment of it.                                               *)
THEOREM StoredTextStays == PoolSpec => StoredStays
BY Invariance, StepKeepsStored, PTL DEF PoolSpec, StoredStays, KeepsStored

-----------------------------------------------------------------------------
(* THE BODY OF AN ENUM                                                     *)
(*                                                                         *)
(* While a body is read, the descriptor says the same as the statements    *)
(* read (EnumDescribes), and those checks that need no later statement     *)
(* have been made (KeptSoFar).                                             *)
(***************************************************************************)

Entry(s) == [name |-> s.name, number |-> s.number]

EnumTypeOK ==
    /\ enum_syntax \in {"proto2", "proto3"}
    /\ value \in Seq({Entry(s) : s \in EnumStatements})
    /\ allow_alias \in BOOLEAN
    /\ enum_reserved \in [ranges : Seq(EnumStatements), names : SUBSET {s.name : s \in EnumStatements}]
    /\ enum_status \in {"reading", "accepted", "rejected"}
    /\ enum_read \in Seq(EnumStatements \cup {EndOfFile})

(* Settings of allow_alias among the statements read.                      *)
Settings == {i \in OfKind("option") : enum_read[i].name = "allow_alias"}

ValuesDescribed ==
    /\ \A i \in OfKind("value") : \E k \in DOMAIN value : value[k] = Entry(enum_read[i])
    /\ \A k \in DOMAIN value : \E i \in OfKind("value") : value[k] = Entry(enum_read[i])
    /\ \A k, l \in DOMAIN value : value[k].name = value[l].name => k = l

FirstDescribed ==
    value # <<>> =>
        \E i \in OfKind("value") :
            /\ \A j \in OfKind("value") : i <= j
            /\ value[1] = Entry(enum_read[i])

RangesDescribed ==
    /\ \A i \in OfKind("reserved") : \E k \in DOMAIN enum_reserved.ranges : enum_reserved.ranges[k] = enum_read[i]
    /\ \A k \in DOMAIN enum_reserved.ranges : \E i \in OfKind("reserved") : enum_reserved.ranges[k] = enum_read[i]

NamesDescribed == enum_reserved.names = {enum_read[i].name : i \in OfKind("reserved_name")}

AliasDescribed ==
    IF Settings = {} THEN ~allow_alias
    ELSE \E m \in Settings :
           /\ \A j \in Settings : m >= j
           /\ allow_alias = (enum_read[m].constant = "true")

EnumDescribes ==
    /\ ValuesDescribed
    /\ FirstDescribed
    /\ RangesDescribed
    /\ NamesDescribed
    /\ AliasDescribed


(* What has been enforced without waiting for the closing brace.           *)
KeptSoFar ==
    /\ \A i \in DOMAIN enum_read : EnumSound(enum_read[i])
    /\ \A i, j \in OfKind("value") : i # j => enum_read[i].name # enum_read[j].name
    /\ \A i, j \in OfKind("reserved_name") : i # j => enum_read[i].name # enum_read[j].name
    /\ \A i, j \in OfKind("reserved") : i # j => Disjoint(enum_read[i], enum_read[j])

EnumInv ==
    /\ EnumTypeOK
    /\ enum_status = "reading" => EnumDescribes /\ KeptSoFar
    /\ EnumAcceptsByTheRules

-----------------------------------------------------------------------------
(* Reading one more statement.                                             *)
LEMMA OneMore ==
  ASSUME EnumTypeOK, NEW s \in EnumStatements \cup {EndOfFile}, ReadingEnum(s)
  PROVE  /\ enum_read' \in Seq(EnumStatements \cup {EndOfFile})
         /\ Len(enum_read) \in Nat
         /\ DOMAIN enum_read = 1 .. Len(enum_read)
         /\ DOMAIN enum_read' = 1 .. Len(enum_read) + 1
         /\ \A i \in DOMAIN enum_read :
              enum_read'[i] = enum_read[i] /\ i # Len(enum_read) + 1 /\ i <= Len(enum_read) + 1 /\ i \in DOMAIN enum_read'
         /\ \A i \in DOMAIN enum_read' : i \in DOMAIN enum_read \/ i = Len(enum_read) + 1
         /\ Len(enum_read) + 1 \in DOMAIN enum_read'
         /\ enum_read'[Len(enum_read) + 1] = s
         /\ \A kind : OfKind(kind)' = OfKind(kind) \cup (IF s.kind = kind THEN {Len(enum_read) + 1} ELSE {})
<1> DEFINE n == Len(enum_read) + 1
<1>1. enum_read' = Append(enum_read, s) /\ enum_read \in Seq(EnumStatements \cup {EndOfFile})
  BY DEF ReadingEnum, EnumTypeOK
<1>2. /\ enum_read' \in Seq(EnumStatements \cup {EndOfFile})
      /\ Len(enum_read) \in Nat
      /\ DOMAIN enum_read = 1 .. Len(enum_read)
      /\ Len(enum_read') = n
      /\ DOMAIN enum_read' = 1 .. n
      /\ \A i \in 1 .. Len(enum_read) : enum_read'[i] = enum_read[i]
      /\ enum_read'[n] = s
  BY <1>1
<1>3. /\ \A i \in 1 .. Len(enum_read) : i # n /\ i <= n /\ i \in 1 .. n
      /\ \A i \in 1 .. n : i \in 1 .. Len(enum_read) \/ i = n
      /\ n \in 1 .. n
  BY <1>2
<1>4. ASSUME NEW kind
      PROVE  OfKind(kind)' = OfKind(kind) \cup (IF s.kind = kind THEN {n} ELSE {})
  BY <1>2, <1>3 DEF OfKind
<1> QED BY <1>2, <1>3, <1>4

-----------------------------------------------------------------------------
(* A statement that agrees with those read leaves the checks passed.       *)
LEMMA KeptStep ==
  ASSUME EnumTypeOK, KeptSoFar, NEW s \in EnumStatements, ReadingEnum(s), EnumSound(s),
         s.kind = "value" => \A i \in OfKind("value") : enum_read[i].name # s.name,
         s.kind = "reserved_name" => \A i \in OfKind("reserved_name") : enum_read[i].name # s.name,
         s.kind = "reserved" => \A i \in OfKind("reserved") : Disjoint(enum_read[i], s)
  PROVE  KeptSoFar'
<1> DEFINE n == Len(enum_read) + 1
<1>1. /\ \A i \in DOMAIN enum_read' : (enum_read'[i] = s /\ i = n) \/ (i \in DOMAIN enum_read /\ enum_read'[i] = enum_read[i])
      /\ \A kind : OfKind(kind)' = OfKind(kind) \cup (IF s.kind = kind THEN {n} ELSE {})
      /\ \A kind : OfKind(kind) \subseteq DOMAIN enum_read
      /\ \A i \in DOMAIN enum_read : enum_read'[i] = enum_read[i] /\ i # n
      /\ enum_read'[n] = s
  <2>1. \A kind : OfKind(kind) \subseteq DOMAIN enum_read
    BY DEF OfKind
  <2>2. /\ DOMAIN enum_read' = 1 .. n
        /\ \A i \in DOMAIN enum_read : enum_read'[i] = enum_read[i] /\ i # n
        /\ \A i \in DOMAIN enum_read' : i \in DOMAIN enum_read \/ i = n
        /\ enum_read'[n] = s
    BY OneMore
  <2>3. \A kind : OfKind(kind)' = OfKind(kind) \cup (IF s.kind = kind THEN {n} ELSE {})
    BY OneMore
  <2> QED BY <2>1, <2>2, <2>3
<1>2. \A i \in DOMAIN enum_read' : EnumSound(enum_read'[i])
  BY <1>1 DEF KeptSoFar
<1>3. \A i, j \in OfKind("value")' : i # j => enum_read'[i].name # enum_read'[j].name
  BY <1>1 DEF KeptSoFar
<1>4. \A i, j \in OfKind("reserved_name")' : i # j => enum_read'[i].name # enum_read'[j].name
  BY <1>1 DEF KeptSoFar
<1>5. \A i, j \in OfKind("reserved")' : i # j => Disjoint(enum_read'[i], enum_read'[j])
  <2>1. \A r, t : Disjoint(r, t) <=> Disjoint(t, r)
    BY DEF Disjoint
  <2> QED BY <1>1, <2>1 DEF KeptSoFar
<1> QED BY <1>2, <1>3, <1>4, <1>5 DEF KeptSoFar

(* What a statement does to the sets of statements of each kind.           *)
LEMMA OneOfKind ==
  ASSUME EnumTypeOK, NEW s \in EnumStatements, ReadingEnum(s)
  PROVE  LET n == Len(enum_read) + 1
         IN  /\ OfKind(s.kind)' = OfKind(s.kind) \cup {n}
             /\ \A kind : kind # s.kind => OfKind(kind)' = OfKind(kind)
             /\ \A kind : \A i \in OfKind(kind) : i \in DOMAIN enum_read /\ enum_read'[i] = enum_read[i] /\ i <= n /\ i # n
             /\ enum_read'[n] = s /\ n \in DOMAIN enum_read' /\ n <= n
             /\ \A i \in DOMAIN enum_read : i \in DOMAIN enum_read'
<1> DEFINE n == Len(enum_read) + 1
<1>1. \A kind : OfKind(kind) \subseteq DOMAIN enum_read
  BY DEF OfKind
<1>2. /\ Len(enum_read) \in Nat
      /\ \A i \in DOMAIN enum_read : enum_read'[i] = enum_read[i] /\ i <= n /\ i # n /\ i \in DOMAIN enum_read'
      /\ enum_read'[n] = s /\ n \in DOMAIN enum_read'
  BY OneMore
<1>3. \A kind : OfKind(kind)' = OfKind(kind) \cup (IF s.kind = kind THEN {n} ELSE {})
  BY OneMore
<1>4. n <= n
  BY <1>2
<1> QED BY <1>1, <1>2, <1>3, <1>4

(* The settings of allow_alias stay what they are.                         *)
LEMMA AliasStays ==
  ASSUME EnumTypeOK, AliasDescribed, NEW s \in EnumStatements, ReadingEnum(s), s.kind # "option",
         allow_alias' = allow_alias
  PROVE  AliasDescribed'
<1>1. OfKind("option")' = OfKind("option") /\ \A i \in OfKind("option") : enum_read'[i] = enum_read[i]
  BY OneOfKind
<1>2. Settings' = Settings /\ \A j \in Settings : enum_read'[j] = enum_read[j]
  BY <1>1 DEF Settings
<1> QED BY <1>2 DEF AliasDescribed

LEMMA ValuesStay ==
  ASSUME EnumTypeOK, ValuesDescribed, FirstDescribed, NEW s \in EnumStatements, ReadingEnum(s),
  s.kind # "value",
         value' = value
  PROVE  ValuesDescribed' /\ FirstDescribed'
<1>1. OfKind("value")' = OfKind("value") /\ \A i \in OfKind("value") : enum_read'[i] = enum_read[i]
  BY OneOfKind
<1> QED BY <1>1 DEF ValuesDescribed, FirstDescribed

LEMMA RangesStay ==
  ASSUME EnumTypeOK, RangesDescribed, NEW s \in EnumStatements, ReadingEnum(s), s.kind # "reserved",
         enum_reserved'.ranges = enum_reserved.ranges
  PROVE  RangesDescribed'
<1>1. OfKind("reserved")' = OfKind("reserved") /\ \A i \in OfKind("reserved") : enum_read'[i] = enum_read[i]
  BY OneOfKind
<1> QED BY <1>1 DEF RangesDescribed

LEMMA NamesStay ==
  ASSUME EnumTypeOK, NamesDescribed, NEW s \in EnumStatements, ReadingEnum(s), s.kind # "reserved_name",
         enum_reserved'.names = enum_reserved.names
  PROVE  NamesDescribed'
<1>1. /\ OfKind("reserved_name")' = OfKind("reserved_name")
      /\ \A i \in OfKind("reserved_name") : enum_read'[i] = enum_read[i]
  BY OneOfKind
<1> QED BY <1>1 DEF NamesDescribed

(* An option, which says nothing but how often numbers may be used.        *)
LEMMA OptionStep ==
  ASSUME EnumTypeOK, EnumDescribes, KeptSoFar, NEW s \in EnumStatements, EnumOption(s)
  PROVE  /\ enum_status' = "reading" => EnumDescribes' /\ KeptSoFar'
         /\ enum_status' = "rejected" => ~EnumRules'
         /\ enum_status' \in {"reading", "rejected"}
<1> DEFINE n == Len(enum_read) + 1
<1>1. s.kind = "option" /\ ReadingEnum(s) /\ enum_status = "reading"
  BY DEF EnumOption, ReadingEnum
<1>2. CASE s.name = "allow_alias" /\ s.constant \notin {"true", "false"}
  <2>1. ~EnumSound(s) /\ enum_status' = "rejected"
    BY <1>1, <1>2 DEF EnumSound, EnumOption, RejectEnum
  <2> QED BY <1>1, <2>1, OneMore DEF EnumRules
<1>3. CASE ~(s.name = "allow_alias" /\ s.constant \notin {"true", "false"})
  <2>1. /\ allow_alias' = IF s.name = "allow_alias" THEN s.constant = "true" ELSE allow_alias
        /\ UNCHANGED <<value, enum_reserved, enum_status>>
    BY <1>3 DEF EnumOption
  <2>2. KeptSoFar'
    BY <1>1, <1>3, KeptStep DEF EnumSound
  <2>3. ValuesDescribed' /\ FirstDescribed' /\ RangesDescribed' /\ NamesDescribed'
    BY <1>1, <2>1, ValuesStay, RangesStay, NamesStay DEF EnumDescribes
  <2>4. AliasDescribed'
    <3>1. /\ OfKind("option")' = OfKind("option") \cup {n}
          /\ \A i \in OfKind("option") : enum_read'[i] = enum_read[i] /\ i <= n /\ i # n
          /\ enum_read'[n] = s
          /\ n <= n
      BY <1>1, OneOfKind
    <3>2. CASE s.name = "allow_alias"
      <4>1. Settings' = Settings \cup {n} /\ \A j \in Settings' : j <= n
        BY <3>1, <3>2 DEF Settings
      <4>2. \A j \in Settings' : n >= j
        BY <4>1
      <4> QED BY <2>1, <3>1, <3>2, <4>1, <4>2 DEF AliasDescribed
    <3>3. CASE s.name # "allow_alias"
      <4>1. Settings' = Settings /\ \A j \in Settings : enum_read'[j] = enum_read[j]
        BY <3>1, <3>3 DEF Settings
      <4> QED BY <2>1, <3>3, <4>1 DEF AliasDescribed, EnumDescribes
    <3> QED BY <3>2, <3>3
  <2> QED BY <1>1, <2>1, <2>2, <2>3, <2>4 DEF EnumDescribes
<1> QED BY <1>2, <1>3

(* Of two ranges that the parser finds to overlap, one holds an end of the *)
(* other.                                                                  *)
LEMMA CompatibleRangesDoNotOverlap ==
  ASSUME NEW r, NEW t, r.kind = "reserved", t.kind = "reserved",
         r.first \in Int, r.last \in Int, t.first \in Int, t.last \in Int,
         r.first <= r.last, t.first <= t.last,
         EnumCompatible(r, t), EnumCompatible(t, r)
  PROVE  ~Overlap(r, t)
<1>1. /\ r.first < t.first \/ t.last < r.first
      /\ t.first < r.first \/ r.last < t.first
  BY DEF EnumCompatible
<1> QED BY <1>1 DEF Overlap

LEMMA NoOverlapIsDisjoint ==
  ASSUME NEW r, NEW t, r.first \in Int, r.last \in Int, t.first \in Int, t.last \in Int,
         ~Overlap(r, t)
  PROVE  Disjoint(r, t)
BY DEF Overlap, Disjoint

LEMMA RangeStep ==
  ASSUME StatementsTyped, EnumTypeOK, EnumDescribes, KeptSoFar, NEW s \in EnumStatements, ReservedRange(s)
  PROVE  /\ enum_status' = "reading" => EnumDescribes' /\ KeptSoFar'
         /\ enum_status' = "rejected" => ~EnumRules'
         /\ enum_status' \in {"reading", "rejected"}
<1> DEFINE n == Len(enum_read) + 1
<1>1. s.kind = "reserved" /\ ReadingEnum(s) /\ enum_status = "reading"
  BY DEF ReservedRange, ReadingEnum
<1>2. /\ OfKind("reserved")' = OfKind("reserved") \cup {n}
      /\ \A i \in OfKind("reserved") : i \in DOMAIN enum_read /\ enum_read'[i] = enum_read[i] /\ i # n /\ i \in DOMAIN enum_read'
      /\ enum_read'[n] = s /\ n \in DOMAIN enum_read'
  BY <1>1, OneOfKind
<1>3. /\ s.first \in Int /\ s.last \in Int
      /\ \A k \in DOMAIN enum_reserved.ranges :
           enum_reserved.ranges[k] \in EnumStatements /\ enum_reserved.ranges[k].kind = "reserved"
      /\ \A k \in DOMAIN enum_reserved.ranges :
           enum_reserved.ranges[k].first \in Int /\ enum_reserved.ranges[k].last \in Int
  <2>1. enum_reserved.ranges \in Seq(EnumStatements)
    BY DEF EnumTypeOK
  <2>2. \A k \in DOMAIN enum_reserved.ranges : enum_reserved.ranges[k] \in EnumStatements
    BY <2>1
  <2>3. \A k \in DOMAIN enum_reserved.ranges : enum_reserved.ranges[k].kind = "reserved"
    BY DEF EnumDescribes, RangesDescribed, OfKind
  <2> QED BY <1>1, <2>2, <2>3 DEF StatementsTyped
<1>4. CASE ~({s.first, s.last} \subseteq Int32 /\ s.first <= s.last)
  <2>1. enum_status' = "rejected"
    BY <1>4 DEF ReservedRange, RangeAllowed, RejectEnum
  <2>2. ~EnumSound(s)
    BY <1>1, <1>4 DEF EnumSound
  <2> QED BY <1>2, <2>1, <2>2 DEF EnumRules
<1>5. CASE /\ {s.first, s.last} \subseteq Int32 /\ s.first <= s.last
           /\ \E k \in DOMAIN enum_reserved.ranges : Overlap(enum_reserved.ranges[k], s)
  <2>1. PICK k \in DOMAIN enum_reserved.ranges : Overlap(enum_reserved.ranges[k], s)
    BY <1>5
  <2>2. PICK i \in OfKind("reserved") : enum_reserved.ranges[k] = enum_read[i]
    BY <2>1 DEF EnumDescribes, RangesDescribed
  <2>3. enum_status' = "rejected"
    BY <1>5 DEF ReservedRange, RangeAllowed, RejectEnum
  <2>4. /\ enum_read'[i] = enum_read[i] /\ i \in DOMAIN enum_read' /\ i # n
        /\ enum_read[i].kind = "reserved" /\ enum_read[i].first <= enum_read[i].last
    BY <1>2, <2>2 DEF OfKind, KeptSoFar, EnumSound
  <2>5. ~(EnumCompatible(enum_read[i], s) /\ EnumCompatible(s, enum_read[i]))
    BY <1>1, <1>3, <1>5, <2>1, <2>2, <2>4, CompatibleRangesDoNotOverlap
  <2> QED BY <1>2, <2>3, <2>4, <2>5 DEF EnumRules
<1>6. CASE /\ {s.first, s.last} \subseteq Int32 /\ s.first <= s.last
           /\ \A k \in DOMAIN enum_reserved.ranges : ~Overlap(enum_reserved.ranges[k], s)
  <2>1. /\ enum_reserved' = [enum_reserved EXCEPT !.ranges = Append(@, s)]
        /\ UNCHANGED <<value, allow_alias, enum_status>>
    BY <1>6 DEF ReservedRange, RangeAllowed
  <2>2. enum_reserved'.ranges = Append(enum_reserved.ranges,
       s) /\ enum_reserved'.names = enum_reserved.names
    BY <2>1 DEF EnumTypeOK
  <2>3. RangesDescribed'
    <3> DEFINE m == Len(enum_reserved.ranges) + 1
    <3>1. /\ m \in DOMAIN enum_reserved'.ranges /\ enum_reserved'.ranges[m] = s
          /\ \A k \in DOMAIN enum_reserved'.ranges :
               k = m \/ (k \in DOMAIN enum_reserved.ranges /\ enum_reserved'.ranges[k] = enum_reserved.ranges[k])
          /\ \A k \in DOMAIN enum_reserved.ranges :
               k \in DOMAIN enum_reserved'.ranges /\ enum_reserved'.ranges[k] = enum_reserved.ranges[k]
      BY <2>2 DEF EnumTypeOK
    <3> QED BY <1>2, <3>1 DEF EnumDescribes, RangesDescribed
  <2>4. \A i \in OfKind("reserved") : Disjoint(enum_read[i], s)
    <3>1. \A i \in OfKind("reserved") : \E k \in DOMAIN enum_reserved.ranges : enum_reserved.ranges[k] = enum_read[i]
      BY DEF EnumDescribes, RangesDescribed
    <3> QED BY <1>3, <1>6, <3>1, NoOverlapIsDisjoint
  <2>5. KeptSoFar'
    BY <1>1, <1>6, <2>4, KeptStep DEF EnumSound
  <2>6. ValuesDescribed' /\ FirstDescribed' /\ NamesDescribed' /\ AliasDescribed'
    BY <1>1, <2>1, <2>2, ValuesStay, NamesStay, AliasStays DEF EnumDescribes
  <2> QED BY <1>1, <2>1, <2>3, <2>5, <2>6 DEF EnumDescribes
<1> QED BY <1>4, <1>5, <1>6

LEMMA NameStep ==
  ASSUME EnumTypeOK, EnumDescribes, KeptSoFar, NEW s \in EnumStatements, ReservedName(s)
  PROVE  /\ enum_status' = "reading" => EnumDescribes' /\ KeptSoFar'
         /\ enum_status' = "rejected" => ~EnumRules'
         /\ enum_status' \in {"reading", "rejected"}
<1> DEFINE n == Len(enum_read) + 1
<1>1. s.kind = "reserved_name" /\ ReadingEnum(s) /\ enum_status = "reading"
  BY DEF ReservedName, ReadingEnum
<1>2. /\ OfKind("reserved_name")' = OfKind("reserved_name") \cup {n}
      /\ \A i \in OfKind("reserved_name") :
           i \in DOMAIN enum_read' /\ enum_read'[i] = enum_read[i] /\ i # n /\ enum_read[i].kind = "reserved_name"
      /\ enum_read'[n] = s /\ n \in DOMAIN enum_read'
  BY <1>1, OneOfKind DEF OfKind
<1>3. CASE s.name \in enum_reserved.names
  <2>1. PICK i \in OfKind("reserved_name") : s.name = enum_read[i].name
    BY <1>3 DEF EnumDescribes, NamesDescribed
  <2>2. ~EnumCompatible(enum_read[i], s)
    BY <1>1, <1>2, <2>1 DEF EnumCompatible
  <2>3. enum_status' = "rejected"
    BY <1>3 DEF ReservedName, RejectEnum
  <2> QED BY <1>2, <2>2, <2>3 DEF EnumRules
<1>4. CASE s.name \notin enum_reserved.names
  <2>1. /\ enum_reserved' = [enum_reserved EXCEPT !.names = @ \cup {s.name}]
        /\ UNCHANGED <<value, allow_alias, enum_status>>
    BY <1>4 DEF ReservedName
  <2>2. enum_reserved'.names = enum_reserved.names \cup {s.name} /\ enum_reserved'.ranges = enum_reserved.ranges
    BY <2>1 DEF EnumTypeOK
  <2>3. NamesDescribed'
    BY <1>2, <2>2 DEF EnumDescribes, NamesDescribed
  <2>4. \A i \in OfKind("reserved_name") : enum_read[i].name # s.name
    BY <1>4 DEF EnumDescribes, NamesDescribed
  <2>5. KeptSoFar'
    BY <1>1, <2>4, KeptStep DEF EnumSound
  <2>6. ValuesDescribed' /\ FirstDescribed' /\ RangesDescribed' /\ AliasDescribed'
    BY <1>1, <2>1, <2>2, ValuesStay, RangesStay, AliasStays DEF EnumDescribes
  <2> QED BY <1>1, <2>1, <2>3, <2>5, <2>6 DEF EnumDescribes
<1> QED BY <1>3, <1>4

(* A value that is not accepted clashes with a value or a reserved name or *)
(* range before it.                                                        *)
LEMMA ClashBreaksRules ==
  ASSUME StatementsTyped, EnumTypeOK, EnumDescribes, NEW s \in EnumStatements, s.kind = "value", ReadingEnum(s),
         ~(/\ \A i \in DOMAIN value : value[i].name # s.name
           /\ s.number \in Int32
           /\ Free(s)
           /\ s.options \cap {"default", "packed"} = {})
  PROVE  ~EnumRules'
<1> DEFINE n == Len(enum_read) + 1
<1>1. /\ \A kind : \A i \in OfKind(kind) :
           i \in DOMAIN enum_read' /\ enum_read'[i] = enum_read[i] /\ i # n /\ enum_read[i].kind = kind
      /\ enum_read'[n] = s /\ n \in DOMAIN enum_read'
  BY OneOfKind DEF OfKind
<1>2. CASE ~(s.number \in Int32 /\ s.options \cap {"default", "packed"} = {})
  <2>1. ~EnumSound(s)
    BY <1>2 DEF EnumSound
  <2> QED BY <1>1, <2>1 DEF EnumRules
<1>3. CASE \E k \in DOMAIN value : value[k].name = s.name
  <2>1. PICK i \in OfKind("value") : enum_read[i].name = s.name
    BY <1>3 DEF EnumDescribes, ValuesDescribed, Entry
  <2>2. ~EnumCompatible(enum_read[i], s)
    BY <1>1, <2>1 DEF EnumCompatible
  <2> QED BY <1>1, <2>2 DEF EnumRules
<1>4. CASE s.name \in enum_reserved.names
  <2>1. PICK i \in OfKind("reserved_name") : s.name = enum_read[i].name
    BY <1>4 DEF EnumDescribes, NamesDescribed
  <2>2. ~EnumCompatible(s, enum_read[i])
    BY <1>1, <2>1 DEF EnumCompatible
  <2> QED BY <1>1, <2>2 DEF EnumRules
<1>5. CASE \E k \in DOMAIN enum_reserved.ranges : Covers(enum_reserved.ranges[k], s.number)
  <2>1. PICK i \in OfKind("reserved") : Covers(enum_read[i], s.number)
    BY <1>5 DEF EnumDescribes, RangesDescribed
  <2>2. enum_read[i] \in EnumStatements
    <3>1. \A k \in DOMAIN enum_reserved.ranges : enum_reserved.ranges[k] \in EnumStatements
      BY DEF EnumTypeOK
    <3> QED BY <3>1 DEF EnumDescribes, RangesDescribed
  <2>3. enum_read[i].first \in Int /\ enum_read[i].last \in Int /\ s.number \in Int
    BY <1>1, <2>2 DEF StatementsTyped
  <2>4. ~EnumCompatible(s, enum_read[i])
    BY <1>1, <2>1, <2>3 DEF EnumCompatible, Covers
  <2> QED BY <1>1, <2>4 DEF EnumRules
<1> QED BY <1>2, <1>3, <1>4, <1>5 DEF Free

LEMMA ValueStep ==
  ASSUME StatementsTyped, EnumTypeOK, EnumDescribes, KeptSoFar, NEW s \in EnumStatements, EnumValue(s)
  PROVE  /\ enum_status' = "reading" => EnumDescribes' /\ KeptSoFar'
         /\ enum_status' = "rejected" => ~EnumRules'
         /\ enum_status' \in {"reading", "rejected"}
<1> DEFINE n == Len(enum_read) + 1
           m == Len(value) + 1
           good == /\ \A i \in DOMAIN value : value[i].name # s.name
                   /\ s.number \in Int32
                   /\ Free(s)
                   /\ s.options \cap {"default", "packed"} = {}
<1>1. s.kind = "value" /\ ReadingEnum(s) /\ enum_status = "reading"
  BY DEF EnumValue, ReadingEnum
<1>2. CASE ~good
  <2>1. enum_status' = "rejected"
    BY <1>2 DEF EnumValue, RejectEnum
  <2>2. ~EnumRules'
    BY <1>1, <1>2, ClashBreaksRules
  <2> QED BY <2>1, <2>2
<1>3. CASE good
  <2>1. /\ value' = Append(value, Entry(s))
        /\ UNCHANGED <<allow_alias, enum_reserved, enum_status>>
    BY <1>3 DEF EnumValue, Entry
  <2>2. /\ m \in DOMAIN value' /\ value'[m] = Entry(s) /\ value' # <<>>
        /\ \A k \in DOMAIN value' : k = m \/ (k \in DOMAIN value /\ value'[k] = value[k])
        /\ \A k \in DOMAIN value : k \in DOMAIN value' /\ value'[k] = value[k] /\ k # m
        /\ value = <<>> => m = 1
        /\ value # <<>> => 1 \in DOMAIN value
    <3>1. value \in Seq({Entry(t) : t \in EnumStatements})
      BY DEF EnumTypeOK
    <3> QED BY <2>1, <3>1
  <2>3. /\ OfKind("value")' = OfKind("value") \cup {n}
        /\ \A i \in OfKind("value") : enum_read'[i] = enum_read[i] /\ i <= n
        /\ enum_read'[n] = s /\ n <= n
    BY <1>1, OneOfKind
  <2>4. ValuesDescribed'
    <3>1. \A k \in DOMAIN value : value[k].name # Entry(s).name
      BY <1>3 DEF Entry
    <3> QED BY <2>2, <2>3, <3>1 DEF EnumDescribes, ValuesDescribed
  <2>5. FirstDescribed'
    <3>1. CASE value = <<>>
      <4>1. OfKind("value") = {}
        <5>1. DOMAIN value = {}
          BY <3>1
        <5> QED BY <5>1 DEF EnumDescribes, ValuesDescribed
      <4> QED BY <2>2, <2>3, <3>1, <4>1 DEF FirstDescribed
    <3>2. CASE value # <<>>
      <4>1. PICK i \in OfKind("value") : (\A j \in OfKind("value") : i <= j) /\ value[1] = Entry(enum_read[i])
        BY <3>2 DEF EnumDescribes, FirstDescribed
      <4>2. i \in OfKind("value")' /\ \A j \in OfKind("value")' : i <= j
        BY <2>3, <4>1
      <4>3. value'[1] = Entry(enum_read'[i])
        BY <2>2, <2>3, <3>2, <4>1
      <4> QED BY <4>2, <4>3 DEF FirstDescribed
    <3> QED BY <3>1, <3>2
  <2>6. \A i \in OfKind("value") : enum_read[i].name # s.name
    BY <1>3 DEF EnumDescribes, ValuesDescribed, Entry
  <2>7. KeptSoFar'
    BY <1>1, <1>3, <2>6, KeptStep DEF EnumSound
  <2>8. RangesDescribed' /\ NamesDescribed' /\ AliasDescribed'
    BY <1>1, <2>1, RangesStay, NamesStay, AliasStays DEF EnumDescribes
  <2> QED BY <1>1, <2>1, <2>4, <2>5, <2>7, <2>8 DEF EnumDescribes
<1> QED BY <1>2, <1>3

-----------------------------------------------------------------------------
(* The closing brace.                                                      *)

(* The numbers of the values are distinct exactly if those of the          *)
(* statements are.                                                         *)
LEMMA NumbersDistinct ==
  ASSUME EnumDescribes, KeptSoFar
  PROVE  IsInjective(Numbers) <=>
           \A i, j \in OfKind("value") : i # j => enum_read[i].number # enum_read[j].number
<1>1. /\ DOMAIN Numbers = DOMAIN value
      /\ \A k \in DOMAIN value : Numbers[k] = value[k].number
  BY DEF Numbers
<1>2. ASSUME IsInjective(Numbers), NEW i \in OfKind("value"), NEW j \in OfKind("value"), i # j
      PROVE  enum_read[i].number # enum_read[j].number
  <2>1. PICK k \in DOMAIN value : value[k] = Entry(enum_read[i])
    BY DEF EnumDescribes, ValuesDescribed
  <2>2. PICK l \in DOMAIN value : value[l] = Entry(enum_read[j])
    BY DEF EnumDescribes, ValuesDescribed
  <2>3. k # l
    BY <1>2, <2>1, <2>2 DEF KeptSoFar, Entry
  <2> QED BY <1>1, <1>2, <2>1, <2>2, <2>3 DEF IsInjective, Entry
<1>3. ASSUME \A i, j \in OfKind("value") : i # j => enum_read[i].number # enum_read[j].number,
             NEW k \in DOMAIN value, NEW l \in DOMAIN value, value[k].number = value[l].number
      PROVE  k = l
  <2>1. PICK i \in OfKind("value") : value[k] = Entry(enum_read[i])
    BY DEF EnumDescribes, ValuesDescribed
  <2>2. PICK j \in OfKind("value") : value[l] = Entry(enum_read[j])
    BY DEF EnumDescribes, ValuesDescribed
  <2>3. i = j
    BY <1>3, <2>1, <2>2 DEF Entry
  <2> QED BY <2>1, <2>2, <2>3 DEF EnumDescribes, ValuesDescribed
<1> QED BY <1>1, <1>2, <1>3 DEF IsInjective

(* Max and Min of a set that has one.                                      *)
LEMMA MaxIs ==
  ASSUME NEW S \in SUBSET Int, NEW m \in S, \A j \in S : m >= j
  PROVE  Max(S) = m
<1>1. Max(S) \in S /\ \A j \in S : Max(S) >= j
  BY DEF Max
<1>2. m >= Max(S) /\ Max(S) >= m /\ m \in Int /\ Max(S) \in Int
  BY <1>1
<1> QED BY <1>1, <1>2

LEMMA MinIs ==
  ASSUME NEW S \in SUBSET Int, NEW m \in S, \A j \in S : m <= j
  PROVE  Min(S) = m
<1>1. Min(S) \in S /\ \A j \in S : Min(S) <= j
  BY DEF Min
<1>2. m <= Min(S) /\ Min(S) <= m /\ m \in Int /\ Min(S) \in Int
  BY <1>1
<1> QED BY <1>1, <1>2

LEMMA IndicesAreNumbers ==
  ASSUME EnumTypeOK
  PROVE  \A kind : OfKind(kind) \in SUBSET Int
<1>1. DOMAIN enum_read \in SUBSET Int
  BY DEF EnumTypeOK
<1> QED BY <1>1 DEF OfKind

(* The last setting of allow_alias is the one in force.                    *)
LEMMA AliasInForce ==
  ASSUME EnumTypeOK, EnumDescribes
  PROVE  allow_alias <=> Aliases
<1>1. Aliases <=> Settings # {} /\ enum_read[Max(Settings)].constant = "true"
  BY DEF Aliases, Settings
<1>2. CASE Settings = {}
  BY <1>1, <1>2 DEF EnumDescribes, AliasDescribed
<1>3. CASE Settings # {}
  <2>1. PICK m \in Settings :
          (\A j \in Settings : m >= j) /\ allow_alias = (enum_read[m].constant = "true")
    BY <1>3 DEF EnumDescribes, AliasDescribed
  <2>2. Settings \in SUBSET Int
    BY IndicesAreNumbers DEF Settings
  <2>3. Max(Settings) = m
    BY <2>1, <2>2, MaxIs
  <2> QED BY <1>1, <1>3, <2>1, <2>3
<1> QED BY <1>2, <1>3

(* The first value is the first among the statements.                      *)
LEMMA FirstValue ==
  ASSUME EnumTypeOK, EnumDescribes
  PROVE  /\ value = <<>> <=> OfKind("value") = {}
         /\ value # <<>> => value[1].number = enum_read[Min(OfKind("value"))].number
<1>1. value = <<>> <=> DOMAIN value = {}
  BY DEF EnumTypeOK
<1>2. value = <<>> <=> OfKind("value") = {}
  BY <1>1 DEF EnumDescribes, ValuesDescribed
<1>3. ASSUME value # <<>>
      PROVE  value[1].number = enum_read[Min(OfKind("value"))].number
  <2>1. PICK i \in OfKind("value") : (\A j \in OfKind("value") : i <= j) /\ value[1] = Entry(enum_read[i])
    BY <1>3 DEF EnumDescribes, FirstDescribed
  <2>2. Min(OfKind("value")) = i
    BY <2>1, MinIs, IndicesAreNumbers
  <2> QED BY <2>1, <2>2 DEF Entry
<1> QED BY <1>2, <1>3

(* Values and reserved names and ranges agree exactly if each value, by    *)
(* the descriptor, is free.                                                *)
LEMMA StatementsAre ==
  ASSUME StatementsTyped, EnumTypeOK
  PROVE  /\ \A i \in DOMAIN enum_read :
              enum_read[i].kind \in {"option", "reserved", "reserved_name", "value", "end_of_file"}
         /\ \A i \in OfKind("value") : enum_read[i].number \in Int
         /\ \A i \in OfKind("reserved") : enum_read[i].first \in Int /\ enum_read[i].last \in Int
<1>1. \A i \in DOMAIN enum_read : enum_read[i] \in EnumStatements \cup {EndOfFile}
  BY DEF EnumTypeOK
<1>2. EndOfFile.kind = "end_of_file"
  BY DEF EndOfFile
<1> QED BY <1>1, <1>2 DEF OfKind, StatementsTyped

LEMMA FreeIsCompatible ==
  ASSUME StatementsTyped, EnumTypeOK, EnumDescribes, NEW i \in OfKind("value")
  PROVE  Free(enum_read[i]) <=>
           /\ \A j \in OfKind("reserved_name") : enum_read[i].name # enum_read[j].name
           /\ \A j \in OfKind("reserved") : enum_read[i].number < enum_read[j].first \/ enum_read[j].last < enum_read[i].number
<1>1. /\ enum_read[i].number \in Int
      /\ \A j \in OfKind("reserved") : enum_read[j].first \in Int /\ enum_read[j].last \in Int
  BY StatementsAre
<1>2. enum_read[i].name \notin enum_reserved.names <=>
        \A j \in OfKind("reserved_name") : enum_read[i].name # enum_read[j].name
  BY DEF EnumDescribes, NamesDescribed
<1>3. ASSUME NEW j \in OfKind("reserved")
      PROVE  ~Covers(enum_read[j], enum_read[i].number)
               <=> (enum_read[i].number < enum_read[j].first \/ enum_read[j].last < enum_read[i].number)
  BY <1>1 DEF Covers
<1>4. (\A k \in DOMAIN enum_reserved.ranges : ~Covers(enum_reserved.ranges[k], enum_read[i].number))
        <=> \A j \in OfKind("reserved") : ~Covers(enum_read[j], enum_read[i].number)
  BY DEF EnumDescribes, RangesDescribed
<1> QED BY <1>2, <1>3, <1>4 DEF Free

(* All statements are compatible exactly if all values are free.           *)
LEMMA AllCompatible ==
  ASSUME StatementsTyped, EnumTypeOK, EnumDescribes, KeptSoFar
  PROVE  (\A i, j \in DOMAIN enum_read : i # j => EnumCompatible(enum_read[i], enum_read[j]))
           <=> \A k \in DOMAIN value : Free(value[k])
<1> DEFINE free(i) == /\ \A j \in OfKind("reserved_name") : enum_read[i].name # enum_read[j].name
                      /\ \A j \in OfKind("reserved") :
                           enum_read[i].number < enum_read[j].first \/ enum_read[j].last < enum_read[i].number
<1>1. (\A k \in DOMAIN value : Free(value[k])) <=> \A i \in OfKind("value") : Free(enum_read[i])
  <2>1. \A i : Free(Entry(enum_read[i])) <=> Free(enum_read[i])
    BY DEF Free, Entry
  <2> QED BY <2>1 DEF EnumDescribes, ValuesDescribed
<1>2. \A i \in OfKind("value") : Free(enum_read[i]) <=> free(i)
  BY FreeIsCompatible
<1>3. ASSUME \A i, j \in DOMAIN enum_read : i # j => EnumCompatible(enum_read[i], enum_read[j]),
             NEW i \in OfKind("value")
      PROVE  free(i)
  <2>1. ASSUME NEW j \in OfKind("reserved_name")
        PROVE  enum_read[i].name # enum_read[j].name
    BY <1>3 DEF EnumCompatible, OfKind
  <2>2. ASSUME NEW j \in OfKind("reserved")
        PROVE  enum_read[i].number < enum_read[j].first \/ enum_read[j].last < enum_read[i].number
    BY <1>3 DEF EnumCompatible, OfKind
  <2> QED BY <2>1, <2>2
<1>4. ASSUME \A i \in OfKind("value") : free(i),
             NEW i \in DOMAIN enum_read, NEW j \in DOMAIN enum_read, i # j
      PROVE  EnumCompatible(enum_read[i], enum_read[j])
  <2>1. CASE i \in OfKind("value") /\ j \in OfKind("value")
    BY <1>4, <2>1 DEF EnumCompatible, OfKind, KeptSoFar
  <2>2. CASE i \in OfKind("value") /\ j \in OfKind("reserved_name")
    BY <1>4, <2>2 DEF EnumCompatible, OfKind
  <2>3. CASE i \in OfKind("value") /\ j \in OfKind("reserved")
    <3>1. free(i)
      BY <1>4, <2>3
    <3> QED BY <2>3, <3>1 DEF EnumCompatible, OfKind
  <2>4. CASE i \in OfKind("reserved_name")
    BY <1>4, <2>4 DEF EnumCompatible, OfKind, KeptSoFar
  <2>5. CASE i \in OfKind("reserved") /\ j \in OfKind("reserved")
    <3>1. /\ enum_read[i].first \in Int /\ enum_read[i].last \in Int /\ enum_read[j].first \in Int /\ enum_read[j].last \in Int
      BY <2>5, StatementsAre
    <3>2. Disjoint(enum_read[i], enum_read[j]) /\ enum_read[i].first <= enum_read[i].last
      BY <1>4, <2>5 DEF KeptSoFar, OfKind, EnumSound
    <3>3. \A n \in {enum_read[i].first, enum_read[i].last} : n < enum_read[j].first \/ enum_read[j].last < n
      BY <3>1, <3>2 DEF Disjoint
    <3> QED BY <2>5, <3>3 DEF EnumCompatible, OfKind
  <2>6. CASE /\ i \notin OfKind("value") \cup OfKind("reserved_name")
             /\ i \notin OfKind("reserved") \/ j \notin OfKind("reserved")
    BY <2>6 DEF EnumCompatible, OfKind
  <2>7. CASE i \in OfKind("value") /\ j \notin OfKind("value") \cup OfKind("reserved_name") \cup OfKind("reserved")
    BY <2>7 DEF EnumCompatible, OfKind
  <2> QED BY <2>1, <2>2, <2>3, <2>4, <2>5, <2>6, <2>7
<1> QED BY <1>1, <1>2, <1>3, <1>4

LEMMA ClosesByTheRules ==
  ASSUME StatementsTyped, EnumTypeOK, EnumDescribes, KeptSoFar
  PROVE  Closes <=> EnumRules
<1>1. \A i \in DOMAIN enum_read : EnumSound(enum_read[i])
  BY DEF KeptSoFar
<1>2. (\A i \in DOMAIN value : Free(value[i]))
        <=> \A i, j \in DOMAIN enum_read : i # j => EnumCompatible(enum_read[i], enum_read[j])
  BY AllCompatible
<1>3. allow_alias \/ IsInjective(Numbers)
        <=> (Aliases \/ \A i, j \in OfKind("value") : i # j => enum_read[i].number # enum_read[j].number)
  BY AliasInForce, NumbersDistinct
<1>4. (enum_syntax = "proto3" /\ value # <<>> => value[1].number = 0)
        <=> (enum_syntax = "proto3" /\ OfKind("value") # {} => enum_read[Min(OfKind("value"))].number = 0)
  BY FirstValue
<1> QED BY <1>1, <1>2, <1>3, <1>4 DEF Closes, EnumRules

-----------------------------------------------------------------------------
(* The theorem.                                                            *)
LEMMA InitHasEnumInv ==
  ASSUME EnumInit
  PROVE  EnumInv
<1>1. EnumTypeOK
  <2>1. /\ enum_read = <<>> /\ value = <<>> /\ enum_reserved = [ranges |-> <<>>, names |-> {}]
        /\ enum_syntax \in {"proto2", "proto3"} /\ allow_alias = FALSE /\ enum_status = "reading"
    BY DEF EnumInit
  <2>2. \A S : <<>> \in Seq(S)
    OBVIOUS
  <2>3. enum_reserved \in [ranges : Seq(EnumStatements), names : SUBSET {s.name : s \in EnumStatements}]
    BY <2>1, <2>2
  <2> QED BY <2>1, <2>2, <2>3 DEF EnumTypeOK
<1>2. DOMAIN enum_read = {} /\ DOMAIN value = {} /\ DOMAIN enum_reserved.ranges = {} /\ enum_reserved.names = {}
      /\ value = <<>>
  BY DEF EnumInit
<1>3. \A kind : OfKind(kind) = {}
  BY <1>2 DEF OfKind
<1>4. EnumDescribes
  <2>1. ValuesDescribed /\ FirstDescribed /\ RangesDescribed
    BY <1>2, <1>3 DEF ValuesDescribed, FirstDescribed, RangesDescribed
  <2>2. NamesDescribed
    BY <1>2, <1>3 DEF NamesDescribed
  <2>3. AliasDescribed
    BY <1>3 DEF AliasDescribed, Settings, EnumInit
  <2> QED BY <2>1, <2>2, <2>3 DEF EnumDescribes
<1>5. KeptSoFar
  BY <1>2, <1>3 DEF KeptSoFar
<1>6. EnumAcceptsByTheRules
  BY DEF EnumInit, EnumAcceptsByTheRules
<1> QED BY <1>1, <1>4, <1>5, <1>6 DEF EnumInv

LEMMA TypeStep ==
  ASSUME EnumTypeOK, [EnumNext]_enumVars
  PROVE  EnumTypeOK'
<1>1. CASE UNCHANGED enumVars
  BY <1>1 DEF EnumTypeOK, enumVars
<1>2. ASSUME NEW s \in EnumStatements, EnumOption(s)
      PROVE  EnumTypeOK'
  BY <1>2, OneMore DEF EnumOption, ReadingEnum, RejectEnum, EnumTypeOK
<1>3. ASSUME NEW s \in EnumStatements, ReservedRange(s)
      PROVE  EnumTypeOK'
  <2>1. enum_read' \in Seq(EnumStatements \cup {EndOfFile})
    BY <1>3, OneMore DEF ReservedRange
  <2>2. enum_reserved' \in [ranges : Seq(EnumStatements), names : SUBSET {t.name : t \in EnumStatements}]
    <3>1. enum_reserved' = enum_reserved \/ enum_reserved' = [enum_reserved EXCEPT !.ranges = Append(@, s)]
      BY <1>3 DEF ReservedRange, RejectEnum
    <3>2. Append(enum_reserved.ranges, s) \in Seq(EnumStatements)
      BY DEF EnumTypeOK
    <3> QED BY <3>1, <3>2 DEF EnumTypeOK
  <2> QED BY <1>3, <2>1, <2>2 DEF ReservedRange, ReadingEnum, RejectEnum, EnumTypeOK
<1>4. ASSUME NEW s \in EnumStatements, ReservedName(s)
      PROVE  EnumTypeOK'
  <2>1. enum_read' \in Seq(EnumStatements \cup {EndOfFile})
    BY <1>4, OneMore DEF ReservedName
  <2>2. enum_reserved' \in [ranges : Seq(EnumStatements), names : SUBSET {t.name : t \in EnumStatements}]
    <3>1. enum_reserved' = enum_reserved \/ enum_reserved' = [enum_reserved EXCEPT !.names = @ \cup {s.name}]
      BY <1>4 DEF ReservedName, RejectEnum
    <3>2. enum_reserved.names \cup {s.name} \in SUBSET {t.name : t \in EnumStatements}
      BY DEF EnumTypeOK
    <3> QED BY <3>1, <3>2 DEF EnumTypeOK
  <2> QED BY <1>4, <2>1, <2>2 DEF ReservedName, ReadingEnum, RejectEnum, EnumTypeOK
<1>5. ASSUME NEW s \in EnumStatements, EnumValue(s)
      PROVE  EnumTypeOK'
  <2>1. enum_read' \in Seq(EnumStatements \cup {EndOfFile})
    BY <1>5, OneMore DEF EnumValue
  <2>2. value' \in Seq({Entry(t) : t \in EnumStatements})
    <3>1. value' = value \/ value' = Append(value, Entry(s))
      BY <1>5 DEF EnumValue, RejectEnum, Entry
    <3>2. Append(value, Entry(s)) \in Seq({Entry(t) : t \in EnumStatements})
      BY DEF EnumTypeOK
    <3> QED BY <3>1, <3>2 DEF EnumTypeOK
  <2> QED BY <1>5, <2>1, <2>2 DEF EnumValue, ReadingEnum, RejectEnum, EnumTypeOK
<1>6. CASE UnterminatedEnum
  BY <1>6, OneMore DEF UnterminatedEnum, ReadingEnum, RejectEnum, EnumTypeOK, EndOfFile
<1>7. CASE CloseEnum
  BY <1>7 DEF CloseEnum, EnumTypeOK
<1> QED BY <1>1, <1>2, <1>3, <1>4, <1>5, <1>6, <1>7 DEF EnumNext

LEMMA NextKeepsEnumInv ==
  ASSUME StatementsTyped, EnumInv, [EnumNext]_enumVars
  PROVE  EnumInv'
<1>1. EnumTypeOK /\ EnumTypeOK'
  BY TypeStep DEF EnumInv
<1>2. CASE UNCHANGED enumVars
  BY <1>1, <1>2 DEF EnumInv, enumVars, EnumDescribes, KeptSoFar, EnumAcceptsByTheRules, ValuesDescribed,
       FirstDescribed,
     RangesDescribed, NamesDescribed, AliasDescribed, Settings, OfKind, EnumRules, Aliases
<1>3. CASE enum_status = "reading" /\ EnumNext
  <2>1. EnumDescribes /\ KeptSoFar
    BY <1>3 DEF EnumInv
  <2>2. ASSUME NEW s \in EnumStatements,
       EnumOption(s) \/ ReservedRange(s) \/ ReservedName(s) \/ EnumValue(s)
        PROVE  /\ enum_status' = "reading" => EnumDescribes' /\ KeptSoFar'
               /\ enum_status' = "rejected" => ~EnumRules'
               /\ enum_status' \in {"reading", "rejected"}
    BY <1>1, <2>1, <2>2, OptionStep, RangeStep, NameStep, ValueStep
  <2>3. CASE CloseEnum
    <3>1. EnumRules' <=> EnumRules
      BY <2>3 DEF CloseEnum, EnumRules, OfKind, Aliases
    <3>2. enum_status' = IF Closes THEN "accepted" ELSE "rejected"
      BY <2>3 DEF CloseEnum
    <3>3. Closes <=> EnumRules
      BY <1>1, <2>1, ClosesByTheRules
    <3> QED BY <1>1, <3>1, <3>2, <3>3 DEF EnumInv, EnumAcceptsByTheRules
  <2>4. CASE UnterminatedEnum
    <3>1. enum_status' = "rejected" /\ ReadingEnum(EndOfFile)
      BY <2>4 DEF UnterminatedEnum, RejectEnum, EndOfFile
    <3>2. Len(enum_read) + 1 \in DOMAIN enum_read' /\ enum_read'[Len(enum_read) + 1] = EndOfFile
      BY <1>1, <3>1, OneMore
    <3>3. ~EnumRules'
      BY <3>2 DEF EnumRules, EnumSound, EndOfFile
    <3> QED BY <1>1, <3>1, <3>3 DEF EnumInv, EnumAcceptsByTheRules
  <2> QED BY <1>1, <1>3, <2>2, <2>3, <2>4 DEF EnumNext, EnumInv, EnumAcceptsByTheRules
<1>4. CASE enum_status # "reading" /\ EnumNext
  BY <1>4 DEF EnumNext, EnumOption, ReservedRange, ReservedName, EnumValue, ReadingEnum, CloseEnum,
       UnterminatedEnum
<1> QED BY <1>2, <1>3, <1>4

(* An enum is accepted exactly if its statements keep the documented       *)
(* rules, in whatever order they stand: Parser::parse_enum, whose checks   *)
(* are spread over the statements and the closing brace.                   *)
THEOREM RulesAreEnforced ==
  ASSUME StatementsTyped
  PROVE  EnumSpec => []EnumAcceptsByTheRules
<1>1. EnumInit => EnumInv
  BY InitHasEnumInv
<1>2. EnumInv /\ [EnumNext]_enumVars => EnumInv'
  BY NextKeepsEnumInv
<1>3. EnumInv => EnumAcceptsByTheRules
  BY DEF EnumInv
<1> QED BY <1>1, <1>2, <1>3, PTL DEF EnumSpec
=============================================================================
