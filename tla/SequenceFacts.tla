---------------------------- MODULE SequenceFacts ---------------------------
(***************************************************************************)
(* Facts about natural numbers and sequences that the other proofs rest    *)
(* on.                                                                     *)
(*                                                                         *)
(* Induction is over a set of natural numbers, not over an operator.       *)
(***************************************************************************)
EXTENDS SequencesExt, FiniteSetTheorems, SequenceTheorems, TLAPS

(* Every set of natural numbers has a least one.                           *)
LEMMA LeastNatural ==
  ASSUME NEW T, T \subseteq Nat, T # {}
  PROVE  \E m \in T : \A k \in T : m <= k
<1> DEFINE R == OpToRel(<, Nat)
<1>1. IsWellFoundedOn(R, Nat)
  BY NatLessThanWellFounded
<1>2. PICK m \in T : \A k \in T : <<k, m>> \notin R
  <2> HIDE DEF R
  <2> QED BY <1>1, WFMin
<1>3. \A k \in T : ~(k < m)
  BY <1>2 DEF OpToRel
<1>4. m \in Nat /\ \A k \in T : k \in Nat
  OBVIOUS
<1> HIDE DEF R
<1>5. \A k \in T : m <= k
  BY <1>3, <1>4
<1> QED BY <1>5

(* A set that has 0 and the successors, up to n, of what it has.           *)
LEMMA Induction ==
  ASSUME NEW n \in Nat, NEW T, 0 \in T, \A k \in 1 .. n : k - 1 \in T => k \in T
  PROVE  0 .. n \subseteq T
<1> DEFINE F == (0 .. n) \ T
<1>1. SUFFICES ASSUME F # {} PROVE FALSE
  OBVIOUS
<1>2. PICK m \in F : \A k \in F : m <= k
  <2>1. F \subseteq Nat
    OBVIOUS
  <2> HIDE DEF F
  <2> QED BY <1>1, <2>1, LeastNatural
<1>3. m \in 1 .. n /\ m - 1 \in 0 .. n /\ ~(m <= m - 1)
  BY <1>2
<1>4. m - 1 \in T
  BY <1>2, <1>3
<1> QED BY <1>2, <1>3, <1>4

(* Every bounded set of them has a greatest one.                           *)
LEMMA GreatestNatural ==
  ASSUME NEW n \in Nat, NEW M, M \subseteq 0 .. n, M # {}
  PROVE  Max(M) \in M /\ \A y \in M : Max(M) >= y
<1> DEFINE Above == {k \in Nat : \A y \in M : k >= y}
           Q(x) == \A y \in M : x >= y
<1>1. n \in Above
  OBVIOUS
<1>2. PICK k \in Above : \A l \in Above : k <= l
  <2>1. Above \subseteq Nat /\ Above # {}
    BY <1>1
  <2> HIDE DEF Above
  <2> QED BY <2>1, LeastNatural
<1>3. k \in M
  <2>1. SUFFICES ASSUME k \notin M PROVE FALSE
    OBVIOUS
  <2>2. PICK y \in M : TRUE
    OBVIOUS
  <2>3. k - 1 \in Nat /\ \A z \in M : k - 1 >= z
    BY <2>1, <2>2
  <2>4. k - 1 \in Above /\ ~(k <= k - 1)
    BY <2>3
  <2> QED BY <1>2, <2>4
<1>4. k \in M /\ Q(k)
  BY <1>3
<1>5. Max(M) = CHOOSE x \in M : Q(x)
  BY DEF Max
<1> HIDE DEF Q
<1>6. Max(M) \in M /\ Q(Max(M))
  BY <1>4, <1>5
<1> QED BY <1>6 DEF Q

(* A function defined from its value at the predecessor.                   *)
Recurs(f, n, a, step) == f = [k \in 0 .. n |-> IF k = 0 THEN a ELSE step[k][f[k - 1]]]

LEMMA Recursion ==
  ASSUME NEW n \in Nat, NEW V, NEW a \in V, NEW step \in [1 .. n -> [V -> V]]
  PROVE  \E f \in [0 .. n -> V] : Recurs(f, n, a, step)
<1> DEFINE Upto(m, f) == \A k \in 0 .. m : f[k] = IF k = 0 THEN a ELSE step[k][f[k - 1]]
           T == {m \in 0 .. n : \E f \in [0 .. n -> V] : Upto(m, f)}
<1>1. 0 \in T
  <2>1. [k \in 0 .. n |-> a] \in [0 .. n -> V] /\ 0 \in 0 .. n
    OBVIOUS
  <2>2. Upto(0, [k \in 0 .. n |-> a])
    OBVIOUS
  <2> QED BY <2>1, <2>2
<1>2. ASSUME NEW m \in 1 .. n, m - 1 \in T
      PROVE  m \in T
  <2>1. PICK f \in [0 .. n -> V] : Upto(m - 1, f)
    BY <1>2
  <2> DEFINE v == step[m][f[m - 1]]
             g == [f EXCEPT ![m] = v]
  <2>2. m \in Nat /\ m - 1 \in 0 .. n /\ m \in 0 .. n /\ f[m - 1] \in V
    OBVIOUS
  <2>3. v \in V
    BY <2>2
  <2> HIDE DEF v
  <2>4. g \in [0 .. n -> V] /\ \A k \in 0 .. n : g[k] = IF k = m THEN v ELSE f[k]
    BY <2>3
  <2> HIDE DEF g
  <2>5. ASSUME NEW k \in 0 .. m
        PROVE  g[k] = IF k = 0 THEN a ELSE step[k][g[k - 1]]
    <3>1. k \in 0 .. n /\ k - 1 # m /\ (k # 0 => k - 1 \in 0 .. n)
      BY <2>2
    <3>2. CASE k = m
      BY <2>2, <2>4, <3>1, <3>2 DEF v
    <3>3. CASE k # m
      <4>1. k \in 0 .. m - 1
        BY <2>2, <3>3
      <4> QED BY <2>1, <2>4, <3>1, <3>3, <4>1
    <3> QED BY <3>2, <3>3
  <2>6. Upto(m, g)
    BY <2>5
  <2> HIDE DEF Upto
  <2> QED BY <2>2, <2>4, <2>6
<1>3. n \in T
  <2> HIDE DEF T
  <2>1. 0 .. n \subseteq T
    BY <1>1, <1>2, Induction
  <2> QED BY <2>1
<1>4. PICK f \in [0 .. n -> V] : Upto(n, f)
  BY <1>3
<1> QED BY <1>4 DEF Recurs

(* Induction from the greatest number down.                                *)
LEMMA DownInduction ==
  ASSUME NEW m \in Int, NEW n \in Int, NEW T,
         \A i \in m .. n : (\A j \in i + 1 .. n : j \in T) => i \in T
  PROVE  m .. n \subseteq T
<1> DEFINE F == {k \in Nat : n - k \in (m .. n) \ T}
<1>1. SUFFICES ASSUME NEW i \in m .. n, i \notin T PROVE FALSE
  OBVIOUS
<1>2. n - i \in F
  <2>1. n - i \in Nat /\ n - (n - i) = i
    OBVIOUS
  <2> QED BY <1>1, <2>1
<1>3. PICK k \in F : \A l \in F : k <= l
  <2>1. F \subseteq Nat /\ F # {}
    BY <1>2
  <2> HIDE DEF F
  <2> QED BY <2>1, LeastNatural
<1>4. ASSUME NEW j \in (n - k) + 1 .. n
      PROVE  j \in T
  <2>1. n - j \in Nat /\ n - (n - j) = j /\ ~(k <= n - j) /\ j \in m .. n
    BY <1>3
  <2>2. n - j \notin F
    BY <1>3, <2>1
  <2> QED BY <2>1, <2>2
<1> QED BY <1>3, <1>4

(* A function defined from its values above: G[i][f] depends on no value   *)
(* of f at i or below.                                                     *)
FromAbove(G, m, n, V) ==
    /\ G \in [m .. n -> [[m .. n -> V] -> V]]
    /\ \A i \in m .. n : \A f, g \in [m .. n -> V] :
         (\A j \in i + 1 .. n : f[j] = g[j]) => G[i][f] = G[i][g]

Solved(G, m, n, V) == \E f \in [m .. n -> V] : \A i \in m .. n : f[i] = G[i][f]

LEMMA Descent ==
  ASSUME NEW m \in Int, NEW n \in Int, NEW V, NEW v \in V, NEW G, FromAbove(G, m, n, V)
  PROVE  Solved(G, m, n, V)
<1> SUFFICES \E f \in [m .. n -> V] : \A i \in m .. n : f[i] = G[i][f]
  BY DEF Solved
<1> DEFINE D == m .. n
           Above(k, f) == \A i \in D : i > n - k => f[i] = G[i][f]
           T == {k \in Nat : \E f \in [D -> V] : Above(k, f)}
<1>0. /\ G \in [D -> [[D -> V] -> V]]
      /\ \A i \in D : \A f, g \in [D -> V] : (\A j \in i + 1 .. n : f[j] = g[j]) => G[i][f] = G[i][g]
  BY DEF FromAbove
<1>1. CASE m > n
  <2>1. [i \in D |-> v] \in [D -> V] /\ D = {}
    BY <1>1
  <2> QED BY <2>1
<1>2. CASE m <= n
  <2> DEFINE h == (n - m) + 1
  <2>1. h \in Nat
    BY <1>2
  <2>2. 0 \in T
    <3>1. [i \in D |-> v] \in [D -> V] /\ \A i \in D : ~(i > n - 0)
      OBVIOUS
    <3> HIDE DEF D
    <3> QED BY <3>1
  <2>3. ASSUME NEW k \in 1 .. h, k - 1 \in T
        PROVE  k \in T
    <3>1. PICK f \in [D -> V] : Above(k - 1, f)
      BY <2>3
    <3> DEFINE p == (n - k) + 1
               w == G[p][f]
               g == [f EXCEPT ![p] = w]
    <3>2. p \in D /\ k \in Nat /\ w \in V
      <4>1. p \in D /\ k \in Nat
        BY <2>1
      <4> HIDE DEF D, p
      <4> QED BY <1>0, <4>1
    <3> HIDE DEF w
    <3>3. g \in [D -> V] /\ g[p] = w /\ \A i \in D : i # p => g[i] = f[i]
      BY <3>2
    <3> HIDE DEF g
    <3>4. \A i \in D : i >= p => G[i][g] = G[i][f]
      <4>1. \A i \in D : i >= p => \A j \in i + 1 .. n : j \in D /\ j # p
        BY <3>2
      <4>2. \A i \in D : i >= p => \A j \in i + 1 .. n : g[j] = f[j]
        BY <3>3, <4>1
      <4> HIDE DEF p, D
      <4> QED BY <1>0, <3>3, <4>2
    <3>5. ASSUME NEW i \in D, i > n - k
          PROVE  g[i] = G[i][g]
      <4>1. i >= p /\ (i # p => i > n - (k - 1))
        BY <3>2, <3>5
      <4>2. CASE i = p
        BY <3>2, <3>3, <3>4, <4>1, <4>2 DEF w
      <4>3. CASE i # p
        <5>1. f[i] = G[i][f]
          BY <3>1, <4>1, <4>3
        <5> HIDE DEF D, p
        <5> QED BY <3>3, <3>4, <4>1, <4>3, <5>1
      <4> QED BY <4>2, <4>3
    <3>6. Above(k, g)
      BY <3>5
    <3> HIDE DEF Above, D
    <3> QED BY <3>2, <3>3, <3>6
  <2>4. h \in T
    <3> HIDE DEF T, h
    <3>1. 0 .. h \subseteq T
      BY <2>1, <2>2, <2>3, Induction
    <3> QED BY <2>1, <3>1
  <2>5. PICK f \in [D -> V] : Above(h, f)
    BY <2>4
  <2>6. \A i \in D : i > n - h
    BY <2>1
  <2>7. \A i \in D : f[i] = G[i][f]
    <3> HIDE DEF D, h
    <3> QED BY <2>5, <2>6
  <2> QED BY <2>7
<1> QED BY <1>1, <1>2

LEMMA LeastOf ==
  ASSUME NEW T, T \subseteq Nat, T # {}
  PROVE  Min(T) \in T /\ \A k \in T : Min(T) <= k
<1> DEFINE Q(x) == \A k \in T : x <= k
<1>1. \E m \in T : Q(m)
  BY LeastNatural
<1>2. Min(T) = CHOOSE x \in T : Q(x)
  BY DEF Min
<1> HIDE DEF Q
<1>3. Min(T) \in T /\ Q(Min(T))
  BY <1>1, <1>2
<1> QED BY <1>3 DEF Q

LEMMA LeastIs ==
  ASSUME NEW n \in Nat, NEW T, T \subseteq 1 .. n, NEW k \in T, \A i \in 1 .. k - 1 : i \notin T
  PROVE  Min(T) = k
<1>1. T \subseteq Nat /\ T # {}
  OBVIOUS
<1>2. Min(T) \in T /\ Min(T) <= k
  BY <1>1, LeastOf
<1>3. Min(T) \in 1 .. n /\ k \in 1 .. n
  BY <1>2
<1>4. Min(T) < k => Min(T) \in 1 .. k - 1
  BY <1>3
<1> QED BY <1>2, <1>3, <1>4

-----------------------------------------------------------------------------
(* Sequences of sequences.                                                 *)

Joined(f, s) == f = [i \in 1 .. Len(s) |-> IF i = 1 THEN s[i] ELSE f[i - 1] \o s[i]]

LEMMA FlattenIsJoined ==
  ASSUME NEW A, NEW s \in Seq(Seq(A)), s # <<>>
  PROVE  \E f : Joined(f, s) /\ FlattenSeq(s) = f[Len(s)]
<1> DEFINE n == Len(s)
           Upto(k, f) == \A i \in 1 .. k : f[i] = IF i = 1 THEN s[i] ELSE f[i - 1] \o s[i]
           T == {k \in 0 .. n : \E f : Upto(k, f)}
<1>1. n \in Nat /\ n # 0
  OBVIOUS
<1>2. 0 \in T
  BY <1>1
<1>3. ASSUME NEW k \in 1 .. n, k - 1 \in T
      PROVE  k \in T
  <2>1. PICK f : Upto(k - 1, f)
    BY <1>3
  <2> DEFINE last == IF k = 1 THEN s[k] ELSE f[k - 1] \o s[k]
             g == [i \in 1 .. n |-> IF i < k THEN f[i] ELSE last]
  <2>2. \A i \in 1 .. n : g[i] = IF i < k THEN f[i] ELSE last
    OBVIOUS
  <2>3. k \in Nat /\ k - 1 \in Nat /\ k <= n
    BY <1>1
  <2> HIDE DEF g, n
  <2>4. ASSUME NEW i \in 1 .. k
        PROVE  g[i] = IF i = 1 THEN s[i] ELSE g[i - 1] \o s[i]
    <3>1. i \in Nat /\ i <= k /\ i \in 1 .. n /\ (i # 1 => i - 1 \in 1 .. n /\ i - 1 < k)
      BY <1>1, <2>3
    <3>2. i # 1 => g[i - 1] = f[i - 1]
      BY <2>2, <3>1
    <3>3. CASE i < k
      <4>1. i \in 1 .. k - 1
        BY <2>3, <3>1, <3>3
      <4>2. f[i] = IF i = 1 THEN s[i] ELSE f[i - 1] \o s[i]
        BY <2>1, <4>1
      <4> QED BY <2>2, <3>1, <3>2, <3>3, <4>2
    <3>4. CASE i = k
      <4>1. g[i] = last
        BY <2>2, <2>3, <3>1, <3>4
      <4> QED BY <3>2, <3>4, <4>1
    <3> QED BY <2>3, <3>1, <3>3, <3>4
  <2>5. Upto(k, g)
    BY <2>4
  <2> QED BY <2>5
<1>4. n \in T
  <2> HIDE DEF T, n
  <2>1. 0 .. n \subseteq T
    BY <1>1, <1>2, <1>3, Induction
  <2> QED BY <1>1, <2>1
<1>5. PICK f : Upto(n, f)
  BY <1>4
<1> DEFINE g == [i \in 1 .. n |-> f[i]]
<1>6. Joined(g, s)
  <2>1. \A i \in 1 .. n : i # 1 => i - 1 \in 1 .. n
    BY <1>1
  <2>2. \A i \in 1 .. n : g[i] = IF i = 1 THEN s[i] ELSE g[i - 1] \o s[i]
    BY <1>5, <2>1
  <2> QED BY <2>2 DEF Joined
<1> DEFINE h == CHOOSE r : Joined(r, s)
<1>7. Joined(h, s)
  <2> HIDE DEF g
  <2> QED BY <1>6
<1>8. FlattenSeq(s) = h[Len(s)]
  BY <1>1 DEF FlattenSeq, Joined
<1> HIDE DEF h
<1> QED BY <1>7, <1>8

LEMMA JoinedIs ==
  ASSUME NEW A, NEW s \in Seq(Seq(A)), NEW f, Joined(f, s)
  PROVE  \A i \in 1 .. Len(s) : f[i] \in Seq(A) /\ f[i] = IF i = 1 THEN s[i] ELSE f[i - 1] \o s[i]
<1> DEFINE n == Len(s)
           T == {k \in 0 .. n : k # 0 => f[k] \in Seq(A)}
<1>1. n \in Nat
  OBVIOUS
<1>2. \A i \in 1 .. n : f[i] = IF i = 1 THEN s[i] ELSE f[i - 1] \o s[i]
  BY DEF Joined
<1>3. ASSUME NEW k \in 1 .. n, k - 1 \in T
      PROVE  k \in T
  <2>1. s[k] \in Seq(A) /\ k \in 0 .. n /\ k \in Nat
    BY <1>1
  <2>2. CASE k = 1
    BY <1>2, <2>1, <2>2
  <2>3. CASE k # 1
    <3>1. f[k - 1] \in Seq(A)
      BY <1>3, <2>1, <2>3
    <3>2. f[k] = f[k - 1] \o s[k]
      BY <1>2, <2>3
    <3>3. f[k - 1] \o s[k] \in Seq(A)
      BY <2>1, <3>1, ConcatProperties
    <3> QED BY <2>1, <3>2, <3>3
  <2> QED BY <2>2, <2>3
<1>4. 0 \in T
  BY <1>1
<1>5. 0 .. n \subseteq T
  <2> HIDE DEF T, n
  <2> QED BY <1>1, <1>3, <1>4, Induction
<1>6. ASSUME NEW i \in 1 .. n
      PROVE  f[i] \in Seq(A)
  <2>1. i \in 0 .. n /\ i # 0
    BY <1>1
  <2> QED BY <1>5, <2>1
<1> QED BY <1>2, <1>6

LEMMA FlattenEmpty == FlattenSeq(<<>>) = <<>>
BY DEF FlattenSeq

LEMMA FlattenType ==
  ASSUME NEW A, NEW s \in Seq(Seq(A))
  PROVE  FlattenSeq(s) \in Seq(A)
<1>1. CASE s = <<>>
  BY <1>1, FlattenEmpty, EmptySeq
<1>2. CASE s # <<>>
  <2>1. PICK f : Joined(f, s) /\ FlattenSeq(s) = f[Len(s)]
    BY <1>2, FlattenIsJoined
  <2>2. Len(s) \in 1 .. Len(s)
    BY <1>2
  <2> QED BY <2>1, <2>2, JoinedIs
<1> QED BY <1>1, <1>2

LEMMA AppendIs ==
  ASSUME NEW B, NEW s \in Seq(B), NEW x \in B
  PROVE  /\ Append(s, x) \in Seq(B) /\ Append(s, x) # <<>> /\ Len(Append(s, x)) = Len(s) + 1
         /\ Append(s, x)[Len(s) + 1] = x /\ \A i \in 1 .. Len(s) : Append(s, x)[i] = s[i]
OBVIOUS

LEMMA FlattenAppend ==
  ASSUME NEW A, NEW s \in Seq(Seq(A)), NEW x \in Seq(A)
  PROVE  FlattenSeq(Append(s, x)) = FlattenSeq(s) \o x
<1> DEFINE t == Append(s, x)
           n == Len(s)
<1>1. /\ t \in Seq(Seq(A)) /\ t # <<>> /\ Len(t) = n + 1 /\ n \in Nat
      /\ t[n + 1] = x /\ \A i \in 1 .. n : t[i] = s[i]
  <2>1. n \in Nat
    OBVIOUS
  <2> QED BY <2>1, AppendIs
<1> HIDE DEF t
<1>2. PICK g : Joined(g, t) /\ FlattenSeq(t) = g[n + 1]
  BY <1>1, FlattenIsJoined
<1>3. \A i \in 1 .. n + 1 : g[i] \in Seq(A) /\ g[i] = IF i = 1 THEN t[i] ELSE g[i - 1] \o t[i]
  <2>1. \A i \in 1 .. Len(t) : g[i] \in Seq(A) /\ g[i] = IF i = 1 THEN t[i] ELSE g[i - 1] \o t[i]
    <3>1. t \in Seq(Seq(A)) /\ Joined(g, t)
      BY <1>1, <1>2
    <3> QED BY <3>1, JoinedIs, SMTT(60)
  <2> QED BY <1>1, <2>1
<1>4. CASE s = <<>>
  <2>1. n = 0 /\ g[1] = x
    BY <1>1, <1>3, <1>4
  <2> QED BY <1>2, <1>4, <2>1, FlattenEmpty DEF t
<1>5. CASE s # <<>>
  <2>1. PICK f : Joined(f, s) /\ FlattenSeq(s) = f[n]
    BY <1>5, FlattenIsJoined
  <2>2. \A i \in 1 .. n : f[i] = IF i = 1 THEN s[i] ELSE f[i - 1] \o s[i]
    BY <2>1, JoinedIs
  <2> DEFINE T == {k \in 0 .. n : k # 0 => f[k] = g[k]}
  <2>3. 0 \in T
    BY <1>1
  <2> HIDE DEF n
  <2>4. ASSUME NEW k \in 1 .. n, k - 1 \in T
        PROVE  k \in T
    <3>1. k \in 0 .. n /\ k \in 1 .. n + 1 /\ (k # 1 => k - 1 # 0)
      BY <1>1
    <3> QED BY <1>1, <1>3, <2>2, <2>4, <3>1
  <2>5. n \in T
    <3> HIDE DEF T
    <3>1. 0 .. n \subseteq T
      BY <1>1, <2>3, <2>4, Induction
    <3> QED BY <1>1, <3>1
  <2>6. n # 0 /\ n + 1 # 1 /\ n + 1 \in 1 .. n + 1
    BY <1>1, <1>5 DEF n
  <2>7. f[n] = g[n]
    BY <2>5, <2>6
  <2>8. g[n + 1] = g[(n + 1) - 1] \o t[n + 1] /\ (n + 1) - 1 = n
    <3>1. g[n + 1] = IF n + 1 = 1 THEN t[n + 1] ELSE g[(n + 1) - 1] \o t[n + 1]
      BY <1>3, <2>6
    <3>2. (n + 1) - 1 = n
      BY <1>1
    <3> QED BY <2>6, <3>1, <3>2
  <2> QED BY <1>1, <1>2, <2>1, <2>7, <2>8 DEF t
<1> QED BY <1>4, <1>5

LEMMA Begins ==
  ASSUME NEW A, NEW s \in Seq(A), NEW t \in Seq(A)
  PROVE  IsPrefix(s, s \o t)
<1>1. SubSeq(s \o t, 1, Len(s)) = SubSeq(s, 1, Len(s))
  OBVIOUS
<1>2. Len(s) <= Len(s \o t)
  OBVIOUS
<1> QED BY <1>1, <1>2 DEF IsPrefix

LEMMA Associative ==
  ASSUME NEW A
  PROVE  \A x, y, z \in Seq(A) : (x \o y) \o z = x \o (y \o z)
BY ConcatAssociative, SMTT(60)

Regroups(A, w, p, v, u) ==
    /\ (w \o (p \o v)) \o u = (w \o p) \o (v \o u)
    /\ w \o p \in Seq(A) /\ v \o u \in Seq(A)

LEMMA Regrouped ==
  ASSUME NEW A, NEW w \in Seq(A), NEW p \in Seq(A), NEW v \in Seq(A), NEW u \in Seq(A)
  PROVE  Regroups(A, w, p, v, u)
<1>1. w \o p \in Seq(A) /\ v \o u \in Seq(A)
  BY ConcatProperties
<1>2. w \o (p \o v) = (w \o p) \o v
  BY ConcatAssociative, SMTT(60)
<1> DEFINE x == w \o p
<1>3. x \in Seq(A)
  BY <1>1
<1> HIDE DEF x
<1>4. (x \o v) \o u = x \o (v \o u)
  BY <1>3, ConcatAssociative, SMTT(60)
<1> QED BY <1>1, <1>2, <1>4 DEF Regroups, x

(* What has been joined so far begins all that will be.                    *)
LEMMA FlattenExtends ==
  ASSUME NEW A, NEW s \in Seq(Seq(A)), NEW k \in 0 .. Len(s)
  PROVE  \E u \in Seq(A) : FlattenSeq(s) = FlattenSeq(SubSeq(s, 1, k)) \o u
<1> DEFINE n == Len(s)
           F(i) == FlattenSeq(SubSeq(s, 1, i))
           T == {l \in 0 .. n - k : \E u \in Seq(A) : F(k + l) = F(k) \o u}
<1>1. n \in Nat /\ k \in Nat /\ k <= n /\ n - k \in Nat
  OBVIOUS
<1>2. ASSUME NEW i \in 0 .. n
      PROVE  SubSeq(s, 1, i) \in Seq(Seq(A)) /\ F(i) \in Seq(A)
  <2>1. \A j \in 1 .. i : s[j] \in Seq(A)
    BY <1>1
  <2>2. SubSeq(s, 1, i) \in Seq(Seq(A))
    BY <1>1, <2>1, SubSeqProperties
  <2> QED BY <2>2, FlattenType
<1>3. ASSUME NEW i \in 1 .. n
      PROVE  F(i) = F(i - 1) \o s[i]
  <2>1. SubSeq(s, 1, i) = Append(SubSeq(s, 1, i - 1), s[i])
    BY <1>1
  <2>2. i - 1 \in 0 .. n /\ s[i] \in Seq(A)
    BY <1>1
  <2> QED BY <1>2, <2>1, <2>2, FlattenAppend
<1>4. 0 \in T
  <2>1. k + 0 = k /\ k \in 0 .. n /\ 0 \in 0 .. n - k
    BY <1>1
  <2>2. F(k) = F(k) \o <<>> /\ <<>> \in Seq(A)
    BY <1>2, <2>1
  <2> QED BY <2>1, <2>2
<1>5. ASSUME NEW l \in 1 .. n - k, l - 1 \in T
      PROVE  l \in T
  <2>1. l \in 0 .. n - k /\ k + l \in 1 .. n /\ k + (l - 1) = (k + l) - 1 /\ k \in 0 .. n
    BY <1>1
  <2>2. PICK u \in Seq(A) : F(k + (l - 1)) = F(k) \o u
    BY <1>5
  <2> DEFINE x == s[k + l]
  <2>3. x \in Seq(A) /\ F(k) \in Seq(A)
    BY <1>2, <2>1
  <2>4. F(k + l) = F((k + l) - 1) \o x
    BY <1>3, <2>1
  <2> HIDE DEF x, F
  <2>5. F(k + l) = (F(k) \o u) \o x
    BY <2>1, <2>2, <2>4
  <2>6. F(k + l) = F(k) \o (u \o x) /\ u \o x \in Seq(A)
    <3>1. \A p, q, r \in Seq(A) : (p \o q) \o r = p \o (q \o r)
      BY Associative, SMTT(60)
    <3>2. u \o x \in Seq(A)
      BY <2>2, <2>3, ConcatProperties
    <3>3. (F(k) \o u) \o x = F(k) \o (u \o x)
      BY <2>2, <2>3, <3>1
    <3> QED BY <2>5, <3>2, <3>3
  <2> QED BY <2>1, <2>6
<1>6. n - k \in T
  <2> HIDE DEF T, n
  <2>1. 0 .. n - k \subseteq T
    BY <1>1, <1>4, <1>5, Induction
  <2> QED BY <1>1, <2>1
<1>7. PICK u \in Seq(A) : F(n) = F(k) \o u
  BY <1>1, <1>6
<1>8. SubSeq(s, 1, n) = s
  OBVIOUS
<1> QED BY <1>7, <1>8

LEMMA FlattenOne ==
  ASSUME NEW A, NEW s \in Seq(A)
  PROVE  FlattenSeq(<<s>>) = s
<1>1. <<s>> = Append(<<>>, s) /\ <<>> \in Seq(Seq(A))
  OBVIOUS
<1>2. FlattenSeq(<<s>>) = <<>> \o s
  BY <1>1, FlattenAppend, FlattenEmpty
<1> QED BY <1>2, ConcatEmptySeq

LEMMA OwnElements ==
  ASSUME NEW A, NEW s \in Seq(A)
  PROVE  s \in Seq(ToSet(s))
<1>1. s = [i \in 1 .. Len(s) |-> s[i]] /\ Len(s) \in Nat /\ DOMAIN s = 1 .. Len(s)
  OBVIOUS
<1>2. \A i \in 1 .. Len(s) : s[i] \in ToSet(s)
  BY <1>1 DEF ToSet
<1> QED BY <1>1, <1>2

LEMMA FirstAlone ==
  ASSUME NEW A, NEW s \in Seq(A), Len(s) >= 1
  PROVE  SubSeq(s, 1, 1) = <<s[1]>>
<1> DEFINE t == SubSeq(s, 1, 1)
           u == <<s[1]>>
<1>1. Len(s) \in Nat /\ s[1] \in A
  OBVIOUS
<1>2. t \in Seq(A) /\ Len(t) = 1 /\ t[1] = s[1]
  BY <1>1
<1>3. u \in Seq(A) /\ Len(u) = 1 /\ u[1] = s[1]
  BY <1>1
<1> HIDE DEF t, u
<1>4. t = u
  BY <1>2, <1>3, SeqEqual
<1> QED BY <1>4 DEF t, u

LEMMA PiecePlaced ==
  ASSUME NEW A, NEW s \in Seq(Seq(A)), NEW i \in 1 .. Len(s)
  PROVE  LET f == FlattenSeq(s)
             before == Len(FlattenSeq(SubSeq(s, 1, i - 1)))
             upto == Len(FlattenSeq(SubSeq(s, 1, i)))
         IN  /\ before \in Nat /\ upto = before + Len(s[i]) /\ upto <= Len(f)
             /\ \A k \in 1 .. Len(s[i]) : f[before + k] = s[i][k]
<1> DEFINE f == FlattenSeq(s)
           p == FlattenSeq(SubSeq(s, 1, i - 1))
           q == FlattenSeq(SubSeq(s, 1, i))
           x == s[i]
<1>1. Len(s) \in Nat /\ i \in Nat /\ i - 1 \in 0 .. Len(s) /\ i \in 0 .. Len(s) /\ x \in Seq(A)
  OBVIOUS
<1>2. SubSeq(s, 1, i - 1) \in Seq(Seq(A)) /\ SubSeq(s, 1, i) = Append(SubSeq(s, 1, i - 1), x)
  BY <1>1
<1>3. q = p \o x /\ p \in Seq(A)
  BY <1>1, <1>2, FlattenAppend, FlattenType
<1>4. PICK u \in Seq(A) : f = q \o u
  BY <1>1, FlattenExtends
<1> HIDE DEF f, p, q, x
<1>5. q \in Seq(A) /\ Len(q) = Len(p) + Len(x) /\ \A k \in 1 .. Len(x) : q[Len(p) + k] = x[k]
  BY <1>1, <1>3
<1>6. Len(f) = Len(q) + Len(u) /\ \A k \in 1 .. Len(q) : f[k] = q[k]
  <2>1. q \in Seq(A) /\ u \in Seq(A) /\ f = q \o u
    BY <1>4, <1>5
  <2> QED BY <2>1
<1>7. Len(p) \in Nat /\ Len(q) <= Len(f)
  BY <1>3, <1>4, <1>5, <1>6
<1>8. ASSUME NEW k \in 1 .. Len(x)
      PROVE  f[Len(p) + k] = x[k]
  <2>1. Len(p) + k \in 1 .. Len(q)
    BY <1>1, <1>5, <1>7
  <2> QED BY <1>5, <1>6, <2>1
<1> QED BY <1>5, <1>7, <1>8 DEF f, p, q, x

LEMMA JoinedTexts ==
  ASSUME NEW A, NEW x \in Seq(A), NEW y \in Seq(A)
  PROVE  /\ x \o y \in Seq(A) /\ Len(x \o y) = Len(x) + Len(y) /\ Len(x) \in Nat /\ Len(y) \in Nat
         /\ \A k \in 1 .. Len(x) : (x \o y)[k] = x[k]
         /\ \A k \in 1 .. Len(y) : (x \o y)[Len(x) + k] = y[k]
OBVIOUS

LEMMA HeadAndRest ==
  ASSUME NEW A, NEW s \in Seq(A), NEW i \in 1 .. Len(s)
  PROVE  <<s[i]>> \o SubSeq(s, i + 1, Len(s)) = SubSeq(s, i, Len(s))
<1> DEFINE n == Len(s)
           q == <<s[i]>>
           t == SubSeq(s, i + 1, n)
           u == SubSeq(s, i, n)
<1>1. n \in Nat /\ i \in Nat /\ i <= n /\ i >= 1 /\ s[i] \in A
  OBVIOUS
<1>2. q \in Seq(A) /\ Len(q) = 1 /\ q[1] = s[i]
  BY <1>1
<1>3. t \in Seq(A) /\ Len(t) = n - i /\ \A k \in 1 .. n - i : t[k] = s[i + k]
  <2>1. i + 1 \in 1 .. n + 1
    BY <1>1
  <2> QED BY <1>1, <2>1
<1>4. u \in Seq(A) /\ Len(u) = (n - i) + 1 /\ \A k \in 1 .. (n - i) + 1 : u[k] = s[(i + k) - 1]
  BY <1>1
<1> HIDE DEF q, t, u
<1> DEFINE v == q \o t
<1>5. v \in Seq(A) /\ Len(v) = Len(q) + Len(t) /\ (\A k \in 1 .. Len(q) : v[k] = q[k])
      /\ \A k \in 1 .. Len(t) : v[Len(q) + k] = t[k]
  <2>1. q \in Seq(A) /\ t \in Seq(A)
    BY <1>2, <1>3
  <2> HIDE DEF v
  <2> QED BY <2>1, JoinedTexts DEF v
<1> HIDE DEF v, n
<1>6. Len(v) = Len(u)
  BY <1>1, <1>2, <1>3, <1>4, <1>5
<1>7. ASSUME NEW k \in 1 .. Len(v)
      PROVE  v[k] = u[k]
  <2>1. k \in 1 .. (n - i) + 1
    BY <1>4, <1>6
  <2>2. CASE k = 1
    <3>1. 1 \in 1 .. Len(q)
      BY <1>2
    <3>2. (i + 1) - 1 = i
      BY <1>1
    <3> QED BY <1>2, <1>4, <1>5, <2>1, <2>2, <3>1, <3>2
  <2>3. CASE k # 1
    <3>1. k - 1 \in 1 .. Len(t) /\ Len(q) + (k - 1) = k /\ i + (k - 1) = (i + k) - 1
      BY <1>1, <1>2, <1>3, <2>1, <2>3
    <3>2. k - 1 \in 1 .. n - i
      BY <1>3, <3>1
    <3>3. v[Len(q) + (k - 1)] = t[k - 1]
      BY <1>5, <3>1
    <3>4. t[k - 1] = s[i + (k - 1)]
      BY <1>3, <3>2
    <3>5. u[k] = s[(i + k) - 1]
      BY <1>4, <2>1
    <3> QED BY <3>1, <3>3, <3>4, <3>5
  <2> QED BY <2>2, <2>3
<1>8. v = u
  BY <1>4, <1>5, <1>6, <1>7, SeqEqual
<1> QED BY <1>8 DEF v, q, t, u, n
=============================================================================
