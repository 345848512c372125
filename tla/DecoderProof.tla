---------------------------- MODULE DecoderProof ----------------------------
(***************************************************************************)
(* The Decoder, for every schema, every width and every input: cursors     *)
(* stay in the slices that their callers have stepped over, decode()       *)
(* makes of the bytes what DecodeReference does, and a fault is local.     *)
(*                                                                         *)
(* The cursors come first, which need no reference.  Then: what a reader   *)
(* makes of a slice and what the reference makes of the same bytes; what   *)
(* the recursive functions of the reference return, and how an object      *)
(* grows with one more field; and last the invariant that relates every    *)
(* activation on the stack to the bytes it decodes, action by action.      *)
(***************************************************************************)
EXTENDS DecoderResults, WireProof

(* A buffer is made of bytes, whatever the bytes are.                      *)
BuffersAreBytes == \A before : Inputs(before) \subseteq Seq(Byte)

-----------------------------------------------------------------------------
(* The cursors: the inductive invariant.                                   *)

(* A Decoder on a slice of the buffer, of a message or of packed elements. *)
IsCursor(c, buf) ==
  /\ c = Activation(c.ptr, c.end, c.type, c.obj, c.role, c.field)
  /\ Slice(buf, c.ptr, c.end)
  /\ c.role \in Roles
  /\ IF c.role = "packed" THEN c.type \in NumericTypes ELSE c.type \in DOMAIN Schema

IsSequence(s) == s \in Seq({s[i] : i \in DOMAIN s})

(* The cursors on the call stack, each on a slice that ends where the      *)
(* cursor around it stands.                                                *)
Nested(s, buf) ==
  /\ IsSequence(s)
  /\ \A i \in DOMAIN s : IsCursor(s[i], buf)
  /\ \A i \in DOMAIN s : i > 1 => s[i].end = s[i - 1].ptr

IInv ==
  /\ input \in Seq(Byte)
  /\ Nested(stack, input)
  /\ err \in Errors
  /\ fed \in Seq(Seq(Byte))

-----------------------------------------------------------------------------
LEMMA SeqOfItsOwn ==
  ASSUME NEW T, NEW s \in Seq(T)
  PROVE  IsSequence(s)
<1> DEFINE S == {s[i] : i \in DOMAIN s}
<1>1. DOMAIN s = 1 .. Len(s) /\ Len(s) \in Nat /\ s = [i \in 1 .. Len(s) |-> s[i]]
  OBVIOUS
<1>2. \A i \in 1 .. Len(s) : s[i] \in S
  BY <1>1
<1> HIDE DEF S
<1>3. s \in [1 .. Len(s) -> S]
  BY <1>1, <1>2
<1>4. s \in Seq(S)
  BY <1>1, <1>3
<1> QED BY <1>4 DEF S, IsSequence

LEMMA NestedTop ==
  ASSUME NEW s, NEW buf, Nested(s, buf), s # <<>>
  PROVE  /\ Len(s) \in Nat \ {0} /\ DOMAIN s = 1 .. Len(s) /\ Len(s) \in DOMAIN s
         /\ Last(s) = s[Len(s)]
         /\ IsCursor(Last(s), buf)
<1> DEFINE S == {s[i] : i \in DOMAIN s}
<1>1. s \in Seq(S)
  BY DEF Nested, IsSequence
<1> HIDE DEF S
<1>2. Len(s) \in Nat \ {0} /\ DOMAIN s = 1 .. Len(s) /\ Len(s) \in DOMAIN s
  BY <1>1
<1> QED BY <1>2 DEF Nested, Last

LEMMA Members ==
  ASSUME NEW p, NEW end, NEW type, NEW obj, NEW role, NEW field, NEW c, c = Activation(p, end, type, obj, role, field)
  PROVE  /\ c.ptr = p /\ c.end = end /\ c.type = type /\ c.obj = obj /\ c.role = role /\ c.field = field
         /\ c = Activation(c.ptr, c.end, c.type, c.obj, c.role, c.field)
BY DEF Activation

(* A cursor moves on, and may do so with another object.                   *)
Moved(c, q, obj) == [[c EXCEPT !.ptr = q] EXCEPT !.obj = obj]

LEMMA MovedIs ==
  ASSUME NEW p, NEW end, NEW type, NEW o, NEW role, NEW field, NEW q, NEW obj
  PROVE  Moved(Activation(p, end, type, o, role, field), q, obj) = Activation(q, end, type, obj, role, field)
<1>1. [Activation(p, end, type, o, role, field) EXCEPT !.ptr = q] = Activation(q, end, type, o, role, field)
  BY DEF Activation
<1>2. [Activation(q, end, type, o, role, field) EXCEPT !.obj = obj] = Activation(q, end, type, obj, role, field)
  BY DEF Activation
<1> QED BY <1>1, <1>2 DEF Moved

LEMMA CursorMoves ==
  ASSUME NEW c, NEW buf, IsCursor(c, buf), NEW q \in c.ptr .. c.end, NEW obj
  PROVE  IsCursor(Moved(c, q, obj), buf) /\ Moved(c, q, obj).ptr = q /\ Moved(c, q, obj).end = c.end
<1> DEFINE d == Moved(c, q, obj)
<1>1. PICK p, end, type, o, role, field : c = Activation(p, end, type, o, role, field)
  BY DEF IsCursor
<1>2. c.ptr = p /\ c.end = end /\ c.type = type /\ c.role = role /\ c.field = field
  BY <1>1, Members
<1>3. d = Activation(q, end, type, obj, role, field)
  BY <1>1, MovedIs
<1> HIDE DEF d
<1>4. /\ d.ptr = q /\ d.end = end /\ d.type = type /\ d.obj = obj /\ d.role = role /\ d.field = field
      /\ d = Activation(d.ptr, d.end, d.type, d.obj, d.role, d.field)
  BY <1>3, Members
<1>5. Slice(buf, q, end)
  BY <1>2 DEF IsCursor, Slice
<1>6. IsCursor(d, buf)
  BY <1>2, <1>4, <1>5 DEF IsCursor
<1> QED BY <1>2, <1>4, <1>6 DEF d

(* One cursor of the stack is replaced by another on the same slice.       *)
Replaced(s, k, d) == [s EXCEPT ![k] = d]

LEMMA ReplaceKeepsNested ==
  ASSUME NEW s, NEW buf, Nested(s, buf), NEW k \in DOMAIN s, NEW d, IsCursor(d, buf),
         d.end = s[k].end, k = Len(s) \/ d.ptr = s[k].ptr
  PROVE  LET t == Replaced(s, k, d)
         IN  /\ Nested(t, buf) /\ t # <<>> /\ Len(t) = Len(s) /\ t[k] = d
             /\ \A i \in DOMAIN s : i # k => t[i] = s[i]
<1> DEFINE n == Len(s)
           t == Replaced(s, k, d)
           S == {s[i] : i \in DOMAIN s}
<1>1. s \in Seq(S)
  BY DEF Nested, IsSequence
<1> HIDE DEF S
<1>2. n \in Nat \ {0} /\ DOMAIN s = 1 .. n
  BY <1>1
<1>3. t \in Seq(S \cup {d}) /\ DOMAIN t = 1 .. n /\ Len(t) = n /\ t[k] = d /\ \A i \in 1 .. n : i # k => t[i] = s[i]
  BY <1>1, <1>2 DEF Replaced
<1> HIDE DEF t
<1>4. IsSequence(t)
  BY <1>3, SeqOfItsOwn
<1>5. \A i \in 1 .. n : IsCursor(t[i], buf)
  BY <1>2, <1>3 DEF Nested
<1>6. ASSUME NEW i \in 1 .. n, i > 1
      PROVE  t[i].end = t[i - 1].ptr
  <2>1. s[i].end = s[i - 1].ptr
    BY <1>2, <1>6 DEF Nested
  <2>2. t[i].end = s[i].end
    BY <1>3
  <2>3. i - 1 \in 1 .. n /\ i - 1 # n
    BY <1>2, <1>6
  <2>4. t[i - 1].ptr = s[i - 1].ptr
    BY <1>3, <2>3
  <2> QED BY <2>1, <2>2, <2>4
<1>7. t # <<>>
  BY <1>2, <1>3
<1> QED BY <1>2, <1>3, <1>4, <1>5, <1>6, <1>7 DEF Nested, t

TopMoved(s, q, obj) == [s EXCEPT ![Len(s)] = Moved(@, q, obj)]

LEMMA MoveKeepsNested ==
  ASSUME NEW s, NEW buf, Nested(s, buf), s # <<>>, NEW q \in Last(s).ptr .. Last(s).end, NEW obj
  PROVE  /\ Nested(TopMoved(s, q, obj), buf)
         /\ TopMoved(s, q, obj) # <<>> /\ Len(TopMoved(s, q, obj)) = Len(s)
         /\ Last(TopMoved(s, q, obj)).ptr = q
<1> DEFINE t == TopMoved(s, q, obj)
           d == Moved(Last(s), q, obj)
<1>1. Len(s) \in DOMAIN s /\ Last(s) = s[Len(s)] /\ IsCursor(Last(s), buf)
  BY NestedTop
<1>2. IsCursor(d, buf) /\ d.ptr = q /\ d.end = Last(s).end
  BY <1>1, CursorMoves
<1>3. t = Replaced(s, Len(s), d)
  BY <1>1 DEF TopMoved, Replaced
<1> HIDE DEF d, t
<1>4. Nested(t, buf) /\ t # <<>> /\ Len(t) = Len(s) /\ t[Len(s)] = d
  BY <1>1, <1>2, <1>3, ReplaceKeepsNested
<1> QED BY <1>2, <1>4 DEF Last, t

(* A cursor is put on the slice before the innermost one.                  *)
LEMMA PushKeepsNested ==
  ASSUME NEW s, NEW buf, Nested(s, buf), s # <<>>, NEW c, IsCursor(c, buf), c.end = Last(s).ptr
  PROVE  Nested(Append(s, c), buf)
<1> DEFINE n == Len(s)
           S == {s[i] : i \in DOMAIN s}
           t == Append(s, c)
<1>1. s \in Seq(S)
  BY DEF Nested, IsSequence
<1> HIDE DEF S
<1>2. n \in Nat \ {0} /\ DOMAIN s = 1 .. n
  BY <1>1
<1>3. t \in Seq(S \cup {c}) /\ DOMAIN t = 1 .. n + 1 /\ t[n + 1] = c /\ \A i \in 1 .. n : t[i] = s[i]
  BY <1>1, <1>2
<1> HIDE DEF t
<1>4. IsSequence(t)
  BY <1>3, SeqOfItsOwn
<1>5. \A i \in 1 .. n + 1 : i \in 1 .. n \/ i = n + 1
  BY <1>2
<1>6. \A i \in 1 .. n + 1 : IsCursor(t[i], buf)
  BY <1>2, <1>3, <1>5 DEF Nested
<1>7. ASSUME NEW i \in 1 .. n + 1, i > 1
      PROVE  t[i].end = t[i - 1].ptr
  <2>1. i - 1 \in 1 .. n /\ t[i - 1] = s[i - 1]
    BY <1>2, <1>3, <1>7
  <2>2. CASE i = n + 1
    <3>1. i - 1 = n /\ Last(s) = s[n]
      BY <1>2, <2>2 DEF Last
    <3> QED BY <1>3, <2>1, <2>2, <3>1
  <2>3. CASE i \in 1 .. n
    <3>1. s[i].end = s[i - 1].ptr
      BY <1>2, <1>7, <2>3 DEF Nested
    <3> QED BY <1>3, <2>1, <2>3, <3>1
  <2> QED BY <1>5, <2>2, <2>3
<1> QED BY <1>3, <1>4, <1>6, <1>7 DEF Nested, t

(* A decode() or a loop over packed elements ends.                         *)
LEMMA PopKeepsNested ==
  ASSUME NEW s, NEW buf, Nested(s, buf), s # <<>>
  PROVE  /\ Nested(Front(s), buf)
         /\ DOMAIN Front(s) = 1 .. Len(s) - 1
         /\ \A i \in 1 .. Len(s) - 1 : Front(s)[i] = s[i]
<1> DEFINE n == Len(s)
           S == {s[i] : i \in DOMAIN s}
           t == Front(s)
<1>1. s \in Seq(S)
  BY DEF Nested, IsSequence
<1> HIDE DEF S
<1>2. n \in Nat \ {0} /\ DOMAIN s = 1 .. n
  BY <1>1
<1>3. t \in Seq(S) /\ DOMAIN t = 1 .. n - 1 /\ \A i \in 1 .. n - 1 : t[i] = s[i]
  BY <1>1, <1>2 DEF Front
<1> HIDE DEF t
<1>4. IsSequence(t)
  BY <1>3, SeqOfItsOwn
<1>5. \A i \in 1 .. n - 1 : i \in 1 .. n /\ (i > 1 => i - 1 \in 1 .. n - 1)
  BY <1>2
<1>6. \A i \in 1 .. n - 1 : IsCursor(t[i], buf)
  BY <1>2, <1>3, <1>5 DEF Nested
<1>7. \A i \in 1 .. n - 1 : i > 1 => t[i].end = t[i - 1].ptr
  BY <1>2, <1>3, <1>5 DEF Nested
<1> QED BY <1>2, <1>3, <1>4, <1>6, <1>7 DEF Nested, t

-----------------------------------------------------------------------------
(* The updates that the actions make, as moves of cursors.                 *)

(* The innermost cursor moves on, and keeps its object or gets another.    *)
Completed(s, q, x) == [s EXCEPT ![Len(s)].ptr = q, ![Len(s)].obj = x]

LEMMA TopMovedIs ==
  ASSUME NEW s, NEW buf, Nested(s, buf), s # <<>>, NEW q, NEW x
  PROVE  /\ [s EXCEPT ![Len(s)].ptr = q] = TopMoved(s, q, Last(s).obj)
         /\ Completed(s, q, x) = TopMoved(s, q, x)
<1> DEFINE n == Len(s)
           c == Last(s)
           u == [s EXCEPT ![n].ptr = q]
<1>1. n \in DOMAIN s /\ c = s[n] /\ IsCursor(c, buf)
  BY NestedTop
<1>2. PICK p, end, type, o, role, field : c = Activation(p, end, type, o, role, field)
  BY <1>1 DEF IsCursor
<1> DEFINE d == Activation(q, end, type, o, role, field)
<1>3. c.obj = o /\ [c EXCEPT !.ptr = q] = d
  BY <1>2 DEF Activation
<1>4. \A y : Moved(c, q, y) = Activation(q, end, type, y, role, field)
  BY <1>2, MovedIs
<1>5. u = [s EXCEPT ![n] = d]
  BY <1>1, <1>3
<1>6. \A y : TopMoved(s, q, y) = [s EXCEPT ![n] = Moved(c, q, y)]
  BY <1>1 DEF TopMoved
<1>7. u[n] = d /\ n \in DOMAIN u
  BY <1>1, <1>5
<1>8. Completed(s, q, x) = [u EXCEPT ![n].obj = x]
  BY DEF Completed
<1>9. [d EXCEPT !.obj = x] = Activation(q, end, type, x, role, field)
  BY DEF Activation
<1>10. u = TopMoved(s, q, o)
  BY <1>3, <1>4, <1>5, <1>6
<1> HIDE DEF u, d
<1>11. [u EXCEPT ![n].obj = x] = [u EXCEPT ![n] = [d EXCEPT !.obj = x]]
  BY <1>7
<1>12. [u EXCEPT ![n] = [d EXCEPT !.obj = x]] = [s EXCEPT ![n] = [d EXCEPT !.obj = x]]
  BY <1>1, <1>5
<1>13. [u EXCEPT ![n].obj = x] = TopMoved(s, q, x)
  BY <1>4, <1>6, <1>9, <1>11, <1>12
<1> QED BY <1>3, <1>8, <1>10, <1>13 DEF u

(* A parent gets another object.                                           *)
LEMMA ObjectKeepsNested ==
  ASSUME NEW s, NEW buf, Nested(s, buf), NEW k \in DOMAIN s, NEW x
  PROVE  Nested([s EXCEPT ![k].obj = x], buf)
<1> DEFINE c == s[k]
           d == Moved(c, c.ptr, x)
<1>1. IsCursor(c, buf)
  BY DEF Nested
<1>2. PICK p, end, type, o, role, field : c = Activation(p, end, type, o, role, field)
  BY <1>1 DEF IsCursor
<1>3. c.ptr = p /\ [c EXCEPT !.obj = x] = Activation(p, end, type, x, role, field)
  BY <1>2 DEF Activation
<1>4. [c EXCEPT !.obj = x] = d
  BY <1>2, <1>3, MovedIs
<1>5. [s EXCEPT ![k].obj = x] = Replaced(s, k, d)
  BY <1>4 DEF Replaced
<1>6. c.ptr \in c.ptr .. c.end
  BY <1>1 DEF IsCursor, Slice
<1>7. IsCursor(d, buf) /\ d.ptr = c.ptr /\ d.end = c.end
  <2> HIDE DEF c
  <2> QED BY <1>1, <1>6, CursorMoves
<1> HIDE DEF d
<1>8. Nested(Replaced(s, k, d), buf)
  BY <1>7, ReplaceKeepsNested
<1> QED BY <1>5, <1>8

-----------------------------------------------------------------------------
(* The actions.                                                            *)

LEMMA TopFacts ==
  ASSUME IInv, stack # <<>>
  PROVE  /\ Len(stack) \in Nat \ {0} /\ Len(stack) \in DOMAIN stack /\ DOMAIN stack = 1 .. Len(stack)
         /\ Top = stack[Len(stack)]
         /\ IsCursor(Top, input)
         /\ Slice(input, Top.ptr, Top.end)
<1>1. Nested(stack, input)
  BY DEF IInv
<1>2. /\ Len(stack) \in Nat \ {0} /\ Len(stack) \in DOMAIN stack /\ DOMAIN stack = 1 .. Len(stack)
      /\ Last(stack) = stack[Len(stack)] /\ IsCursor(Last(stack), input)
  BY <1>1, NestedTop
<1> QED BY <1>2 DEF Top, IsCursor

LEMMA TagFacts ==
  ASSUME IInv, AtField
  PROVE  /\ stack # <<>>
         /\ Top.type \in DOMAIN Schema
         /\ TagRead.ptr \in Top.ptr .. Top.end
         /\ TagRead.err \in ReadErrors
         /\ Slice(input, TagRead.ptr, Top.end)
<1>1. stack # <<>> /\ Top.role # "packed"
  BY DEF AtField, Running
<1>2. Slice(input, Top.ptr, Top.end) /\ IsCursor(Top, input)
  BY <1>1, TopFacts
<1>3. Returns(TagRead, Top.ptr, Top.end)
  BY <1>2, ReadVarintReturns DEF TagRead
<1>4. TagRead.ptr \in Top.ptr .. Top.end /\ TagRead.err \in ReadErrors
  BY <1>3 DEF Returns
<1> QED BY <1>1, <1>2, <1>4 DEF Slice, IsCursor

(* A reader that starts after the tag leaves the pointer in the slice.     *)
LEMMA AfterTag ==
  ASSUME IInv, AtField, NEW r, Returns(r, TagRead.ptr, Top.end)
  PROVE  r.err \in Errors /\ r.ptr \in Top.ptr .. Top.end
<1>1. r.err \in ReadErrors /\ r.ptr \in TagRead.ptr .. Top.end
  BY DEF Returns
<1>2. Top.ptr \in Nat /\ Top.end \in Nat /\ TagRead.ptr \in Top.ptr .. Top.end
  BY TagFacts, TopFacts DEF Slice
<1> QED BY <1>1, <1>2 DEF ReadErrors, Errors

LEMMA CompleteKeepsIInv ==
  ASSUME IInv, stack # <<>>, NEW r, r.err \in Errors, r.ptr \in Top.ptr .. Top.end, NEW obj, Complete(r, obj)
  PROVE  IInv'
<1> DEFINE x == IF r.err = "none" THEN obj ELSE stack[Len(stack)].obj
           t == TopMoved(stack, r.ptr, x)
<1>1. Nested(stack, input)
  BY DEF IInv
<1>2. stack' = t
  <2>1. stack' = Completed(stack, r.ptr, x)
    BY DEF Complete, Completed
  <2> HIDE DEF x
  <2> QED BY <1>1, <2>1, TopMovedIs
<1>3. Nested(t, input)
  BY <1>1, MoveKeepsNested DEF Top
<1>4. err' \in Errors /\ input' = input /\ fed' = fed
  BY DEF Complete
<1> HIDE DEF t
<1> QED BY <1>2, <1>3, <1>4 DEF IInv

LEMMA OpenSliceKeepsIInv ==
  ASSUME IInv, AtField, NEW type, NEW obj, NEW role \in Roles,
         IF role = "packed" THEN type \in NumericTypes ELSE type \in DOMAIN Schema,
         OpenSlice(type, obj, role)
  PROVE  IInv'
<1> DEFINE r == ParseByteArray(WireType, input, TagRead.ptr, Top.end)
           t == TopMoved(stack, r.ptr, Top.obj)
           sub == Activation(r.ptr - r.val, r.ptr, type, obj, role, FieldNum)
<1>1. Nested(stack, input) /\ stack # <<>>
  BY TagFacts DEF IInv
<1>2. /\ Returns(r, TagRead.ptr, Top.end) /\ r.val \in Nat
      /\ r.err = "none" => TagRead.ptr <= r.ptr - r.val /\ r.ptr - r.val <= r.ptr
  BY TagFacts, ParseByteArrayReturns
<1>3. r.err \in Errors /\ r.ptr \in Top.ptr .. Top.end
  BY <1>2, AfterTag
<1>4. stack' = IF r.err = "none" THEN Append(t, sub) ELSE t
  BY <1>1, TopMovedIs DEF OpenSlice, Top
<1>5. err' = r.err /\ input' = input /\ fed' = fed
  BY DEF OpenSlice
<1> HIDE DEF r
<1>6. Nested(t, input) /\ t # <<>> /\ Last(t).ptr = r.ptr
  BY <1>1, <1>3, MoveKeepsNested DEF Top
<1>7. r.err = "none" => IsCursor(sub, input)
  <2>1. sub.ptr = r.ptr - r.val /\ sub.end = r.ptr /\ sub.type = type /\ sub.role = role
    BY Members
  <2>2. sub = Activation(sub.ptr, sub.end, sub.type, sub.obj, sub.role, sub.field)
    BY Members
  <2>3. r.err = "none" => Slice(input, sub.ptr, sub.end)
    <3>1. Slice(input, TagRead.ptr, Top.end) /\ Slice(input, Top.ptr, Top.end)
      BY TagFacts, TopFacts
    <3> HIDE DEF sub
    <3> QED BY <1>2, <1>3, <2>1, <3>1 DEF Slice
  <2> HIDE DEF sub
  <2> QED BY <2>1, <2>2, <2>3 DEF IsCursor
<1>8. sub.end = r.ptr
  BY Members
<1> HIDE DEF t, sub
<1>9. r.err = "none" => Nested(Append(t, sub), input)
  BY <1>6, <1>7, <1>8, PushKeepsNested
<1>10. Nested(stack', input)
  BY <1>4, <1>6, <1>9
<1> QED BY <1>3, <1>5, <1>10 DEF IInv

LEMMA PackedElementKeepsIInv ==
  ASSUME IInv, PackedElement
  PROVE  IInv'
<1> DEFINE r == ReadElement(Top.type, input, Top.ptr, Top.end)
           n == Len(stack)
           t == TopMoved(stack, r.ptr, Top.obj)
           x == IF r.err = "none" THEN PushBack(stack[n - 1].obj, Top.field, r.val) ELSE stack[n - 1].obj
<1>1. Nested(stack, input) /\ stack # <<>> /\ Top.role = "packed"
  BY DEF IInv, PackedElement, Running
<1>2. IsCursor(Top, input) /\ Slice(input, Top.ptr, Top.end) /\ Top.type \in NumericTypes
  BY <1>1, TopFacts DEF IsCursor
<1>3. r.err \in Errors /\ r.ptr \in Top.ptr .. Top.end
  <2>1. Returns(r, Top.ptr, Top.end)
    BY <1>2, ReadElementReturns
  <2> QED BY <2>1 DEF Returns, ReadErrors, Errors
<1>4. err' = r.err /\ input' = input /\ fed' = fed
  BY DEF PackedElement
<1>5. stack' = [t EXCEPT ![n - 1].obj = x]
  <2>1. [stack EXCEPT ![n].ptr = r.ptr] = t
    BY <1>1, TopMovedIs DEF Top
  <2>2. stack' = [stack EXCEPT ![n].ptr = r.ptr, ![n - 1].obj = x]
    BY DEF PackedElement
  <2> HIDE DEF r, t, x
  <2>3. stack' = [[stack EXCEPT ![n].ptr = r.ptr] EXCEPT ![n - 1].obj = x]
    BY <2>2
  <2> QED BY <2>1, <2>3
<1> HIDE DEF r
<1>6. Nested(t, input)
  BY <1>1, <1>3, MoveKeepsNested DEF Top
<1> HIDE DEF t, x
<1>7. Nested(stack', input)
  <2>1. CASE n - 1 \in DOMAIN t
    BY <1>5, <1>6, <2>1, ObjectKeepsNested
  <2>2. CASE n - 1 \notin DOMAIN t
    <3>1. [t EXCEPT ![n - 1].obj = x] = t
      <4>1. t \in Seq({t[i] : i \in DOMAIN t})
        BY <1>6 DEF Nested, IsSequence
      <4> QED BY <2>2, <4>1
    <3> QED BY <1>5, <1>6, <3>1
  <2> QED BY <2>1, <2>2
<1> QED BY <1>3, <1>4, <1>7 DEF IInv

(* The innermost call ends, whether or not its caller takes its object.    *)
LEMMA PopToParent ==
  ASSUME IInv, stack # <<>>, Len(stack) # 1, NEW x
  PROVE  /\ Nested(Front(stack), input)
         /\ Nested([Front(stack) EXCEPT ![Len(stack) - 1].obj = x], input)
         /\ Front(stack)[Len(stack) - 1] = Parent
<1>1. Nested(stack, input) /\ Len(stack) \in Nat \ {0}
  BY TopFacts DEF IInv
<1>2. /\ Nested(Front(stack), input) /\ DOMAIN Front(stack) = 1 .. Len(stack) - 1
      /\ \A i \in 1 .. Len(stack) - 1 : Front(stack)[i] = stack[i]
  BY <1>1, PopKeepsNested
<1>3. Len(stack) - 1 \in 1 .. Len(stack) - 1
  BY <1>1
<1> QED BY <1>2, <1>3, ObjectKeepsNested DEF Parent

LEMMA EmptyNested == \A buf : Nested(<<>>, buf)
BY DEF Nested, IsSequence

(* The step of each reader of a field: where it leaves the cursor.         *)
LEMMA GetFieldKeepsIInv ==
  ASSUME IInv, AtField, TagOk, Known, GetField
  PROVE  IInv'
<1> DEFINE p == TagRead.ptr
           end == Top.end
           bytes == ParseByteArray(WireType, input, p, end)
           scalar == ParseScalar(Field.type, WireType, input, p, end)
<1>1. stack # <<>> /\ Slice(input, p, end)
  BY TagFacts
<1>2. /\ Field.kind \in {"scalar", "repeated"} => Field.type \in NumericTypes
      /\ Field.kind \in {"message", "repeated_message", "map"} => Field.type \in DOMAIN Schema
  BY TagFacts, SchemaAssumption DEF Known, Field
<1>3. bytes.err \in Errors /\ bytes.ptr \in Top.ptr .. Top.end
  BY <1>1, ParseByteArrayReturns, AfterTag
<1>4. Field.type \in NumericTypes => scalar.err \in Errors /\ scalar.ptr \in Top.ptr .. Top.end
  BY <1>1, ParseScalarReturns, AfterTag
<1>5. CASE GetScalar
  <2>1. Field.type \in NumericTypes /\ \E obj : Complete(scalar, obj)
    BY <1>2, <1>5 DEF GetScalar
  <2> HIDE DEF scalar
  <2> QED BY <1>1, <1>4, <2>1, CompleteKeepsIInv
<1>6. CASE GetByteArray
  <2>1. \E obj : Complete(bytes, obj)
    BY <1>6 DEF GetByteArray
  <2> HIDE DEF bytes
  <2> QED BY <1>1, <1>3, <2>1, CompleteKeepsIInv
<1>7. CASE GetRepeatedUnpacked
  <2>1. Field.type \in NumericTypes /\ \E obj : Complete(scalar, obj)
    BY <1>2, <1>7 DEF GetRepeatedUnpacked
  <2> HIDE DEF scalar
  <2> QED BY <1>1, <1>4, <2>1, CompleteKeepsIInv
<1>8. CASE GetRepeatedByteArray
  <2>1. \E obj : Complete(bytes, obj)
    BY <1>8 DEF GetRepeatedByteArray
  <2> HIDE DEF bytes
  <2> QED BY <1>1, <1>3, <2>1, CompleteKeepsIInv
<1>9. CASE GetPacked
  BY <1>2, <1>9, OpenSliceKeepsIInv DEF GetPacked, Roles
<1>10. CASE GetMessage
  BY <1>2, <1>10, OpenSliceKeepsIInv DEF GetMessage, Roles
<1>11. CASE GetRepeatedMessage
  BY <1>2, <1>11, OpenSliceKeepsIInv DEF GetRepeatedMessage, Roles
<1>12. CASE GetMapEntry
  BY <1>2, <1>12, OpenSliceKeepsIInv DEF GetMapEntry, Roles
<1> QED BY <1>5, <1>6, <1>7, <1>8, <1>9, <1>10, <1>11, <1>12 DEF GetField

LEMMA BadTagKeepsIInv ==
  ASSUME IInv, BadTag
  PROVE  IInv'
<1> DEFINE r == [TagRead EXCEPT !.err = IF @ = "none" THEN "invalid_fieldnum" ELSE @]
<1>1. stack # <<>> /\ TagRead.ptr \in Top.ptr .. Top.end /\ TagRead.err \in ReadErrors
  BY TagFacts DEF BadTag
<1>2. Returns(TagRead, Top.ptr, Top.end)
  BY <1>1, TopFacts, ReadVarintReturns DEF TagRead
<1>3. r.ptr = TagRead.ptr /\ r.err = IF TagRead.err = "none" THEN "invalid_fieldnum" ELSE TagRead.err
  BY <1>2 DEF Returns
<1>4. Complete(r, Top.obj)
  BY DEF BadTag
<1> HIDE DEF r
<1>5. r.err \in Errors
  BY <1>1, <1>3 DEF Errors, ReadErrors
<1> QED BY <1>1, <1>3, <1>4, <1>5, CompleteKeepsIInv

LEMMA SkipKeepsIInv ==
  ASSUME IInv, AtField, Skip
  PROVE  IInv'
<1> DEFINE r == SkipField(WireType, input, TagRead.ptr, Top.end)
<1>1. stack # <<>> /\ Returns(r, TagRead.ptr, Top.end)
  BY TagFacts, SkipFieldReturns
<1>2. r.err \in Errors /\ r.ptr \in Top.ptr .. Top.end
  BY <1>1, AfterTag
<1>3. Complete(r, Top.obj)
  BY DEF Skip
<1> HIDE DEF r
<1> QED BY <1>1, <1>2, <1>3, CompleteKeepsIInv

LEMMA CallKeepsIInv ==
  ASSUME BuffersAreBytes, IInv, Call
  PROVE  IInv'
<1>1. PICK buffer \in Inputs(fed) :
        /\ input' = buffer
        /\ fed' = Append(fed, buffer)
        /\ stack' = <<Activation(0, Len(buffer), Root, object, "root", 0)>>
  BY DEF Call
<1>2. buffer \in Seq(Byte) /\ err' \in Errors
  BY DEF BuffersAreBytes, Call, Errors
<1>3. fed' \in Seq(Seq(Byte))
  BY <1>1, <1>2 DEF IInv
<1> DEFINE c == Activation(0, Len(buffer), Root, object, "root", 0)
<1>4. /\ c.ptr = 0 /\ c.end = Len(buffer) /\ c.type = Root /\ c.role = "root"
      /\ c = Activation(c.ptr, c.end, c.type, c.obj, c.role, c.field)
  BY Members
<1> HIDE DEF c
<1>5. Slice(buffer, 0, Len(buffer))
  BY <1>2 DEF Slice
<1>6. IsCursor(c, buffer)
  BY <1>4, <1>5, RootAssumption DEF IsCursor, Roles
<1>7. <<c>> \in Seq({c}) /\ DOMAIN <<c>> = {1} /\ <<c>>[1] = c
  OBVIOUS
<1>8. Nested(<<c>>, buffer)
  <2>1. IsSequence(<<c>>)
    BY <1>7, SeqOfItsOwn
  <2> QED BY <1>6, <1>7, <2>1 DEF Nested
<1> QED BY <1>1, <1>2, <1>3, <1>8 DEF IInv, c

LEMMA EndKeepsIInv ==
  ASSUME IInv, Return \/ Unwind
  PROVE  IInv'
<1>1. stack # <<>> /\ input' = input /\ err' = err /\ fed' = fed
  BY DEF Return, Unwind, AtEnd, Running
<1>2. CASE Len(stack) = 1
  <2>1. stack' = <<>>
    BY <1>2 DEF Return, Unwind
  <2> QED BY <1>1, <2>1, EmptyNested DEF IInv
<1>3. CASE Len(stack) # 1
  <2>1. Nested(Front(stack), input) /\ \A x : Nested([Front(stack) EXCEPT ![Len(stack) - 1].obj = x], input)
    BY <1>1, <1>3, PopToParent
  <2>2. stack' = Front(stack) \/ \E x : stack' = [Front(stack) EXCEPT ![Len(stack) - 1].obj = x]
    <3>1. CASE Return
      BY <1>3, <3>1 DEF Return
    <3>2. CASE Unwind
      <4> DEFINE x == [Front(stack)[Len(stack) - 1].obj EXCEPT !.val[Top.field] = Top.obj]
      <4>1. \/ stack' = Front(stack)
            \/ stack' = [Front(stack) EXCEPT ![Len(stack) - 1].obj = x]
        BY <1>3, <3>2 DEF Unwind
      <4> HIDE DEF x
      <4> QED BY <4>1
    <3> QED BY <3>1, <3>2
  <2>3. Nested(stack', input)
    BY <2>1, <2>2
  <2> QED BY <1>1, <2>3 DEF IInv
<1> QED BY <1>2, <1>3

-----------------------------------------------------------------------------
(* decode() starts on the whole input, outside every field.                *)
THEOREM InitIInv == Init => IInv
<1> SUFFICES ASSUME Init PROVE IInv
  OBVIOUS
<1>1. input \in Seq(Byte) /\ fed \in Seq(Seq(Byte)) /\ err \in Errors
  BY DEF Init, Errors
<1>2. Nested(stack, input)
  BY EmptyNested DEF Init
<1> QED BY <1>1, <1>2 DEF IInv

(* Every get_*, skip and return keeps the cursors typed and nested.        *)
THEOREM StepIInv ==
  ASSUME BuffersAreBytes
  PROVE  IInv /\ [Next]_vars => IInv'
<1> SUFFICES ASSUME IInv, [Next]_vars PROVE IInv'
  OBVIOUS
<1>1. CASE Call
  BY <1>1, CallKeepsIInv
<1>2. CASE BadTag
  BY <1>2, BadTagKeepsIInv
<1>3. CASE AtField /\ TagOk /\ Known /\ GetField
  BY <1>3, GetFieldKeepsIInv
<1>4. CASE AtField /\ TagOk /\ ~Known /\ Skip
  BY <1>4, SkipKeepsIInv
<1>5. CASE PackedElement
  BY <1>5, PackedElementKeepsIInv
<1>6. CASE MissingRequired
  BY <1>6 DEF MissingRequired, IInv, Errors
<1>7. CASE Return \/ Unwind
  BY <1>7, EndKeepsIInv
<1>8. CASE UNCHANGED vars
  BY <1>8 DEF vars, IInv
<1> QED BY <1>1, <1>2, <1>3, <1>4, <1>5, <1>6, <1>7, <1>8 DEF Next, Work

(* The inductive invariant holds in every state the decoder reaches.       *)
THEOREM Invariance ==
  ASSUME BuffersAreBytes
  PROVE  Spec => []IInv
BY InitIInv, StepIInv, PTL DEF Spec

(* The variables keep their types.                                         *)
THEOREM TypeCorrect ==
  ASSUME BuffersAreBytes
  PROVE  Spec => []TypeOK
<1>1. IInv => TypeOK
  BY DEF IInv, Nested, IsCursor, Slice, TypeOK
<1> QED BY <1>1, Invariance, PTL

(* No cursor leaves its slice, and each slice ends where the cursor around *)
(* it stands, whatever the bytes and whatever the schema.                  *)
THEOREM SlicesStayNested ==
  ASSUME BuffersAreBytes
  PROVE  Spec => []SlicesNested
<1>1. IInv => SlicesNested
  BY DEF IInv, Nested, IsCursor, Slice, SlicesNested
<1> QED BY <1>1, Invariance, PTL

-----------------------------------------------------------------------------
(* What the readers make of a slice, as the reference splits it.           *)

(* The bytes of a slice.                                                   *)
Between(buf, p, end) == SubSeq(buf, p + 1, end)

LEMMA BetweenIs ==
  ASSUME NEW buf, NEW p, NEW end, Slice(buf, p, end)
  PROVE  /\ Between(buf, p, end) \in Seq(Byte)
         /\ Len(Between(buf, p, end)) = end - p
         /\ \A i \in 1 .. end - p : Between(buf, p, end)[i] = buf[p + i]
<1>1. buf \in Seq(Byte) /\ p \in Nat /\ end \in Nat /\ p <= end /\ end <= Len(buf)
  BY DEF Slice
<1> HIDE DEF Byte
<1> QED BY <1>1 DEF Between

(* A varint ends at byte n.                                                *)
VarintEnds(bytes, n) ==
  /\ n \in 1 .. Len(bytes) /\ n <= MAX_VARINT_SIZE
  /\ bytes[n] < Base
  /\ \A i \in 1 .. n - 1 : bytes[i] >= Base

LEMMA BytesAreNumbers ==
  ASSUME NEW bytes \in Seq(Byte), NEW i \in 1 .. Len(bytes)
  PROVE  bytes[i] \in Nat /\ bytes[i] \in Byte
<1>1. bytes[i] \in Byte
  OBVIOUS
<1> QED BY <1>1, Widths DEF Byte

LEMMA VarintLengthIs ==
  ASSUME NEW bytes \in Seq(Byte)
  PROVE  /\ VarintLength(bytes) \in 0 .. Len(bytes)
         /\ VarintLength(bytes) # 0 => VarintEnds(bytes, VarintLength(bytes))
         /\ VarintLength(bytes) = 0 =>
              \A i \in 1 .. Len(bytes) : i <= MAX_VARINT_SIZE => bytes[i] >= Base
<1> DEFINE T == {n \in 1 .. Len(bytes) : n <= MAX_VARINT_SIZE /\ bytes[n] < Base}
<1>1. Len(bytes) \in Nat /\ MAX_VARINT_SIZE \in Nat /\ Base \in Nat
  BY Widths
<1>2. T \subseteq Nat
  BY <1>1
<1>3. VarintLength(bytes) = IF T = {} THEN 0 ELSE Min(T)
  BY DEF VarintLength
<1>4. \A i \in 1 .. Len(bytes) : i \notin T /\ i <= MAX_VARINT_SIZE => bytes[i] >= Base
  BY <1>1, BytesAreNumbers
<1>5. CASE T = {}
  BY <1>1, <1>3, <1>4, <1>5
<1>6. CASE T # {}
  <2> DEFINE n == Min(T)
  <2>1. n \in T /\ \A k \in T : n <= k
    <3> HIDE DEF T
    <3> QED BY <1>2, <1>6, LeastOf
  <2> HIDE DEF n
  <2>2. n \in 1 .. Len(bytes) /\ n <= MAX_VARINT_SIZE /\ bytes[n] < Base
    BY <2>1
  <2>3. ASSUME NEW i \in 1 .. n - 1
        PROVE  bytes[i] >= Base
    <3>1. i \in 1 .. Len(bytes) /\ i <= MAX_VARINT_SIZE /\ ~(n <= i)
      BY <1>1, <2>2
    <3> QED BY <1>4, <2>1, <3>1
  <2>4. VarintLength(bytes) = n
    BY <1>3, <1>6 DEF n
  <2> QED BY <1>1, <2>2, <2>3, <2>4 DEF VarintEnds
<1> QED BY <1>5, <1>6

LEMMA VarintEndsThere ==
  ASSUME NEW bytes \in Seq(Byte), NEW n, VarintEnds(bytes, n)
  PROVE  VarintLength(bytes) = n
<1> DEFINE m == VarintLength(bytes)
<1>1. /\ m \in 0 .. Len(bytes) /\ (m # 0 => VarintEnds(bytes, m))
      /\ m = 0 => \A i \in 1 .. Len(bytes) : i <= MAX_VARINT_SIZE => bytes[i] >= Base
  BY VarintLengthIs
<1>2. n \in 1 .. Len(bytes) /\ n <= MAX_VARINT_SIZE /\ bytes[n] < Base /\ \A i \in 1 .. n - 1 : bytes[i] >= Base
  BY DEF VarintEnds
<1>3. Len(bytes) \in Nat /\ Base \in Nat /\ \A i \in 1 .. Len(bytes) : bytes[i] \in Nat
  BY Widths, BytesAreNumbers
<1> HIDE DEF m
<1>4. m # 0
  BY <1>1, <1>2, <1>3
<1>5. m \in 1 .. Len(bytes) /\ bytes[m] < Base /\ \A i \in 1 .. m - 1 : bytes[i] >= Base
  BY <1>1, <1>4 DEF VarintEnds
<1>6. ~(m < n) /\ ~(n < m)
  BY <1>2, <1>3, <1>5
<1> QED BY <1>2, <1>3, <1>5, <1>6 DEF m

(* The varint at the head of a string is that of any string with its bytes *)
LEMMA VarintStays ==
  ASSUME NEW bytes \in Seq(Byte), VarintLength(bytes) # 0, NEW c \in Seq(Byte),
         VarintLength(bytes) <= Len(c),
         \A i \in 1 .. VarintLength(bytes) : c[i] = bytes[i]
  PROVE  VarintLength(c) = VarintLength(bytes) /\ HeadVarint(c) = HeadVarint(bytes)
<1> DEFINE n == VarintLength(bytes)
<1>1. VarintEnds(bytes, n) /\ n \in Nat /\ n # 0
  BY VarintLengthIs
<1>2. n <= Len(c) /\ \A i \in 1 .. n : c[i] = bytes[i]
  OBVIOUS
<1> HIDE DEF n
<1>3. VarintEnds(c, n)
  <2>1. Len(c) \in Nat /\ n \in 1 .. n /\ \A i \in 1 .. n - 1 : i \in 1 .. n
    BY <1>1
  <2>2. n \in 1 .. Len(c)
    BY <1>1, <1>2, <2>1
  <2> QED BY <1>1, <1>2, <2>1, <2>2 DEF VarintEnds
<1>4. VarintLength(c) = n
  BY <1>3, VarintEndsThere
<1>5. [i \in 1 .. n |-> c[0 + i] % Base] = [i \in 1 .. n |-> bytes[0 + i] % Base]
  <2>1. \A i \in 1 .. n : 0 + i = i
    BY <1>1
  <2>2. \A i \in 1 .. n : c[0 + i] % Base = bytes[0 + i] % Base
    BY <1>2, <2>1
  <2> QED BY <2>2
<1> QED BY <1>4, <1>5 DEF HeadVarint, ValueOf, n

LEMMA HeadVarintType ==
  ASSUME NEW bytes \in Seq(Byte), VarintLength(bytes) # 0
  PROVE  HeadVarint(bytes) \in 0 .. U64 - 1 /\ HeadVarint(bytes) \in Nat
<1> DEFINE n == VarintLength(bytes)
<1>1. n \in 1 .. Len(bytes) /\ n <= MAX_VARINT_SIZE
  BY VarintLengthIs DEF VarintEnds
<1> HIDE DEF n
<1>2. Slice(bytes, 0, Len(bytes))
  BY DEF Slice
<1>3. n \in 0 .. Len(bytes) - 0
  BY <1>1
<1>4. ValueOf(bytes, 0, n) \in 0 .. U64 - 1
  BY <1>1, <1>2, <1>3, ValueOfType
<1> QED BY <1>4, Powers DEF HeadVarint, n

LEMMA WordShiftedOutLast == WORD_SHIFTED_OUT = MAX_VARINT_SIZE
<1> DEFINE w == WORD_SHIFTED_OUT
<1>1. w \in 0 .. MAX_VARINT_SIZE /\ Base ^ w >= U64
  BY WordShiftedOut
<1>2. MAX_VARINT_SIZE \in Nat \ {0} /\ U64 \in Nat
  BY Widths, Powers
<1> HIDE DEF w
<1>3. SUFFICES ASSUME w < MAX_VARINT_SIZE PROVE FALSE
  BY <1>1, <1>2 DEF w
<1>4. w = MAX_VARINT_SIZE - 1 \/ w < MAX_VARINT_SIZE - 1
  BY <1>1, <1>2, <1>3
<1>5. MAX_VARINT_SIZE - 1 \in 0 .. MAX_VARINT_SIZE
  BY <1>2
<1>6. Base ^ w \in Nat /\ Base ^ (MAX_VARINT_SIZE - 1) \in Nat
  BY <1>1, <1>5, Powers
<1>7. Base ^ w = Base ^ (MAX_VARINT_SIZE - 1) \/ Base ^ w < Base ^ (MAX_VARINT_SIZE - 1)
  BY <1>1, <1>4, <1>5, PowersGrow
<1> QED BY <1>1, <1>2, <1>6, <1>7, VarintAssumption

(* The bytes that continue, as the two loops of the code count them.       *)
LEMMA ContinuedUpTo ==
  ASSUME NEW buf, NEW p, NEW end, Slice(buf, p, end), NEW m \in 0 .. end - p
  PROVE  /\ \A n \in 1 .. m : VarintEnds(Between(buf, p, end), n) => Continued(buf, p, m) = n - 1
         /\ (\A i \in 1 .. m : Between(buf, p, end)[i] >= Base) => Continued(buf, p, m) = m
<1> DEFINE b == Between(buf, p, end)
           c == Continued(buf, p, m)
<1>1. p \in Nat /\ end \in Nat /\ m \in Nat /\ Base \in Nat
  BY Widths DEF Slice
<1>2. b \in Seq(Byte) /\ Len(b) = end - p /\ \A i \in 1 .. end - p : b[i] = buf[p + i] /\ b[i] \in Nat
  <2>1. b \in Seq(Byte) /\ Len(b) = end - p /\ \A i \in 1 .. end - p : b[i] = buf[p + i]
    BY BetweenIs
  <2> HIDE DEF b
  <2> QED BY <2>1, BytesAreNumbers
<1>3. /\ c \in 0 .. m /\ (c = m \/ buf[p + c + 1] < Base)
      /\ \A j \in 0 .. c - 1 : buf[p + j + 1] >= Base
  BY ContinuedIs
<1> HIDE DEF b, c
<1>4. c = m \/ (c + 1 \in 1 .. m /\ b[c + 1] < Base)
  <2>1. c # m => c + 1 \in 1 .. end - p /\ p + c + 1 = p + (c + 1)
    BY <1>1, <1>3
  <2> QED BY <1>1, <1>2, <1>3, <2>1
<1>5. \A i \in 1 .. c : b[i] >= Base
  <2>1. \A i \in 1 .. c : i \in 1 .. end - p /\ i - 1 \in 0 .. c - 1 /\ p + (i - 1) + 1 = p + i
    BY <1>1, <1>3
  <2> QED BY <1>2, <1>3, <2>1, SMTT(30)
<1>6. ASSUME NEW n \in 1 .. m, VarintEnds(b, n)
      PROVE  c = n - 1
  <2>1. n \in 1 .. end - p /\ b[n] < Base /\ \A i \in 1 .. n - 1 : b[i] >= Base
    BY <1>2, <1>6 DEF VarintEnds
  <2>2. ~(n <= c)
    BY <1>1, <1>2, <1>3, <1>5, <2>1
  <2>3. ~(c + 1 < n)
    BY <1>1, <1>2, <1>3, <1>4, <2>1
  <2> QED BY <1>1, <1>3, <2>2, <2>3
<1>7. (\A i \in 1 .. m : b[i] >= Base) => c = m
  BY <1>1, <1>2, <1>4
<1> QED BY <1>6, <1>7 DEF b, c

(* read_varint() reads the varint at the head, if there is one.            *)
LEMMA VarintRead ==
  ASSUME NEW buf, NEW p, NEW end, Slice(buf, p, end)
  PROVE  LET b == Between(buf, p, end)
         IN  /\ VarintLength(b) # 0 => ReadVarint(buf, p, end) = Read(HeadVarint(b), p + VarintLength(b))
             /\ VarintLength(b) = 0 => ReadVarint(buf, p, end).err # "none"
<1> DEFINE b == Between(buf, p, end)
           n == VarintLength(b)
           r == ReadVarint(buf, p, end)
           m == IF end - p < MAX_VARINT_SIZE THEN end - p ELSE MAX_VARINT_SIZE
           c == Continued(buf, p, m)
<1>1. p \in Nat /\ end \in Nat /\ p <= end /\ MAX_VARINT_SIZE \in Nat \ {0}
  BY Widths DEF Slice
<1>2. b \in Seq(Byte) /\ Len(b) = end - p /\ \A i \in 1 .. end - p : b[i] = buf[p + i]
  BY BetweenIs
<1>3. /\ n \in 0 .. end - p /\ (n # 0 => VarintEnds(b, n))
      /\ n = 0 => \A i \in 1 .. end - p : i <= MAX_VARINT_SIZE => b[i] >= Base
  BY <1>2, VarintLengthIs
<1>4. m \in 0 .. end - p /\ m <= MAX_VARINT_SIZE
  BY <1>1
<1>5. /\ \A k \in 1 .. m : VarintEnds(b, k) => c = k - 1
      /\ (\A i \in 1 .. m : b[i] >= Base) => c = m
  <2> HIDE DEF m
  <2> QED BY <1>4, ContinuedUpTo
<1>6. r = IF c = m THEN Throw(IF end - p < MAX_VARINT_SIZE THEN "unexpected_eof" ELSE "varint_too_long",
                              IF end - p < MAX_VARINT_SIZE THEN end ELSE p)
          ELSE Read(ValueOf(buf, p, c + 1), p + c + 1)
  <2>1. CASE end - p < MAX_VARINT_SIZE
    <3>1. m = end - p /\ ~(p + MAX_VARINT_SIZE < end)
      BY <1>1, <2>1
    <3>2. r = IF p + c = end THEN Throw("unexpected_eof", end) ELSE Read(ValueOf(buf, p, c + 1), p + c + 1)
      BY <2>1, <3>1, WordShiftedOutLast DEF ReadVarint, ReadVarintSlow
    <3>3. c \in 0 .. m
      BY <1>4, ContinuedIs
    <3>4. p + c = end <=> c = m
      <4> HIDE DEF c
      <4> QED BY <1>1, <3>1, <3>3
    <3> HIDE DEF c, m, r
    <3> QED BY <2>1, <3>2, <3>4
  <2>2. CASE ~(end - p < MAX_VARINT_SIZE)
    BY <2>2 DEF ReadVarint, ReadVarintFast
  <2> QED BY <2>1, <2>2
<1> HIDE DEF b, c, r, m
<1>7. CASE n # 0
  <2> HIDE DEF n
  <2>1. n \in 1 .. m
    <3>1. n <= MAX_VARINT_SIZE
      BY <1>3, <1>7 DEF VarintEnds
    <3> QED BY <1>1, <1>3, <1>7, <3>1 DEF m
  <2>2. c = n - 1
    BY <1>3, <1>5, <1>7, <2>1
  <2>3. c # m /\ c + 1 = n /\ p + c + 1 = p + n
    BY <1>1, <1>4, <2>1, <2>2
  <2>4. r = Read(ValueOf(buf, p, n), p + n)
    BY <1>6, <2>3
  <2>5. ValueOf(buf, p, n) = ValueOf(b, 0, n)
    <3>1. \A i \in 1 .. n : 0 + i = i /\ b[i] = buf[p + i]
      BY <1>1, <1>2, <1>3, <2>1
    <3>2. [i \in 1 .. n |-> buf[p + i] % Base] = [i \in 1 .. n |-> b[0 + i] % Base]
      BY <3>1
    <3> QED BY <3>2 DEF ValueOf
  <2> QED BY <1>7, <2>4, <2>5 DEF n, b, r, HeadVarint
<1>8. CASE n = 0
  <2>1. c = m
    <3>1. \A i \in 1 .. m : i \in 1 .. end - p /\ i <= MAX_VARINT_SIZE
      BY <1>1, <1>4
    <3> QED BY <1>3, <1>5, <1>8, <3>1
  <2>2. r.err # "none"
    BY <1>6, <2>1 DEF Throw
  <2> QED BY <1>8, <2>2 DEF n, b, r
<1> QED BY <1>7, <1>8

(* The length that each wire type takes.                                   *)
LEMMA ExtentIs ==
  ASSUME NEW bytes
  PROVE  /\ Extent(Varint, bytes) = VarintLength(bytes)
         /\ Extent(Fixed32, bytes) = SIZE32
         /\ Extent(Fixed64, bytes) = SIZE64
         /\ Extent(Delimited, bytes) =
              IF VarintLength(bytes) > 0 /\ HeadVarint(bytes) <= INT32_MAX
              THEN VarintLength(bytes) + HeadVarint(bytes) ELSE 0
         /\ \A w : w \notin {Varint, Fixed32, Fixed64, Delimited} => Extent(w, bytes) = 0
<1>1. /\ Extent(Varint, bytes) = VarintLength(bytes)
      /\ Extent(Fixed32, bytes) = SIZE32
      /\ Extent(Fixed64, bytes) = SIZE64
  BY DEF Extent, Varint, Fixed32, Fixed64, Delimited
<1>2. Extent(Delimited, bytes) =
              IF VarintLength(bytes) > 0 /\ HeadVarint(bytes) <= INT32_MAX
              THEN VarintLength(bytes) + HeadVarint(bytes) ELSE 0
  BY DEF Extent, Varint, Fixed32, Fixed64, Delimited
<1>3. \A w : w \notin {Varint, Fixed32, Fixed64, Delimited} => Extent(w, bytes) = 0
  BY DEF Extent
<1> QED BY <1>1, <1>2, <1>3

LEMMA ExtentType ==
  ASSUME NEW bytes \in Seq(Byte), NEW w
  PROVE  Extent(w, bytes) \in Nat
<1>1. VarintLength(bytes) \in Nat /\ (VarintLength(bytes) > 0 => HeadVarint(bytes) \in Nat)
  BY VarintLengthIs, HeadVarintType
<1>2. SIZE32 \in Nat /\ SIZE64 \in Nat
  BY Widths
<1> QED BY <1>1, <1>2, ExtentIs

(* What the value at the head is made of: the bytes that hold it.          *)
LEMMA ValueStays ==
  ASSUME NEW bytes \in Seq(Byte), NEW w, ValueLength(w, bytes) # 0,
         NEW c \in Seq(Byte), ValueLength(w, bytes) <= Len(c),
         \A i \in 1 .. ValueLength(w, bytes) : c[i] = bytes[i]
  PROVE  LET n == ValueLength(w, bytes)
         IN  /\ n \in 1 .. Len(bytes)
             /\ ValueLength(w, c) = n
             /\ w \in {Varint, Delimited} =>
                  /\ VarintLength(bytes) \in 1 .. n
                  /\ VarintLength(c) = VarintLength(bytes) /\ HeadVarint(c) = HeadVarint(bytes)
<1> DEFINE m == VarintLength(bytes)
           n == ValueLength(w, bytes)
<1>0. n # 0 /\ n <= Len(c) /\ \A i \in 1 .. n : c[i] = bytes[i]
  OBVIOUS
<1>1. n = Extent(w, bytes) /\ n <= Len(bytes) /\ n \in Nat
  BY <1>0, ExtentType DEF ValueLength
<1> HIDE DEF n
<1>2. m \in Nat /\ (m > 0 => HeadVarint(bytes) \in Nat)
  BY VarintLengthIs, HeadVarintType
<1>3. w \in {Varint, Delimited} => m \in 1 .. n
  <2>1. CASE w = Varint
    BY <1>0, <1>1, <1>2, <2>1, ExtentIs
  <2>2. CASE w = Delimited
    <3>1. m > 0 /\ n = m + HeadVarint(bytes)
      BY <1>0, <1>1, <1>2, <2>2, ExtentIs
    <3> QED BY <1>1, <1>2, <3>1
  <2> QED BY <2>1, <2>2
<1>4. w \in {Varint, Delimited} => VarintLength(c) = m /\ HeadVarint(c) = HeadVarint(bytes)
  <2>1. SUFFICES ASSUME w \in {Varint, Delimited}
                 PROVE  VarintLength(c) = m /\ HeadVarint(c) = HeadVarint(bytes)
    OBVIOUS
  <2>2. m # 0 /\ m <= Len(c) /\ \A i \in 1 .. m : c[i] = bytes[i]
    BY <1>0, <1>1, <1>3, <2>1
  <2> QED BY <2>2, VarintStays
<1>5. Extent(w, c) = n
  <2>1. CASE w \in {Varint, Delimited}
    BY <1>1, <1>4, <2>1, ExtentIs
  <2>2. CASE w \notin {Varint, Delimited}
    <3>1. w \in {Fixed32, Fixed64}
      BY <1>0, <1>1, <2>2, ExtentIs
    <3> QED BY <1>1, <3>1, ExtentIs
  <2> QED BY <2>1, <2>2
<1>6. n \in 1 .. Len(bytes) /\ ValueLength(w, c) = n
  BY <1>0, <1>1, <1>5 DEF ValueLength
<1> QED BY <1>3, <1>4, <1>6 DEF n

(* The number in the bytes of a value that is not length-delimited.        *)
RawNumber(w, bytes) ==
  IF w = Varint THEN HeadVarint(bytes)
  ELSE LET n == IF w = Fixed32 THEN SIZE32 ELSE SIZE64
       IN  Assemble([i \in 1 .. n |-> bytes[i]], ByteValues, n)

NumberWireTypes == {Varint, Fixed32, Fixed64}

LEMMA IntegerRead ==
  ASSUME NEW buf, NEW p, NEW end, Slice(buf, p, end), NEW w \in NumberWireTypes
  PROVE  LET b == Between(buf, p, end)
             n == ValueLength(w, b)
         IN  /\ n # 0 => ParseInteger(w, buf, p, end) = Read(RawNumber(w, b), p + n)
             /\ n = 0 => ParseInteger(w, buf, p, end).err # "none"
<1> DEFINE b == Between(buf, p, end)
           n == ValueLength(w, b)
<1>1. p \in Nat /\ end \in Nat /\ p <= end
  BY DEF Slice
<1>2. b \in Seq(Byte) /\ Len(b) = end - p /\ \A i \in 1 .. end - p : b[i] = buf[p + i]
  BY BetweenIs
<1>3. CASE w = Varint
  <2>1. ParseInteger(w, buf, p, end) = ReadVarint(buf, p, end)
    BY <1>3 DEF ParseInteger, Varint, Fixed64, Fixed32
  <2>2. n = VarintLength(b)
    <3> HIDE DEF b
    <3>1. VarintLength(b) <= Len(b)
      BY <1>2, VarintLengthIs
    <3> QED BY <1>3, <3>1, ExtentIs DEF ValueLength
  <2>3. RawNumber(w, b) = HeadVarint(b)
    BY <1>3 DEF RawNumber
  <2> QED BY <2>1, <2>2, <2>3, VarintRead
<1>4. CASE w \in {Fixed32, Fixed64}
  <2> DEFINE k == IF w = Fixed32 THEN SIZE32 ELSE SIZE64
  <2>1. k \in Nat \ {0} /\ Extent(w, b) = k
    BY <1>4, Widths, ExtentIs
  <2>2. ParseInteger(w, buf, p, end) = ReadFixed(buf, p, end, k)
    BY <1>4 DEF ParseInteger, Varint, Fixed64, Fixed32
  <2>3. RawNumber(w, b) = Assemble([i \in 1 .. k |-> b[i]], ByteValues, k)
    BY <1>4 DEF RawNumber, Varint, Fixed32, Fixed64
  <2>4. n = IF k <= end - p THEN k ELSE 0
    BY <1>2, <2>1 DEF ValueLength
  <2> HIDE DEF k, n, b
  <2>5. CASE k <= end - p
    <3>1. [i \in 1 .. k |-> b[i]] = [i \in 1 .. k |-> buf[p + i]]
      <4>1. \A i \in 1 .. k : b[i] = buf[p + i]
        BY <1>1, <1>2, <2>1, <2>5
      <4> QED BY <4>1
    <3>2. ReadFixed(buf, p, end, k) = Read(Assemble([i \in 1 .. k |-> buf[p + i]], ByteValues, k), p + k)
      <4>1. ~(end - p < k)
        BY <1>1, <2>1, <2>5
      <4> QED BY <4>1 DEF ReadFixed
    <3> QED BY <2>1, <2>2, <2>3, <2>4, <2>5, <3>1, <3>2 DEF n, b
  <2>6. CASE ~(k <= end - p)
    <3>1. ReadFixed(buf, p, end, k).err # "none"
      <4>1. end - p < k
        BY <1>1, <2>1, <2>6
      <4> QED BY <4>1 DEF ReadFixed, Throw
    <3> QED BY <2>2, <2>4, <2>6, <3>1 DEF n, b
  <2> QED BY <2>5, <2>6
<1> QED BY <1>3, <1>4 DEF NumberWireTypes

LEMMA RawNumberStays ==
  ASSUME NEW bytes \in Seq(Byte), NEW w \in NumberWireTypes, ValueLength(w, bytes) # 0,
         NEW c \in Seq(Byte), ValueLength(w, bytes) <= Len(c),
         \A i \in 1 .. ValueLength(w, bytes) : c[i] = bytes[i]
  PROVE  ValueLength(w, c) = ValueLength(w, bytes) /\ RawNumber(w, c) = RawNumber(w, bytes)
<1> DEFINE n == ValueLength(w, bytes)
<1>1. /\ ValueLength(w, c) = n /\ n \in 1 .. Len(bytes)
      /\ w = Varint => HeadVarint(c) = HeadVarint(bytes)
  BY ValueStays DEF NumberWireTypes
<1>0. n # 0 /\ \A i \in 1 .. n : c[i] = bytes[i]
  OBVIOUS
<1> HIDE DEF n
<1>2. CASE w = Varint
  BY <1>1, <1>2 DEF RawNumber, n
<1>3. CASE w # Varint
  <2> DEFINE k == IF w = Fixed32 THEN SIZE32 ELSE SIZE64
  <2>1. n = k
    <3>1. Extent(w, bytes) = k
      BY <1>3, ExtentIs DEF NumberWireTypes
    <3> QED BY <1>0, <3>1 DEF ValueLength, n
  <2> HIDE DEF k
  <2>2. [i \in 1 .. k |-> c[i]] = [i \in 1 .. k |-> bytes[i]]
    BY <1>0, <2>1
  <2> QED BY <1>1, <1>3, <2>2 DEF RawNumber, k, n
<1> QED BY <1>2, <1>3

(* Two readers of the same number convert it alike.                        *)
Alike(r, s, k, l) ==
  \/ \E u : r = Read(u, k) /\ s = Read(u, l)
  \/ r.err # "none" /\ s.err # "none"

LEMMA ConvertedAlike ==
  ASSUME NEW r, NEW s, NEW k, NEW l, Alike(r, s, k, l), NEW x, NEW y, r.val = s.val => x = y
  PROVE  Alike(IF r.err = "none" THEN [r EXCEPT !.val = x] ELSE r,
               IF s.err = "none" THEN [s EXCEPT !.val = y] ELSE s, k, l)
<1>1. CASE r.err # "none" /\ s.err # "none"
  BY <1>1 DEF Alike
<1>2. CASE ~(r.err # "none" /\ s.err # "none")
  <2>1. PICK u : r = Read(u, k) /\ s = Read(u, l)
    BY <1>2 DEF Alike
  <2>2. r.err = "none" /\ s.err = "none" /\ x = y
    BY <2>1 DEF Read
  <2>3. [r EXCEPT !.val = x] = Read(x, k) /\ [s EXCEPT !.val = y] = Read(y, l)
    BY <2>1 DEF Read
  <2> QED BY <2>2, <2>3 DEF Alike
<1> QED BY <1>1, <1>2

LEMMA MismatchAlike ==
  ASSUME NEW p, NEW q, NEW k, NEW l
  PROVE  Alike(Throw("wiretype_mismatch", p), Throw("wiretype_mismatch", q), k, l)
BY DEF Throw, Alike

LEMMA ZigZagsAlike ==
  ASSUME NEW w \in NumberWireTypes, NEW buf, NEW p, NEW end, NEW c, NEW q, NEW fin, NEW k, NEW l,
         Alike(ParseInteger(w, buf, p, end), ParseInteger(w, c, q, fin), k, l)
  PROVE  Alike(ParseZigZag(w, buf, p, end), ParseZigZag(w, c, q, fin), k, l)
<1> DEFINE r == ParseInteger(w, buf, p, end)
           s == ParseInteger(w, c, q, fin)
           x == IF w = Varint THEN UnZigZag(r.val) ELSE IF w = Fixed64 THEN ToI64(r.val) ELSE ToI32(r.val)
           y == IF w = Varint THEN UnZigZag(s.val) ELSE IF w = Fixed64 THEN ToI64(s.val) ELSE ToI32(s.val)
<1>1. /\ ParseZigZag(w, buf, p, end) = IF r.err = "none" THEN [r EXCEPT !.val = x] ELSE r
      /\ ParseZigZag(w, c, q, fin) = IF s.err = "none" THEN [s EXCEPT !.val = y] ELSE s
  <2>1. CASE w = Varint
    BY <2>1 DEF ParseZigZag, ParseInteger, Map, Varint, Fixed64, Fixed32
  <2>2. CASE w = Fixed64
    BY <2>2 DEF ParseZigZag, ParseInteger, Map, Varint, Fixed64, Fixed32
  <2>3. CASE w = Fixed32
    BY <2>3 DEF ParseZigZag, ParseInteger, Map, Varint, Fixed64, Fixed32
  <2> QED BY <2>1, <2>2, <2>3 DEF NumberWireTypes
<1>2. r.val = s.val => x = y
  <2> HIDE DEF r, s
  <2> QED OBVIOUS
<1> HIDE DEF r, s, x, y
<1>3. Alike(r, s, k, l)
  BY DEF r, s
<1> QED BY <1>1, <1>2, <1>3, ConvertedAlike

LEMMA FPsAlike ==
  ASSUME NEW w \in NumberWireTypes, NEW buf, NEW p, NEW end, NEW c, NEW q, NEW fin, NEW k, NEW l,
         Alike(ParseInteger(w, buf, p, end), ParseInteger(w, c, q, fin), k, l), NEW type
  PROVE  Alike(ParseFP(type, w, buf, p, end), ParseFP(type, w, c, q, fin), k, l)
<1> DEFINE r == ParseInteger(w, buf, p, end)
           s == ParseInteger(w, c, q, fin)
           Value(v) == IF w = Fixed64 THEN (IF type = "float" THEN Narrow(v) ELSE v)
                       ELSE (IF type = "float" THEN v ELSE Widen(v))
           x == Value(r.val)
           y == Value(s.val)
<1>1. CASE w = Varint
  <2>1. /\ ParseFP(type, w, buf, p, end) = Throw("wiretype_mismatch", p)
        /\ ParseFP(type, w, c, q, fin) = Throw("wiretype_mismatch", q)
    BY <1>1 DEF ParseFP, Varint, Fixed64, Fixed32
  <2> QED BY <2>1, MismatchAlike
<1>2. CASE w # Varint
  <2>1. /\ ParseFP(type, w, buf, p, end) = IF r.err = "none" THEN [r EXCEPT !.val = x] ELSE r
        /\ ParseFP(type, w, c, q, fin) = IF s.err = "none" THEN [s EXCEPT !.val = y] ELSE s
    <3>1. CASE w = Fixed64
      BY <3>1 DEF ParseFP, ParseInteger, Map, Varint, Fixed64, Fixed32
    <3>2. CASE w = Fixed32
      BY <3>2 DEF ParseFP, ParseInteger, Map, Varint, Fixed64, Fixed32
    <3> QED BY <1>2, <3>1, <3>2 DEF NumberWireTypes
  <2>2. r.val = s.val => x = y
    <3> HIDE DEF r, s
    <3> QED OBVIOUS
  <2> HIDE DEF r, s, x, y
  <2>3. Alike(r, s, k, l)
    BY DEF r, s
  <2> QED BY <2>1, <2>2, <2>3, ConvertedAlike
<1> QED BY <1>1, <1>2

LEMMA ScalarsAlike ==
  ASSUME NEW type \in NumericTypes,
         NEW w \in NumberWireTypes, NEW buf, NEW p, NEW end, NEW c, NEW q, NEW fin, NEW k, NEW l,
         Alike(ParseInteger(w, buf, p, end), ParseInteger(w, c, q, fin), k, l)
  PROVE  Alike(ParseScalar(type, w, buf, p, end), ParseScalar(type, w, c, q, fin), k, l)
<1> DEFINE r == CASE type \in IntegralTypes -> ParseInteger(w, buf, p, end)
                  [] type \in ZigZagTypes   -> ParseZigZag(w, buf, p, end)
                  [] type \in FPTypes       -> ParseFP(type, w, buf, p, end)
           s == CASE type \in IntegralTypes -> ParseInteger(w, c, q, fin)
                  [] type \in ZigZagTypes   -> ParseZigZag(w, c, q, fin)
                  [] type \in FPTypes       -> ParseFP(type, w, c, q, fin)
<1>1. /\ ParseScalar(type, w, buf, p, end) = IF r.err = "none" THEN [r EXCEPT !.val = Cast(type, r.val)] ELSE r
      /\ ParseScalar(type, w, c, q, fin) = IF s.err = "none" THEN [s EXCEPT !.val = Cast(type, s.val)] ELSE s
  BY DEF ParseScalar, Map
<1>2. Alike(r, s, k, l)
  <2>1. CASE type \in IntegralTypes
    <3>1. type \notin ZigZagTypes /\ type \notin FPTypes
      BY <2>1 DEF IntegralTypes, VarintTypes, Fixed32Types, Fixed64Types, ZigZagTypes, FPTypes
    <3> QED BY <2>1, <3>1
  <2>2. CASE type \in ZigZagTypes
    <3>1. type \notin IntegralTypes /\ type \notin FPTypes
      BY <2>2 DEF IntegralTypes, VarintTypes, Fixed32Types, Fixed64Types, ZigZagTypes, FPTypes
    <3> QED BY <2>2, <3>1, ZigZagsAlike
  <2>3. CASE type \in FPTypes
    <3>1. type \notin IntegralTypes /\ type \notin ZigZagTypes
      BY <2>3 DEF IntegralTypes, VarintTypes, Fixed32Types, Fixed64Types, ZigZagTypes, FPTypes
    <3> QED BY <2>3, <3>1, FPsAlike
  <2> QED BY <2>1, <2>2, <2>3 DEF NumericTypes
<1>3. r.val = s.val => Cast(type, r.val) = Cast(type, s.val)
  <2> HIDE DEF r, s
  <2> QED OBVIOUS
<1> HIDE DEF r, s
<1> QED BY <1>1, <1>2, <1>3, ConvertedAlike

(* A number that cannot be read is an exception for every reader.          *)
LEMMA ScalarFails ==
  ASSUME NEW type \in NumericTypes, NEW w, NEW buf, NEW p, NEW end,
         w \in NumberWireTypes => ParseInteger(w, buf, p, end).err # "none"
  PROVE  ParseScalar(type, w, buf, p, end).err # "none"
<1> DEFINE r == ParseInteger(w, buf, p, end)
           failed == Throw("wiretype_mismatch", p)
           t == CASE type \in IntegralTypes -> ParseInteger(w, buf, p, end)
                  [] type \in ZigZagTypes   -> ParseZigZag(w, buf, p, end)
                  [] type \in FPTypes       -> ParseFP(type, w, buf, p, end)
<1>1. ParseScalar(type, w, buf, p, end) = IF t.err = "none" THEN [t EXCEPT !.val = Cast(type, t.val)] ELSE t
  BY DEF ParseScalar, Map
<1>2. r \in {r, failed} /\ ParseZigZag(w, buf, p, end) \in {r, failed} /\ ParseFP(type, w, buf, p, end) \in {r, failed}
      /\ r.err # "none"
  <2>1. CASE w = Varint
    <3>1. r.err # "none"
      BY <2>1 DEF NumberWireTypes
    <3>2. ParseZigZag(w, buf, p, end) = r
      BY <2>1, <3>1 DEF ParseZigZag, ParseInteger, Map, Varint, Fixed64, Fixed32
    <3>3. ParseFP(type, w, buf, p, end) = failed
      BY <2>1 DEF ParseFP, Varint, Fixed64, Fixed32
    <3> QED BY <3>1, <3>2, <3>3
  <2>2. CASE w = Fixed64
    <3>1. r.err # "none"
      BY <2>2 DEF NumberWireTypes
    <3>2. ParseZigZag(w, buf, p, end) = r
      BY <2>2, <3>1 DEF ParseZigZag, ParseInteger, Map, Varint, Fixed64, Fixed32
    <3>3. ParseFP(type, w, buf, p, end) = r
      BY <2>2, <3>1 DEF ParseFP, ParseInteger, Map, Varint, Fixed64, Fixed32
    <3> QED BY <3>1, <3>2, <3>3
  <2>3. CASE w = Fixed32
    <3>1. r.err # "none"
      BY <2>3 DEF NumberWireTypes
    <3>2. ParseZigZag(w, buf, p, end) = r
      BY <2>3, <3>1 DEF ParseZigZag, ParseInteger, Map, Varint, Fixed64, Fixed32
    <3>3. ParseFP(type, w, buf, p, end) = r
      BY <2>3, <3>1 DEF ParseFP, ParseInteger, Map, Varint, Fixed64, Fixed32
    <3> QED BY <3>1, <3>2, <3>3
  <2>4. CASE w \notin NumberWireTypes
    <3>1. w # Varint /\ w # Fixed64 /\ w # Fixed32
      BY <2>4 DEF NumberWireTypes
    <3>2. r = failed
      BY <3>1 DEF ParseInteger
    <3>3. ParseZigZag(w, buf, p, end) = failed
      BY <3>1 DEF ParseZigZag
    <3>4. ParseFP(type, w, buf, p, end) = failed
      BY <3>1 DEF ParseFP
    <3>5. failed.err # "none"
      BY DEF Throw
    <3> HIDE DEF failed, r
    <3> QED BY <3>2, <3>3, <3>4, <3>5
  <2> QED BY <2>1, <2>2, <2>3, <2>4 DEF NumberWireTypes
<1>3. failed.err # "none"
  BY DEF Throw
<1>4. t \in {r, failed}
  <2>1. type \in IntegralTypes \/ type \in ZigZagTypes \/ type \in FPTypes
    BY DEF NumericTypes
  <2>2. t \in {r, ParseZigZag(w, buf, p, end), ParseFP(type, w, buf, p, end)}
    BY <2>1
  <2> HIDE DEF t, r, failed
  <2> QED BY <1>2, <2>2
<1> HIDE DEF t, r, failed
<1> QED BY <1>1, <1>2, <1>3, <1>4

LEMMA ElementIs ==
  ASSUME NEW type \in NumericTypes, NEW buf, NEW p, NEW end
  PROVE  LET w == WireTypeFor(type)
             x == ParseInteger(w, buf, p, end)
             v == Cast(type, IF type \in ZigZagTypes THEN UnZigZag(x.val) ELSE x.val)
         IN  /\ w \in NumberWireTypes
             /\ ReadElement(type, buf, p, end) = IF x.err = "none" THEN [x EXCEPT !.val = v] ELSE x
<1> DEFINE w == WireTypeFor(type)
           x == ParseInteger(w, buf, p, end)
           z == Map(ReadVarint(buf, p, end), UnZigZag)
           y == CASE type \in VarintTypes                  -> ReadVarint(buf, p, end)
                  [] type \in ZigZagTypes                  -> z
                  [] type \in Fixed32Types \cup {"float"}  -> ReadFixed(buf, p, end, SIZE32)
                  [] type \in Fixed64Types \cup {"double"} -> ReadFixed(buf, p, end, SIZE64)
<1>1. ReadElement(type, buf, p, end) = IF y.err = "none" THEN [y EXCEPT !.val = Cast(type, y.val)] ELSE y
  BY DEF ReadElement, Map
<1>2. CASE type \in VarintTypes
  <2>1. /\ type \notin ZigZagTypes /\ type \notin Fixed32Types \cup {"float"}
        /\ type \notin Fixed64Types \cup {"double"} /\ type \notin ByteArrayTypes \cup {"message"}
    BY <1>2 DEF VarintTypes, ZigZagTypes, Fixed32Types, Fixed64Types, ByteArrayTypes
  <2>2. w = Varint
    BY <1>2, <2>1 DEF WireTypeFor
  <2>3. y = ReadVarint(buf, p, end)
    BY <1>2, <2>1
  <2>4. x = ReadVarint(buf, p, end)
    BY <2>2 DEF ParseInteger, Varint, Fixed32, Fixed64
  <2> HIDE DEF w, x, y, z
  <2> QED BY <1>1, <2>1, <2>2, <2>3, <2>4 DEF NumberWireTypes, w, x
<1>3. CASE type \in ZigZagTypes
  <2>1. /\ type \notin VarintTypes /\ type \notin Fixed32Types \cup {"float"}
        /\ type \notin Fixed64Types \cup {"double"} /\ type \notin ByteArrayTypes \cup {"message"}
    BY <1>3 DEF VarintTypes, ZigZagTypes, Fixed32Types, Fixed64Types, ByteArrayTypes
  <2>2. w = Varint
    BY <1>3, <2>1 DEF WireTypeFor
  <2>3. y = z
    BY <1>3, <2>1
  <2>4. x = ReadVarint(buf, p, end)
    BY <2>2 DEF ParseInteger, Varint, Fixed32, Fixed64
  <2>5. z = IF x.err = "none" THEN [x EXCEPT !.val = UnZigZag(x.val)] ELSE x
    BY <2>4 DEF Map
  <2> HIDE DEF w, x, y, z
  <2>6. CASE x.err = "none"
    <3> DEFINE u == UnZigZag(x.val)
    <3>1. PICK e, v, k : x = [err |-> e, val |-> v, ptr |-> k]
      BY <2>4, <2>6 DEF ReadVarint, ReadVarintSlow, ReadVarintFast, Read, Throw
    <3> HIDE DEF u
    <3>2. z.err = "none" /\ z.val = u /\ \A a : [z EXCEPT !.val = a] = [x EXCEPT !.val = a]
      BY <2>5, <2>6, <3>1 DEF u
    <3>3. ReadElement(type, buf, p, end) = [x EXCEPT !.val = Cast(type, u)]
      BY <1>1, <2>3, <3>2
    <3> QED BY <1>3, <2>2, <2>6, <3>3 DEF NumberWireTypes, w, x, u
  <2>7. CASE x.err # "none"
    BY <1>1, <2>2, <2>3, <2>5, <2>7 DEF NumberWireTypes, w, x
  <2> QED BY <2>6, <2>7
<1>4. CASE type \in Fixed32Types \cup {"float"}
  <2>1. /\ type \notin ZigZagTypes /\ type \notin VarintTypes
        /\ type \notin Fixed64Types \cup {"double"} /\ type \notin ByteArrayTypes \cup {"message"}
    BY <1>4 DEF VarintTypes, ZigZagTypes, Fixed32Types, Fixed64Types, ByteArrayTypes
  <2>2. w = Fixed32
    BY <1>4, <2>1 DEF WireTypeFor
  <2>3. y = ReadFixed(buf, p, end, SIZE32)
    BY <1>4, <2>1
  <2>4. x = ReadFixed(buf, p, end, SIZE32)
    BY <2>2 DEF ParseInteger, Varint, Fixed32, Fixed64
  <2> HIDE DEF w, x, y, z
  <2> QED BY <1>1, <2>1, <2>2, <2>3, <2>4 DEF NumberWireTypes, w, x
<1>5. CASE type \in Fixed64Types \cup {"double"}
  <2>1. /\ type \notin ZigZagTypes /\ type \notin VarintTypes
        /\ type \notin Fixed32Types \cup {"float"} /\ type \notin ByteArrayTypes \cup {"message"}
    BY <1>5 DEF VarintTypes, ZigZagTypes, Fixed32Types, Fixed64Types, ByteArrayTypes
  <2>2. w = Fixed64
    BY <1>5, <2>1 DEF WireTypeFor
  <2>3. y = ReadFixed(buf, p, end, SIZE64)
    BY <1>5, <2>1
  <2>4. x = ReadFixed(buf, p, end, SIZE64)
    BY <2>2 DEF ParseInteger, Varint, Fixed32, Fixed64
  <2> HIDE DEF w, x, y, z
  <2> QED BY <1>1, <2>1, <2>2, <2>3, <2>4 DEF NumberWireTypes, w, x
<1> QED BY <1>2, <1>3, <1>4, <1>5 DEF NumericTypes, IntegralTypes, FPTypes

LEMMA ReadersFail ==
  ASSUME NEW type \in NumericTypes, NEW buf, NEW p, NEW end,
         ParseInteger(WireTypeFor(type), buf, p, end).err # "none"
  PROVE  ReadElement(type, buf, p, end).err # "none"
<1> DEFINE x == ParseInteger(WireTypeFor(type), buf, p, end)
           v == Cast(type, IF type \in ZigZagTypes THEN UnZigZag(x.val) ELSE x.val)
<1>1. ReadElement(type, buf, p, end) = IF x.err = "none" THEN [x EXCEPT !.val = v] ELSE x
  BY ElementIs
<1>2. x.err # "none"
  OBVIOUS
<1> HIDE DEF x, v
<1> QED BY <1>1, <1>2

(* The first n bytes, as a string of their own.                            *)
LEMMA HeadOf ==
  ASSUME NEW bytes \in Seq(Byte), NEW n \in 0 .. Len(bytes)
  PROVE  /\ SubSeq(bytes, 1, n) \in Seq(Byte) /\ Len(SubSeq(bytes, 1, n)) = n
         /\ \A i \in 1 .. n : SubSeq(bytes, 1, n)[i] = bytes[i]
         /\ Slice(SubSeq(bytes, 1, n), 0, n)
         /\ Between(SubSeq(bytes, 1, n), 0, n) = SubSeq(bytes, 1, n)
<1> DEFINE h == SubSeq(bytes, 1, n)
<1> HIDE DEF Byte
<1>1. h \in Seq(Byte) /\ Len(h) = n /\ (\A i \in 1 .. n : h[i] = bytes[i]) /\ n \in Nat
  OBVIOUS
<1> HIDE DEF h
<1>2. Slice(h, 0, n)
  BY <1>1 DEF Slice
<1>3. SubSeq(h, 1, n) = h
  BY <1>1
<1> QED BY <1>1, <1>2, <1>3 DEF h, Between

LEMMA IntegersAlike ==
  ASSUME NEW buf, NEW p, NEW end, Slice(buf, p, end), NEW w \in NumberWireTypes,
         ValueLength(w, Between(buf, p, end)) # 0
  PROVE  LET n == ValueLength(w, Between(buf, p, end))
             c == SubSeq(Between(buf, p, end), 1, n)
         IN  /\ n \in 1 .. end - p /\ Len(c) = n
             /\ Alike(ParseInteger(w, buf, p, end), ParseInteger(w, c, 0, Len(c)), p + n, n)
             /\ ParseInteger(w, c, 0, Len(c)).err = "none"
<1> DEFINE b == Between(buf, p, end)
           n == ValueLength(w, b)
           c == SubSeq(b, 1, n)
<1>1. b \in Seq(Byte) /\ Len(b) = end - p
  BY BetweenIs
<1>2. n \in 1 .. Len(b)
  <2>1. n = Extent(w, b) /\ n <= Len(b) /\ n \in Nat
    BY <1>1, ExtentType DEF ValueLength
  <2> QED BY <1>1, <2>1
<1>0. n = ValueLength(w, b) /\ c = SubSeq(b, 1, n) /\ n # 0
  OBVIOUS
<1>5. ParseInteger(w, buf, p, end) = Read(RawNumber(w, b), p + n)
  BY IntegerRead
<1> HIDE DEF b, n, c
<1>3. /\ c \in Seq(Byte) /\ Len(c) = n /\ \A i \in 1 .. n : c[i] = b[i]
      /\ Slice(c, 0, n) /\ Between(c, 0, n) = c
  <2>1. n \in 0 .. Len(b)
    BY <1>2
  <2> QED BY <1>0, <1>1, <2>1, HeadOf
<1>4. ValueLength(w, c) = n /\ RawNumber(w, c) = RawNumber(w, b)
  <2>1. n <= Len(c)
    BY <1>2, <1>3
  <2> QED BY <1>0, <1>1, <1>3, <2>1, RawNumberStays DEF n
<1>6. ParseInteger(w, c, 0, n) = Read(RawNumber(w, c), 0 + n)
  <2>1. /\ ValueLength(w, Between(c, 0, n)) # 0
        /\ ParseInteger(w, c, 0, n) = Read(RawNumber(w, Between(c, 0, n)), 0 + ValueLength(w, Between(c, 0, n)))
    <3>1. ValueLength(w, Between(c, 0, n)) # 0
      BY <1>0, <1>3, <1>4
    <3> QED BY <1>3, <3>1, IntegerRead
  <2> QED BY <1>3, <1>4, <2>1
<1>7. 0 + n = n
  BY <1>2
<1>8. Read(RawNumber(w, c), n).err = "none"
  BY DEF Read
<1> QED BY <1>1, <1>2, <1>3, <1>4, <1>5, <1>6, <1>7, <1>8 DEF Alike, b, n, c

(* get_TYPE reads what the bytes of the value say.                         *)
LEMMA ScalarRead ==
  ASSUME NEW buf, NEW p, NEW end, Slice(buf, p, end), NEW w, NEW type \in NumericTypes
  PROVE  LET b == Between(buf, p, end)
             n == ValueLength(w, b)
             c == SubSeq(b, 1, n)
             r == ParseScalar(type, w, buf, p, end)
             s == ParseScalar(type, w, c, 0, Len(c))
         IN  /\ n = 0 \/ w \notin NumberWireTypes => r.err # "none"
             /\ n # 0 => (r.err = "none" <=> s.err = "none")
             /\ r.err = "none" => n \in 1 .. end - p /\ r = Read(s.val, p + n)
<1> DEFINE b == Between(buf, p, end)
           n == ValueLength(w, b)
           c == SubSeq(b, 1, n)
           r == ParseScalar(type, w, buf, p, end)
           s == ParseScalar(type, w, c, 0, Len(c))
<1>1. CASE w \notin NumberWireTypes
  <2>1. r.err # "none" /\ s.err # "none"
    BY <1>1, ScalarFails
  <2> QED BY <2>1
<1>2. CASE w \in NumberWireTypes /\ n = 0
  <2>1. ParseInteger(w, buf, p, end).err # "none"
    BY <1>2, IntegerRead
  <2>2. r.err # "none"
    BY <2>1, ScalarFails
  <2> QED BY <1>2, <2>2
<1>3. CASE w \in NumberWireTypes /\ n # 0
  <2> DEFINE x == ParseInteger(w, buf, p, end)
             y == ParseInteger(w, c, 0, Len(c))
  <2>1. n \in 1 .. end - p /\ Alike(x, y, p + n, n)
    BY <1>3, IntegersAlike
  <2>2. Alike(r, s, p + n, n)
    <3> HIDE DEF b, n, c
    <3> QED BY <1>3, <2>1, ScalarsAlike
  <2> HIDE DEF r, s, n, c
  <2>3. CASE r.err # "none" /\ s.err # "none"
    BY <1>3, <2>3 DEF r, s, n, c
  <2>4. CASE ~(r.err # "none" /\ s.err # "none")
    <3>1. PICK u : r = Read(u, p + n) /\ s = Read(u, n)
      BY <2>2, <2>4 DEF Alike
    <3>2. r.err = "none" /\ s.err = "none" /\ s.val = u
      BY <3>1 DEF Read
    <3> QED BY <1>3, <2>1, <3>1, <3>2 DEF r, s, n, c
  <2> QED BY <2>3, <2>4
<1> QED BY <1>1, <1>2, <1>3

(* A packed field is read element by element.                              *)
LEMMA ElementRead ==
  ASSUME NEW buf, NEW p, NEW end, Slice(buf, p, end), NEW type \in NumericTypes
  PROVE  LET b == Between(buf, p, end)
             n == ValueLength(WireTypeFor(type), b)
             r == ReadElement(type, buf, p, end)
         IN  /\ n = 0 => r.err # "none"
             /\ n # 0 => n \in 1 .. end - p /\ r = Read(ElementIn(type, SubSeq(b, 1, n)), p + n)
<1> DEFINE b == Between(buf, p, end)
           w == WireTypeFor(type)
           n == ValueLength(w, b)
           c == SubSeq(b, 1, n)
           r == ReadElement(type, buf, p, end)
           s == ReadElement(type, c, 0, Len(c))
           x == ParseInteger(w, buf, p, end)
           y == ParseInteger(w, c, 0, Len(c))
           u == Cast(type, IF type \in ZigZagTypes THEN UnZigZag(x.val) ELSE x.val)
           v == Cast(type, IF type \in ZigZagTypes THEN UnZigZag(y.val) ELSE y.val)
<1>1. w \in NumberWireTypes
  BY ElementIs
<1>2. CASE n = 0
  <2>1. x.err # "none"
    BY <1>1, <1>2, IntegerRead
  <2>2. r.err # "none"
    BY <2>1, ReadersFail
  <2> QED BY <1>2, <2>2
<1>3. CASE n # 0
  <2>1. n \in 1 .. end - p /\ Alike(x, y, p + n, n) /\ y.err = "none"
    BY <1>1, <1>3, IntegersAlike
  <2>2. r = IF x.err = "none" THEN [x EXCEPT !.val = u] ELSE x
    BY ElementIs
  <2>3. s = IF y.err = "none" THEN [y EXCEPT !.val = v] ELSE y
    BY ElementIs
  <2>4. x.val = y.val => u = v
    <3> HIDE DEF x, y
    <3> QED OBVIOUS
  <2> HIDE DEF x, y, u, v, r, n, c, b, w
  <2>5. Alike(r, s, p + n, n)
    <3> HIDE DEF s
    <3> QED BY <2>1, <2>2, <2>3, <2>4, ConvertedAlike, SMTT(30)
  <2>6. s.err = "none"
    <3> HIDE DEF s
    <3>1. PICK k : y = Read(k, n)
      BY <2>1 DEF Alike
    <3>2. s = [y EXCEPT !.val = v]
      BY <2>1, <2>3
    <3> QED BY <3>1, <3>2 DEF Read
  <2>7. r = Read(s.val, p + n)
    <3> HIDE DEF s
    <3>1. PICK k : r = Read(k, p + n) /\ s = Read(k, n)
      BY <2>5, <2>6 DEF Alike
    <3>2. s.val = k
      BY <3>1 DEF Read
    <3> QED BY <3>1, <3>2
  <2>8. s.val = ElementIn(type, c)
    BY DEF ElementIn
  <2>9. n \in 1 .. end - p /\ r = Read(ElementIn(type, c), p + n)
    BY <2>1, <2>7, <2>8
  <2> QED BY <1>3, <2>9 DEF n, b, c, w, r
<1> QED BY <1>2, <1>3

(* A part of a slice is the slice of the part.                             *)
LEMMA BetweenBetween ==
  ASSUME NEW buf, NEW p, NEW end, Slice(buf, p, end), NEW i \in 0 .. end - p, NEW j \in i .. end - p
  PROVE  /\ Slice(buf, p + i, p + j)
         /\ SubSeq(Between(buf, p, end), i + 1, j) = Between(buf, p + i, p + j)
<1>1. buf \in Seq(Byte) /\ p \in Nat /\ end \in Nat /\ p <= end /\ end <= Len(buf)
  BY DEF Slice
<1>2. Slice(buf, p + i, p + j)
  BY <1>1 DEF Slice
<1> HIDE DEF Byte
<1>3. SubSeq(SubSeq(buf, p + 1, end), i + 1, j) = SubSeq(buf, p + i + 1, p + j)
  <2> DEFINE l == SubSeq(SubSeq(buf, p + 1, end), i + 1, j)
             r == SubSeq(buf, p + i + 1, p + j)
  <2>1. l \in Seq(Byte) /\ Len(l) = j - i /\ \A k \in 1 .. j - i : l[k] = buf[p + i + k]
    BY <1>1
  <2>2. r \in Seq(Byte) /\ Len(r) = j - i /\ \A k \in 1 .. j - i : r[k] = buf[p + i + k]
    BY <1>1
  <2> HIDE DEF l, r
  <2>3. l = r
    BY <2>1, <2>2
  <2> QED BY <2>3 DEF l, r
<1> QED BY <1>2, <1>3 DEF Between

(* The payload of a field is what follows its length.                      *)
LEMMA ByteArrayRead ==
  ASSUME NEW buf, NEW p, NEW end, Slice(buf, p, end)
  PROVE  LET b == Between(buf, p, end)
             n == ValueLength(Delimited, b)
             v == HeadVarint(b)
             r == ParseByteArray(Delimited, buf, p, end)
         IN  /\ n = 0 => r.err # "none"
             /\ n # 0 => /\ n \in 1 .. end - p /\ v \in 0 .. n - 1
                         /\ r = Read(v, p + n)
                         /\ AfterVarint(SubSeq(b, 1, n)) = Between(buf, p + n - v, p + n)
                         /\ Slice(buf, p + n - v, p + n)
<1> DEFINE b == Between(buf, p, end)
           n == ValueLength(Delimited, b)
           v == HeadVarint(b)
           m == VarintLength(b)
           r == ParseByteArray(Delimited, buf, p, end)
           len == ReadVarint(buf, p, end)
<1>1. p \in Nat /\ end \in Nat /\ p <= end /\ b \in Seq(Byte) /\ Len(b) = end - p
  BY BetweenIs DEF Slice
<1>2. m \in 0 .. end - p /\ (m # 0 => v \in Nat /\ len = Read(v, p + m)) /\ (m = 0 => len.err # "none")
  <2>1. (m # 0 => len = Read(v, p + m)) /\ (m = 0 => len.err # "none")
    BY VarintRead
  <2> HIDE DEF b, len
  <2>2. m \in 0 .. Len(b) /\ (m # 0 => v \in Nat)
    BY <1>1, VarintLengthIs, HeadVarintType
  <2> QED BY <1>1, <2>1, <2>2
<1>3. r = PayloadAfter(len, end)
  BY DEF ParseByteArray
<1>4. Extent(Delimited, b) = IF m > 0 /\ v <= INT32_MAX THEN m + v ELSE 0
  <2> HIDE DEF b
  <2> QED BY ExtentIs
<1>5. n = IF Extent(Delimited, b) <= end - p THEN Extent(Delimited, b) ELSE 0
  <2> HIDE DEF b
  <2> QED BY <1>1 DEF ValueLength
<1>6. INT32_MAX \in Int
  BY HalfWords DEF INT32_MAX
<1> HIDE DEF n, m, v, len, r
<1>7. CASE m = 0
  <2>1. n = 0 /\ r.err # "none"
    BY <1>1, <1>2, <1>3, <1>4, <1>5, <1>7 DEF PayloadAfter
  <2> QED BY <2>1 DEF n, r
<1>8. CASE m # 0 /\ v > INT32_MAX
  <2>1. n = 0
    BY <1>1, <1>2, <1>4, <1>5, <1>6, <1>8
  <2>2. len.err = "none" /\ len.val = v
    BY <1>2, <1>8 DEF Read
  <2>3. r.err # "none"
    BY <1>3, <1>8, <2>2 DEF PayloadAfter, Throw
  <2> QED BY <2>1, <2>3 DEF n, r
<1>9. CASE m # 0 /\ ~(v > INT32_MAX)
  <2>1. n = IF m + v <= end - p THEN m + v ELSE 0
    BY <1>1, <1>2, <1>4, <1>5, <1>6, <1>9
  <2>2. len.err = "none" /\ len.val = v /\ len.ptr = p + m
    BY <1>2, <1>9 DEF Read
  <2>3. r = IF end - (p + m) < v THEN Throw("unexpected_eof", p + m) ELSE Read(v, p + m + v)
    BY <1>3, <1>9, <2>2 DEF PayloadAfter, AdvanceOver
  <2>4. CASE m + v <= end - p
    <3>0. n = m + v /\ v \in Nat /\ m \in Nat \ {0} /\ m + v <= end - p
      BY <1>2, <1>9, <2>1, <2>4
    <3>a. p + n - v = p + m /\ n \in 1 .. end - p /\ v \in 0 .. n - 1 /\ n \in 0 .. end - p /\ m \in 0 .. n
      BY <1>1, <3>0
    <3>b. p + m + v = p + n /\ ~(end - (p + m) < v)
      BY <1>1, <3>0
    <3>1. n = m + v /\ r = Read(v, p + n) /\ p + n - v = p + m /\ n \in 1 .. end - p /\ v \in 0 .. n - 1
          /\ n \in 0 .. end - p /\ m \in 0 .. n
      <4>1. r = Read(v, p + n)
        BY <2>3, <3>b
      <4> QED BY <3>0, <3>a, <4>1
    <3> DEFINE c == SubSeq(b, 1, n)
    <3> HIDE DEF b
    <3>2. c \in Seq(Byte) /\ Len(c) = n /\ \A i \in 1 .. n : c[i] = b[i]
      BY <1>1, <3>1, HeadOf
    <3>3. VarintLength(c) = m
      <4>1. ValueLength(Delimited, b) # 0 /\ ValueLength(Delimited, b) <= Len(c)
        BY <3>1, <3>2 DEF n
      <4> HIDE DEF c
      <4> QED BY <1>1, <3>2, <4>1, ValueStays DEF n, m
    <3>4. AfterVarint(c) = SubSeq(b, m + 1, n)
      <4>1. AfterVarint(c) = SubSeq(c, m + 1, n)
        BY <3>2, <3>3 DEF AfterVarint
      <4>2. SubSeq(SubSeq(b, 1, n), m + 1, n) = SubSeq(b, m + 1, n)
        BY <1>1, <3>1
      <4> QED BY <4>1, <4>2
    <3>5. SubSeq(b, m + 1, n) = Between(buf, p + m, p + n) /\ Slice(buf, p + m, p + n)
      <4>1. m \in 0 .. end - p /\ n \in m .. end - p
        BY <1>1, <3>1
      <4> QED BY <4>1, BetweenBetween DEF b
    <3>6. n # 0 /\ AfterVarint(c) = Between(buf, p + n - v, p + n) /\ Slice(buf, p + n - v, p + n)
      BY <3>a, <3>4, <3>5
    <3> HIDE DEF c
    <3>7. n # 0 /\ n \in 1 .. end - p /\ v \in 0 .. n - 1 /\ r = Read(v, p + n)
          /\ AfterVarint(c) = Between(buf, p + n - v, p + n) /\ Slice(buf, p + n - v, p + n)
      BY <3>1, <3>6
    <3> QED BY <3>7 DEF r, n, v, b, c
  <2>5. CASE ~(m + v <= end - p)
    <3>1. n = 0 /\ end - (p + m) < v
      BY <1>1, <1>2, <1>9, <2>1, <2>5
    <3>2. r.err # "none"
      BY <2>3, <3>1 DEF Throw
    <3> QED BY <3>1, <3>2 DEF r, n
  <2> QED BY <2>4, <2>5
<1> QED BY <1>7, <1>8, <1>9

(* What is skipped is the value of the field.                              *)
LEMMA SkipRead ==
  ASSUME NEW buf, NEW p, NEW end, Slice(buf, p, end), NEW w
  PROVE  LET n == ValueLength(w, Between(buf, p, end))
             r == SkipField(w, buf, p, end)
         IN  /\ n = 0 => r.err # "none"
             /\ n # 0 => n \in 1 .. end - p /\ r.err = "none" /\ r.ptr = p + n
<1> DEFINE b == Between(buf, p, end)
           n == ValueLength(w, b)
           r == SkipField(w, buf, p, end)
<1>1. p \in Nat /\ end \in Nat /\ p <= end /\ b \in Seq(Byte) /\ Len(b) = end - p
  BY BetweenIs DEF Slice
<1>2. CASE w = Varint
  <2>1. r = ReadVarint(buf, p, end)
    BY <1>2 DEF SkipField, Varint, Fixed32, Fixed64, Delimited
  <2>2. n = VarintLength(b) /\ n \in 0 .. end - p
    <3> HIDE DEF b
    <3>1. Extent(w, b) = VarintLength(b) /\ VarintLength(b) \in 0 .. Len(b)
      BY <1>1, <1>2, ExtentIs, VarintLengthIs
    <3> QED BY <1>1, <3>1 DEF ValueLength
  <2>3. /\ VarintLength(b) # 0 => r = Read(HeadVarint(b), p + VarintLength(b))
        /\ VarintLength(b) = 0 => r.err # "none"
    BY <2>1, VarintRead
  <2> HIDE DEF r, n, b
  <2>4. n # 0 => n \in 1 .. end - p
    BY <1>1, <2>2
  <2> QED BY <2>2, <2>3, <2>4 DEF Read, r, n, b
<1>3. CASE w \in {Fixed32, Fixed64}
  <2> DEFINE k == IF w = Fixed32 THEN SIZE32 ELSE SIZE64
  <2>1. r = AdvanceOver(p, end, k)
    BY <1>3 DEF SkipField, Varint, Fixed32, Fixed64, Delimited
  <2>2. k \in Nat \ {0} /\ Extent(w, b) = k
    BY <1>3, Widths, ExtentIs
  <2>3. n = IF k <= end - p THEN k ELSE 0
    BY <1>1, <2>2 DEF ValueLength
  <2>4. r = IF end - p < k THEN Throw("unexpected_eof", p) ELSE Read(k, p + k)
    BY <2>1 DEF AdvanceOver
  <2> HIDE DEF r, n, b, k
  <2>5. CASE end - p < k
    <3>1. n = 0 /\ r.err # "none"
      BY <1>1, <2>2, <2>3, <2>4, <2>5 DEF Throw
    <3> QED BY <3>1 DEF r, n, b
  <2>6. CASE ~(end - p < k)
    <3>1. n = k /\ n \in 1 .. end - p /\ r = Read(k, p + k)
      BY <1>1, <2>2, <2>3, <2>4, <2>6
    <3> QED BY <2>2, <3>1 DEF r, n, b, Read
  <2> QED BY <2>5, <2>6
<1>4. CASE w = Delimited
  <2>1. r = ParseByteArray(Delimited, buf, p, end)
    BY <1>4 DEF SkipField, Varint, Fixed32, Fixed64, Delimited
  <2>2. /\ n = 0 => r.err # "none"
        /\ n # 0 => n \in 1 .. end - p /\ r = Read(HeadVarint(b), p + n)
    BY <1>4, <2>1, ByteArrayRead
  <2> HIDE DEF r, n, b
  <2> QED BY <2>2 DEF Read, r, n, b
<1>5. CASE w \notin {Varint, Fixed32, Fixed64, Delimited}
  <2>1. r = Throw("unsupported_wiretype", p)
    BY <1>5 DEF SkipField, Varint, Fixed32, Fixed64, Delimited
  <2>2. n = 0
    <3>1. Extent(w, b) = 0
      BY <1>5, ExtentIs
    <3> QED BY <3>1 DEF ValueLength
  <2>3. r.err # "none"
    BY <2>1 DEF Throw
  <2> QED BY <2>2, <2>3
<1> QED BY <1>2, <1>3, <1>4, <1>5

-----------------------------------------------------------------------------
(* The value of a wire type takes no more than the string holds.           *)
LEMMA ValueLengthType ==
  ASSUME NEW bytes \in Seq(Byte), NEW w
  PROVE  ValueLength(w, bytes) \in 0 .. Len(bytes)
<1>1. Extent(w, bytes) \in Nat
  BY ExtentType
<1>2. Len(bytes) \in Nat
  OBVIOUS
<1> QED BY <1>1, <1>2 DEF ValueLength

LEMMA FieldLengthIs ==
  ASSUME NEW bytes \in Seq(Byte)
  PROVE  LET v == VarintLength(bytes)
             a == AfterVarint(bytes)
             m == ValueLength(HeadVarint(bytes) % FIELDNUM_SCALE, a)
         IN  /\ v \in 0 .. Len(bytes) /\ a \in Seq(Byte) /\ Len(a) = Len(bytes) - v
             /\ \A i \in 1 .. Len(a) : a[i] = bytes[v + i]
             /\ m \in 0 .. Len(a)
             /\ FieldLength(bytes) = IF v = 0 \/ HeadVarint(bytes) >= U32 \/ m = 0 THEN 0 ELSE v + m
             /\ FieldLength(bytes) \in 0 .. Len(bytes)
<1> DEFINE v == VarintLength(bytes)
           a == AfterVarint(bytes)
           m == ValueLength(HeadVarint(bytes) % FIELDNUM_SCALE, a)
<1>1. v \in 0 .. Len(bytes) /\ Len(bytes) \in Nat
  BY VarintLengthIs
<1>2. a = SubSeq(bytes, v + 1, Len(bytes))
  BY DEF AfterVarint
<1>3. FieldLength(bytes) = IF v = 0 \/ HeadVarint(bytes) >= U32 \/ m = 0 THEN 0 ELSE v + m
  BY DEF FieldLength
<1> HIDE DEF v, a, Byte
<1>4. a \in Seq(Byte) /\ Len(a) = Len(bytes) - v /\ \A i \in 1 .. Len(a) : a[i] = bytes[v + i]
  BY <1>1, <1>2
<1>5. m \in 0 .. Len(a)
  BY <1>4, ValueLengthType
<1> HIDE DEF m
<1>6. FieldLength(bytes) \in 0 .. Len(bytes)
  BY <1>1, <1>3, <1>4, <1>5
<1> QED BY <1>1, <1>3, <1>4, <1>5, <1>6 DEF v, a, m

(* The field at the head of a string is that of any string with its bytes. *)
LEMMA FieldStays ==
  ASSUME NEW bytes \in Seq(Byte), FieldLength(bytes) # 0, NEW c \in Seq(Byte),
         FieldLength(bytes) <= Len(c), \A i \in 1 .. FieldLength(bytes) : c[i] = bytes[i]
  PROVE  /\ FieldLength(c) = FieldLength(bytes)
         /\ VarintLength(c) = VarintLength(bytes) /\ HeadVarint(c) = HeadVarint(bytes)
<1> DEFINE v == VarintLength(bytes)
           a == AfterVarint(bytes)
           w == HeadVarint(bytes) % FIELDNUM_SCALE
           m == ValueLength(w, a)
           n == FieldLength(bytes)
           d == AfterVarint(c)
<1>0. n # 0 /\ n <= Len(c) /\ \A i \in 1 .. n : c[i] = bytes[i]
  OBVIOUS
<1>1. /\ v \in 0 .. Len(bytes) /\ a \in Seq(Byte) /\ Len(a) = Len(bytes) - v
      /\ \A i \in 1 .. Len(a) : a[i] = bytes[v + i]
      /\ m \in 0 .. Len(a)
      /\ n = IF v = 0 \/ HeadVarint(bytes) >= U32 \/ m = 0 THEN 0 ELSE v + m
  BY FieldLengthIs
<1> HIDE DEF n
<1>2. v # 0 /\ ~(HeadVarint(bytes) >= U32) /\ m # 0 /\ n = v + m
  BY <1>0, <1>1
<1>3. VarintLength(c) = v /\ HeadVarint(c) = HeadVarint(bytes)
  <2>1. VarintLength(bytes) # 0 /\ VarintLength(bytes) <= Len(c)
    BY <1>0, <1>1, <1>2
  <2>2. \A i \in 1 .. VarintLength(bytes) : c[i] = bytes[i]
    BY <1>0, <1>1, <1>2
  <2> QED BY <2>1, <2>2, VarintStays
<1>4. /\ d \in Seq(Byte) /\ Len(d) = Len(c) - v
      /\ \A i \in 1 .. Len(d) : d[i] = c[v + i]
      /\ FieldLength(c) = IF v = 0 \/ HeadVarint(bytes) >= U32 \/ ValueLength(w, d) = 0
                          THEN 0 ELSE v + ValueLength(w, d)
  BY <1>3, FieldLengthIs
<1>5. ValueLength(w, d) = m
  <2> HIDE DEF a, w, d, v
  <2>1. ValueLength(w, a) # 0 /\ ValueLength(w, a) <= Len(d)
    BY <1>0, <1>1, <1>2, <1>4
  <2>2. \A i \in 1 .. ValueLength(w, a) : d[i] = a[i]
    <3> HIDE DEF m
    <3>1. ASSUME NEW i \in 1 .. m
          PROVE  d[i] = a[i]
      <4>1. v + i \in 1 .. n /\ i \in 1 .. Len(d) /\ i \in 1 .. Len(a)
        BY <1>0, <1>1, <1>2, <1>4
      <4> QED BY <1>0, <1>1, <1>4, <4>1
    <3> QED BY <3>1 DEF m
  <2> QED BY <1>1, <1>4, <2>1, <2>2, ValueStays
<1> HIDE DEF m, d, v
<1>6. FieldLength(c) = n
  BY <1>2, <1>4, <1>5
<1> QED BY <1>3, <1>6 DEF n, v

(* The first field of a string, on its own.                                *)
LEMMA FirstField ==
  ASSUME NEW bytes \in Seq(Byte), FieldLength(bytes) # 0
  PROVE  LET w == HeadVarint(bytes) % FIELDNUM_SCALE
             a == AfterVarint(bytes)
         IN  FieldIn(SubSeq(bytes, 1, FieldLength(bytes))) =
               [ num  |-> HeadVarint(bytes) \div FIELDNUM_SCALE,
                 wire |-> w,
                 body |-> SubSeq(a, 1, ValueLength(w, a)) ]
<1> DEFINE v == VarintLength(bytes)
           a == AfterVarint(bytes)
           w == HeadVarint(bytes) % FIELDNUM_SCALE
           m == ValueLength(w, a)
           n == FieldLength(bytes)
           c == SubSeq(bytes, 1, n)
<1>1. /\ v \in 0 .. Len(bytes) /\ a \in Seq(Byte) /\ Len(a) = Len(bytes) - v
      /\ m \in 0 .. Len(a)
      /\ n = IF v = 0 \/ HeadVarint(bytes) >= U32 \/ m = 0 THEN 0 ELSE v + m
      /\ n \in 0 .. Len(bytes)
  BY FieldLengthIs
<1>4a. \A i \in 1 .. Len(a) : a[i] = bytes[v + i]
  BY FieldLengthIs
<1>2. n # 0 /\ a = SubSeq(bytes, v + 1, Len(bytes)) /\ c = SubSeq(bytes, 1, n)
  BY DEF AfterVarint
<1>3. c \in Seq(Byte) /\ Len(c) = n /\ \A i \in 1 .. n : c[i] = bytes[i]
  <2> HIDE DEF n
  <2> QED BY <1>1, HeadOf
<1>4. VarintLength(c) = v /\ HeadVarint(c) = HeadVarint(bytes)
  <2> HIDE DEF c
  <2>1. FieldLength(bytes) # 0 /\ FieldLength(bytes) <= Len(c) /\ \A i \in 1 .. FieldLength(bytes) : c[i] = bytes[i]
    BY <1>1, <1>3
  <2> QED BY <1>3, <2>1, FieldStays
<1>5. AfterVarint(c) = SubSeq(c, v + 1, n)
  BY <1>3, <1>4 DEF AfterVarint
<1> HIDE DEF n, v, m, a, c, Byte
<1>6. SubSeq(c, v + 1, n) = SubSeq(a, 1, m)
  <2>1. n = v + m /\ v \in Nat /\ m \in Nat
    BY <1>1, <1>2
  <2> DEFINE x == SubSeq(c, v + 1, n)
             y == SubSeq(a, 1, m)
  <2>2. x \in Seq(Byte) /\ Len(x) = m /\ \A i \in 1 .. m : x[i] = bytes[v + i]
    BY <1>1, <1>3, <2>1
  <2>3. y \in Seq(Byte) /\ Len(y) = m /\ \A i \in 1 .. m : y[i] = bytes[v + i]
    <3>1. y \in Seq(Byte) /\ Len(y) = m /\ \A i \in 1 .. m : y[i] = a[i]
      BY <1>1, HeadOf
    <3>2. \A i \in 1 .. m : i \in 1 .. Len(a)
      BY <1>1
    <3> QED BY <1>4a, <3>1, <3>2
  <2> HIDE DEF x, y
  <2>4. x = y
    BY <2>2, <2>3
  <2> QED BY <2>4 DEF x, y
<1>7. FieldIn(c) = [num |-> HeadVarint(bytes) \div FIELDNUM_SCALE, wire |-> w, body |-> SubSeq(a, 1, m)]
  BY <1>4, <1>5, <1>6 DEF FieldIn
<1> QED BY <1>7 DEF c, n, a, m

Fields == [num : Nat, wire : Nat, body : Seq(Byte)]

(* get_next_field() finds the field at the head of the slice.              *)
LEMMA FieldRead ==
  ASSUME NEW buf, NEW p, NEW end, Slice(buf, p, end)
  PROVE  LET b == Between(buf, p, end)
             tag == ReadVarint(buf, p, end)
             w == tag.val % FIELDNUM_SCALE
             a == Between(buf, tag.ptr, end)
             n == FieldLength(b)
             m == ValueLength(w, a)
         IN  /\ ~(tag.err = "none" /\ tag.val < U32) => n = 0
             /\ tag.err = "none" /\ tag.val < U32 =>
                  /\ tag.ptr \in p + 1 .. end /\ Slice(buf, tag.ptr, end)
                  /\ n = IF m = 0 THEN 0 ELSE (tag.ptr - p) + m
                  /\ m # 0 => /\ n \in 1 .. end - p /\ p + n = tag.ptr + m
                              /\ FieldIn(SubSeq(b, 1, n)) =
                                   [num |-> tag.val \div FIELDNUM_SCALE, wire |-> w, body |-> SubSeq(a, 1, m)]
<1> DEFINE b == Between(buf, p, end)
           tag == ReadVarint(buf, p, end)
           v == VarintLength(b)
           n == FieldLength(b)
<1>1. p \in Nat /\ end \in Nat /\ p <= end /\ b \in Seq(Byte) /\ Len(b) = end - p
  BY BetweenIs DEF Slice
<1>2. (v # 0 => tag = Read(HeadVarint(b), p + v)) /\ (v = 0 => tag.err # "none")
  BY VarintRead
<1>3. v \in 0 .. end - p
  <2> HIDE DEF b
  <2> QED BY <1>1, VarintLengthIs
<1>4. CASE v = 0
  <2>1. n = 0
    BY <1>4 DEF FieldLength
  <2> QED BY <1>2, <1>4, <2>1
<1>5. CASE v # 0
  <2> DEFINE w == HeadVarint(b) % FIELDNUM_SCALE
             a == AfterVarint(b)
             m == ValueLength(w, a)
  <2>1. tag.err = "none" /\ tag.val = HeadVarint(b) /\ tag.ptr = p + v
    BY <1>2, <1>5 DEF Read
  <2>2. a = Between(buf, p + v, end) /\ Slice(buf, p + v, end)
    <3>1. a = SubSeq(b, v + 1, end - p)
      BY <1>1 DEF AfterVarint
    <3> HIDE DEF a, v
    <3>2. end - p \in v .. end - p /\ p + (end - p) = end
      BY <1>1, <1>3
    <3>3. Slice(buf, p + v, p + (end - p)) /\ SubSeq(b, v + 1, end - p) = Between(buf, p + v, p + (end - p))
      BY <1>3, <3>2, BetweenBetween
    <3> HIDE DEF b
    <3> QED BY <3>1, <3>2, <3>3
  <2>3. n = (IF v = 0 \/ HeadVarint(b) >= U32 \/ m = 0 THEN 0 ELSE v + m) /\ n \in 0 .. end - p /\ m \in Nat
    <3> HIDE DEF b
    <3> QED BY <1>1, FieldLengthIs
  <2>4. n # 0 => FieldIn(SubSeq(b, 1, n)) = [num |-> HeadVarint(b) \div FIELDNUM_SCALE, wire |-> w, body |-> SubSeq(a, 1, m)]
    <3> HIDE DEF b
    <3> QED BY <1>1, FirstField
  <2>5. HeadVarint(b) \in Nat /\ U32 \in Nat
    <3> HIDE DEF b
    <3> QED BY <1>1, <1>5, HeadVarintType, Powers
  <2> HIDE DEF tag, n, v, b, m, a
  <2>6. CASE HeadVarint(b) >= U32
    <3>1. n = 0 /\ ~(tag.val < U32)
      BY <2>1, <2>3, <2>5, <2>6
    <3> QED BY <3>1 DEF n, b, tag
  <2>7. CASE ~(HeadVarint(b) >= U32)
    <3>1. n = IF m = 0 THEN 0 ELSE v + m
      BY <1>5, <2>3, <2>7
    <3>2. tag.ptr \in p + 1 .. end /\ tag.ptr - p = v
      BY <1>1, <1>3, <1>5, <2>1
    <3>3. m # 0 => n # 0 /\ n \in 1 .. end - p /\ p + n = tag.ptr + m
      BY <1>1, <1>3, <1>5, <2>1, <2>3, <3>1
    <3>4. a = Between(buf, tag.ptr, end) /\ Slice(buf, tag.ptr, end) /\ w = tag.val % FIELDNUM_SCALE
      BY <2>1, <2>2
    <3>5. m = ValueLength(tag.val % FIELDNUM_SCALE, Between(buf, tag.ptr, end))
      BY <3>4 DEF m
    <3>6. m # 0 => FieldIn(SubSeq(b, 1, n)) =
                 [num |-> tag.val \div FIELDNUM_SCALE, wire |-> tag.val % FIELDNUM_SCALE,
                  body |-> SubSeq(Between(buf, tag.ptr, end), 1, m)]
      BY <2>1, <2>4, <3>3, <3>4
    <3> DEFINE k == ValueLength(tag.val % FIELDNUM_SCALE, Between(buf, tag.ptr, end))
    <3>7. /\ tag.ptr \in p + 1 .. end /\ Slice(buf, tag.ptr, end)
          /\ n = IF k = 0 THEN 0 ELSE (tag.ptr - p) + k
          /\ k # 0 => n \in 1 .. end - p /\ p + n = tag.ptr + k
      <4> HIDE DEF k
      <4>1. m = k
        BY <3>5 DEF k
      <4> QED BY <3>1, <3>2, <3>3, <3>4, <4>1
    <3>8. k # 0 => FieldIn(SubSeq(b, 1, n)) =
                 [num |-> tag.val \div FIELDNUM_SCALE, wire |-> tag.val % FIELDNUM_SCALE,
                  body |-> SubSeq(Between(buf, tag.ptr, end), 1, k)]
      BY <3>5, <3>6
    <3>9. tag.err = "none" /\ tag.val < U32
      BY <2>1, <2>5, <2>7
    <3> HIDE DEF k
    <3> QED BY <3>7, <3>8, <3>9 DEF n, b, tag, k
  <2> QED BY <2>6, <2>7
<1> QED BY <1>4, <1>5

-----------------------------------------------------------------------------
(* The recursive functions of the reference exist: each is defined for an  *)
(* argument by its values for smaller ones.                                *)

UnfoldBlank(g, t) == [has |-> {}, val |-> [f \in DOMAIN Schema[t] |-> NewValue(Schema[t][f], g)]]

UnfoldItem(g, bytes, what) ==
  LET n == HeadLength(what, bytes)
  IN  IF n = 0 THEN [ok |-> bytes = <<>>, list |-> <<>>]
      ELSE Before(Item(what, SubSeq(bytes, 1, n)), g[SubSeq(bytes, n + 1, Len(bytes))][what])

UnfoldItems(g, bytes) == [what \in {"field"} \cup NumericTypes |-> UnfoldItem(g, bytes, what)]

UnfoldMessage(g, bytes, t) ==
  LET fields == Items[bytes]["field"]
  IN  Accepted(t, fields, ObjectOf(g, t, fields.list))

UnfoldDecode(g, bytes) == [t \in DOMAIN Schema |-> UnfoldMessage(g, bytes, t)]

Unfold(w, g, x) ==
  CASE w = "blank" -> UnfoldBlank(g, x) [] w = "items" -> UnfoldItems(g, x) [] OTHER -> UnfoldDecode(g, x)

Arguments(w) == IF w = "blank" THEN DOMAIN Schema ELSE Seq(Byte)

(* The value for x takes only those for arguments of a lower rank.         *)
Local(w, rank) ==
  \A x \in Arguments(w) : \A g, h :
    (\A y \in Arguments(w) : rank[y] < rank[x] => g[y] = h[y]) => Unfold(w, g, x) = Unfold(w, h, x)

Below(w, rank, k) == {x \in Arguments(w) : rank[x] < k}

Stage(w, rank, g, k) == g = [x \in Below(w, rank, k) |-> Unfold(w, g, x)]

LEMMA StagesAgree ==
  ASSUME NEW w, NEW rank \in [Arguments(w) -> Nat], Local(w, rank),
         NEW k \in Nat, NEW l \in Nat, k <= l, NEW g, Stage(w, rank, g, k), NEW h, Stage(w, rank, h, l)
  PROVE  \A x \in Below(w, rank, k) : g[x] = h[x]
<1> DEFINE T == {j \in 0 .. k : \A x \in Below(w, rank, j) : g[x] = h[x]}
<1>1. 0 \in T
  <2>1. \A x \in Arguments(w) : ~(rank[x] < 0)
    OBVIOUS
  <2> QED BY <2>1 DEF Below
<1>2. ASSUME NEW j \in 1 .. k, j - 1 \in T
      PROVE  j \in T
  <2>1. ASSUME NEW x \in Below(w, rank, j)
        PROVE  g[x] = h[x]
    <3>1. x \in Arguments(w) /\ rank[x] \in Nat /\ rank[x] < j
      BY DEF Below
    <3>2. x \in Below(w, rank, k) /\ x \in Below(w, rank, l)
      BY <3>1 DEF Below
    <3>3. g[x] = Unfold(w, g, x) /\ h[x] = Unfold(w, h, x)
      BY <3>2 DEF Stage
    <3>4. \A y \in Arguments(w) : rank[y] < rank[x] => g[y] = h[y]
      <4>1. \A y \in Arguments(w) : rank[y] < rank[x] => rank[y] < j - 1
        BY <3>1
      <4> QED BY <1>2, <4>1 DEF Below
    <3>5. Unfold(w, g, x) = Unfold(w, h, x)
      BY <3>1, <3>4 DEF Local
    <3> QED BY <3>3, <3>5
  <2> QED BY <2>1
<1>3. k \in T
  <2> HIDE DEF T
  <2>1. 0 .. k \subseteq T
    BY <1>1, <1>2, Induction
  <2> QED BY <2>1
<1> QED BY <1>3

LEMMA StagesExist ==
  ASSUME NEW w, NEW rank \in [Arguments(w) -> Nat], Local(w, rank), NEW n \in Nat
  PROVE  \E g : Stage(w, rank, g, n)
<1> DEFINE T == {k \in 0 .. n : \E g : Stage(w, rank, g, k)}
<1>1. 0 \in T
  <2> DEFINE g == [x \in Below(w, rank, 0) |-> Unfold(w, <<>>, x)]
  <2>1. \A x \in Arguments(w) : ~(rank[x] < 0)
    OBVIOUS
  <2>2. Below(w, rank, 0) = {}
    BY <2>1 DEF Below
  <2>3. Stage(w, rank, g, 0)
    BY <2>2 DEF Stage
  <2> QED BY <2>3
<1>2. ASSUME NEW k \in 1 .. n, k - 1 \in T
      PROVE  k \in T
  <2>1. PICK g : Stage(w, rank, g, k - 1)
    BY <1>2
  <2> DEFINE h == [x \in Below(w, rank, k) |-> Unfold(w, g, x)]
  <2>2. \A x \in Below(w, rank, k - 1) : h[x] = g[x]
    <3>1. \A x \in Below(w, rank, k - 1) : x \in Below(w, rank, k)
      BY DEF Below
    <3>2. \A x \in Below(w, rank, k - 1) : g[x] = Unfold(w, g, x)
      BY <2>1 DEF Stage
    <3> QED BY <3>1, <3>2
  <2>3. ASSUME NEW x \in Below(w, rank, k)
        PROVE  Unfold(w, g, x) = Unfold(w, h, x)
    <3> HIDE DEF h
    <3>1. x \in Arguments(w) /\ rank[x] \in Nat /\ rank[x] < k
      BY DEF Below
    <3>2. \A y \in Arguments(w) : rank[y] < rank[x] => y \in Below(w, rank, k - 1)
      BY <3>1 DEF Below
    <3>3. \A y \in Arguments(w) : rank[y] < rank[x] => g[y] = h[y]
      BY <2>2, <3>2
    <3> QED BY <3>1, <3>3 DEF Local
  <2>4. h = [x \in Below(w, rank, k) |-> Unfold(w, h, x)]
    BY <2>3
  <2>5. Stage(w, rank, h, k)
    <3> HIDE DEF h
    <3> QED BY <2>4 DEF Stage
  <2> QED BY <2>5
<1>3. n \in T
  <2> HIDE DEF T
  <2>1. 0 .. n \subseteq T
    BY <1>1, <1>2, Induction
  <2> QED BY <2>1
<1> QED BY <1>3

LEMMA Unfolds ==
  ASSUME NEW w, NEW rank \in [Arguments(w) -> Nat], Local(w, rank)
  PROVE  \E f : f = [x \in Arguments(w) |-> Unfold(w, f, x)]
<1> DEFINE S(k) == CHOOSE g : Stage(w, rank, g, k)
           f == [x \in Arguments(w) |-> S(rank[x] + 1)[x]]
<1>1. \A k \in Nat : Stage(w, rank, S(k), k)
  BY StagesExist
<1> HIDE DEF S
<1>2. ASSUME NEW x \in Arguments(w)
      PROVE  f[x] = Unfold(w, f, x)
  <2> DEFINE k == rank[x] + 1
             g == S(k)
  <2>1. k \in Nat /\ rank[x] \in Nat /\ f[x] = g[x] /\ x \in Below(w, rank, k)
    BY DEF Below
  <2>2. Stage(w, rank, g, k)
    BY <1>1, <2>1
  <2>3. g[x] = Unfold(w, g, x)
    <3> HIDE DEF g, k
    <3> QED BY <2>1, <2>2 DEF Stage
  <2>4. ASSUME NEW y \in Arguments(w), rank[y] < rank[x]
        PROVE  g[y] = f[y]
    <3> DEFINE l == rank[y] + 1
               h == S(l)
    <3>1. l \in Nat /\ l <= k /\ f[y] = h[y] /\ y \in Below(w, rank, l)
      BY <2>1, <2>4 DEF Below
    <3>2. Stage(w, rank, h, l)
      BY <1>1, <3>1
    <3> HIDE DEF f, g, h, k, l
    <3>3. \A z \in Below(w, rank, l) : h[z] = g[z]
      BY <2>1, <2>2, <3>1, <3>2, StagesAgree
    <3> QED BY <3>1, <3>3
  <2> HIDE DEF f, g
  <2>5. Unfold(w, g, x) = Unfold(w, f, x)
    BY <2>4 DEF Local
  <2> QED BY <2>1, <2>3, <2>5
<1>3. f = [x \in Arguments(w) |-> Unfold(w, f, x)]
  BY <1>2
<1> HIDE DEF f
<1> QED BY <1>3

-----------------------------------------------------------------------------
LEMMA UnfoldIs ==
  ASSUME NEW g, NEW x
  PROVE  /\ Unfold("blank", g, x) = UnfoldBlank(g, x) /\ Arguments("blank") = DOMAIN Schema
         /\ Unfold("items", g, x) = UnfoldItems(g, x) /\ Arguments("items") = Seq(Byte)
         /\ Unfold("decode", g, x) = UnfoldDecode(g, x) /\ Arguments("decode") = Seq(Byte)
BY DEF Unfold, Arguments

(* The arguments that are strings of bytes are ranked by their length.     *)
LengthRank == [bytes \in Seq(Byte) |-> Len(bytes)]

LEMMA BlankIs ==
  ASSUME NEW t \in DOMAIN Schema
  PROVE  Blank[t] = [has |-> {}, val |-> [f \in DOMAIN Schema[t] |-> NewValue(Schema[t][f], Blank)]]
<1>1. PICK rank \in [DOMAIN Schema -> 0 .. Cardinality(DOMAIN Schema)] :
        \A u \in DOMAIN Schema : \A f \in DOMAIN Schema[u] :
            Schema[u][f].kind = "message" => rank[Schema[u][f].type] < rank[u]
  BY NestingAssumption
<1>2. rank \in [DOMAIN Schema -> Nat]
  BY <1>1
<1>3. ASSUME NEW x \in DOMAIN Schema, NEW g, NEW h, \A y \in DOMAIN Schema : rank[y] < rank[x] => g[y] = h[y]
      PROVE  UnfoldBlank(g, x) = UnfoldBlank(h, x)
  <2>1. ASSUME NEW f \in DOMAIN Schema[x], Schema[x][f].kind = "message"
        PROVE  g[Schema[x][f].type] = h[Schema[x][f].type]
    <3>1. Schema[x][f].type \in DOMAIN Schema
      BY <2>1, SchemaAssumption
    <3>2. rank[Schema[x][f].type] < rank[x]
      BY <1>1, <2>1
    <3> QED BY <1>3, <3>1, <3>2
  <2>2. \A f \in DOMAIN Schema[x] : NewValue(Schema[x][f], g) = NewValue(Schema[x][f], h)
    BY <2>1 DEF NewValue
  <2> QED BY <2>2 DEF UnfoldBlank
<1>4. Local("blank", rank)
  BY <1>3, UnfoldIs DEF Local
<1>5. \E b : b = [x \in DOMAIN Schema |-> UnfoldBlank(b, x)]
  <2>1. rank \in [Arguments("blank") -> Nat]
    BY <1>2, UnfoldIs
  <2>2. \E b : b = [x \in Arguments("blank") |-> Unfold("blank", b, x)]
    BY <1>4, <2>1, Unfolds
  <2> QED BY <2>2, UnfoldIs
<1>6. Blank = [x \in DOMAIN Schema |-> UnfoldBlank(Blank, x)]
  <2>1. Blank = CHOOSE b : b = [x \in DOMAIN Schema |-> UnfoldBlank(b, x)]
    BY DEF Blank, UnfoldBlank
  <2> QED BY <1>5, <2>1
<1>7. Blank[t] = UnfoldBlank(Blank, t)
  BY <1>6
<1> QED BY <1>7 DEF UnfoldBlank

-----------------------------------------------------------------------------
(* The items of a buffer.                                                  *)

LEMMA HeadLengthIs ==
  ASSUME NEW bytes \in Seq(Byte), NEW what \in {"field"} \cup NumericTypes
  PROVE  /\ HeadLength(what, bytes) \in 0 .. Len(bytes)
         /\ LET n == HeadLength(what, bytes)
                rest == SubSeq(bytes, n + 1, Len(bytes))
            IN  /\ rest \in Seq(Byte) /\ Len(rest) = Len(bytes) - n
                /\ SubSeq(bytes, 1, n) \in Seq(Byte) /\ Len(SubSeq(bytes, 1, n)) = n
                /\ bytes = SubSeq(bytes, 1, n) \o rest
<1> DEFINE n == HeadLength(what, bytes)
<1>1. n \in 0 .. Len(bytes) /\ Len(bytes) \in Nat
  <2>1. FieldLength(bytes) \in 0 .. Len(bytes)
    BY FieldLengthIs
  <2>2. ValueLength(WireTypeFor(what), bytes) \in 0 .. Len(bytes)
    BY ValueLengthType
  <2> QED BY <2>1, <2>2 DEF HeadLength
<1> HIDE DEF n, Byte
<1> DEFINE h == SubSeq(bytes, 1, n)
           r == SubSeq(bytes, n + 1, Len(bytes))
<1>2. h \in Seq(Byte) /\ Len(h) = n /\ \A i \in 1 .. n : h[i] = bytes[i]
  BY <1>1
<1>3. r \in Seq(Byte) /\ Len(r) = Len(bytes) - n /\ \A i \in 1 .. Len(bytes) - n : r[i] = bytes[n + i]
  BY <1>1
<1> HIDE DEF h, r
<1> DEFINE c == h \o r
<1>4. /\ c \in Seq(Byte) /\ Len(c) = Len(h) + Len(r)
      /\ \A i \in 1 .. Len(h) : c[i] = h[i]
      /\ \A i \in 1 .. Len(r) : c[Len(h) + i] = r[i]
  BY <1>2, <1>3, JoinedTexts
<1> HIDE DEF c
<1>5. ASSUME NEW i \in 1 .. Len(bytes)
      PROVE  c[i] = bytes[i]
  <2>1. CASE i <= n
    BY <1>1, <1>2, <1>4, <2>1
  <2>2. CASE i > n
    <3>1. i - n \in 1 .. Len(r) /\ Len(h) + (i - n) = i /\ n + (i - n) = i
      BY <1>1, <1>2, <1>3, <2>2
    <3> QED BY <1>3, <1>4, <3>1
  <2> QED BY <1>1, <2>1, <2>2
<1>6. c = bytes
  BY <1>1, <1>2, <1>3, <1>4, <1>5, SeqEqual
<1> QED BY <1>1, <1>2, <1>3, <1>6 DEF n, h, r, c

LEMMA ItemsAre ==
  ASSUME NEW bytes \in Seq(Byte), NEW what \in {"field"} \cup NumericTypes
  PROVE  Items[bytes][what] =
           LET n == HeadLength(what, bytes)
           IN  IF n = 0 THEN [ok |-> bytes = <<>>, list |-> <<>>]
               ELSE Before(Item(what, SubSeq(bytes, 1, n)), Items[SubSeq(bytes, n + 1, Len(bytes))][what])
<1>1. ASSUME NEW x \in Seq(Byte), NEW g, NEW h,
             \A y \in Seq(Byte) : LengthRank[y] < LengthRank[x] => g[y] = h[y]
      PROVE  UnfoldItems(g, x) = UnfoldItems(h, x)
  <2>1. ASSUME NEW w \in {"field"} \cup NumericTypes
        PROVE  UnfoldItem(g, x, w) = UnfoldItem(h, x, w)
    <3> DEFINE n == HeadLength(w, x)
               r == SubSeq(x, n + 1, Len(x))
    <3>1. n \in 0 .. Len(x) /\ r \in Seq(Byte) /\ Len(r) = Len(x) - n
      BY HeadLengthIs
    <3>2. n # 0 => g[r] = h[r]
      <4> HIDE DEF n, r
      <4>1. n # 0 => LengthRank[r] < LengthRank[x]
        BY <3>1 DEF LengthRank
      <4> QED BY <1>1, <3>1, <4>1
    <3> QED BY <3>2 DEF UnfoldItem
  <2> QED BY <2>1 DEF UnfoldItems
<1>2. Local("items", LengthRank)
  BY <1>1, UnfoldIs DEF Local
<1>3. \E f : f = [x \in Seq(Byte) |-> UnfoldItems(f, x)]
  <2>1. LengthRank \in [Arguments("items") -> Nat]
    BY UnfoldIs DEF LengthRank
  <2>2. \E f : f = [x \in Arguments("items") |-> Unfold("items", f, x)]
    BY <1>2, <2>1, Unfolds
  <2> QED BY <2>2, UnfoldIs
<1>4. Items = [x \in Seq(Byte) |-> UnfoldItems(Items, x)]
  <2>1. Items = CHOOSE f : f = [x \in Seq(Byte) |-> UnfoldItems(f, x)]
    BY DEF Items, UnfoldItems, UnfoldItem
  <2> QED BY <1>3, <2>1
<1>5. Items[bytes][what] = UnfoldItem(Items, bytes, what)
  BY <1>4 DEF UnfoldItems
<1> QED BY <1>5 DEF UnfoldItem

-----------------------------------------------------------------------------
(* What is so of a string whenever it is so of all shorter ones.           *)
LEMMA ByLength ==
  ASSUME NEW T, \A b \in Seq(Byte) : (\A c \in Seq(Byte) : Len(c) < Len(b) => c \in T) => b \in T
  PROVE  \A b \in Seq(Byte) : b \in T
<1> SUFFICES ASSUME NEW b \in Seq(Byte) PROVE b \in T
  OBVIOUS
<1> DEFINE n == Len(b) + 1
           U == {k \in 0 .. n : \A c \in Seq(Byte) : Len(c) < k => c \in T}
<1>0. n \in Nat /\ Len(b) < n
  OBVIOUS
<1> HIDE DEF n
<1>1. 0 \in U
  <2>1. \A c \in Seq(Byte) : ~(Len(c) < 0)
    OBVIOUS
  <2> QED BY <1>0, <2>1
<1>2. ASSUME NEW k \in 1 .. n, k - 1 \in U
      PROVE  k \in U
  <2>1. ASSUME NEW c \in Seq(Byte), Len(c) < k
        PROVE  c \in T
    <3>1. \A d \in Seq(Byte) : Len(d) < Len(c) => Len(d) < k - 1
      <4>1. \A d \in Seq(Byte) : Len(d) \in Nat
        OBVIOUS
      <4> QED BY <2>1, <4>1
    <3>2. \A d \in Seq(Byte) : Len(d) < Len(c) => d \in T
      BY <1>2, <3>1
    <3> QED BY <3>2
  <2> QED BY <2>1
<1>3. n \in U
  <2> HIDE DEF U
  <2>1. 0 .. n \subseteq U
    BY <1>0, <1>1, <1>2, Induction
  <2> QED BY <1>0, <2>1
<1> QED BY <1>0, <1>3

ItemSet(what) == IF what = "field" THEN Fields ELSE Int

LEMMA ItemType ==
  ASSUME NEW bytes \in Seq(Byte), NEW what \in {"field"} \cup NumericTypes, HeadLength(what, bytes) # 0
  PROVE  /\ Item(what, SubSeq(bytes, 1, HeadLength(what, bytes))) \in ItemSet(what)
         /\ what = "field" =>
              /\ PayloadOf(Item(what, SubSeq(bytes, 1, HeadLength(what, bytes)))) \in Seq(Byte)
              /\ Len(PayloadOf(Item(what, SubSeq(bytes, 1, HeadLength(what, bytes))))) < HeadLength(what, bytes)
<1> DEFINE n == HeadLength(what, bytes)
           x == Item(what, SubSeq(bytes, 1, n))
<1>1. CASE what = "field"
  <2> DEFINE v == VarintLength(bytes)
             a == AfterVarint(bytes)
             w == HeadVarint(bytes) % FIELDNUM_SCALE
             m == ValueLength(w, a)
             num == HeadVarint(bytes) \div FIELDNUM_SCALE
             body == SubSeq(a, 1, m)
  <2>1. /\ v \in 0 .. Len(bytes) /\ a \in Seq(Byte) /\ m \in 0 .. Len(a)
        /\ FieldLength(bytes) = IF v = 0 \/ HeadVarint(bytes) >= U32 \/ m = 0 THEN 0 ELSE v + m
    BY FieldLengthIs
  <2>2. n = FieldLength(bytes) /\ n # 0
    BY <1>1 DEF HeadLength
  <2>3. x = [num |-> num, wire |-> w, body |-> body]
    <3>1. x = FieldIn(SubSeq(bytes, 1, FieldLength(bytes)))
      BY <1>1, <2>2 DEF Item
    <3> QED BY <2>2, <3>1, FirstField
  <2>4. body \in Seq(Byte) /\ Len(body) = m
    BY <2>1, HeadOf
  <2>5. v # 0 /\ n = v + m
    <3> HIDE DEF n
    <3> QED BY <2>1, <2>2
  <2>6. num \in Nat /\ w \in Nat
    <3>1. HeadVarint(bytes) \in Nat
      BY <2>5, HeadVarintType
    <3>2. FIELDNUM_SCALE \in Nat \ {0}
      BY WidthAssumption
    <3>3. \A z \in Nat : z \div FIELDNUM_SCALE \in Nat /\ z % FIELDNUM_SCALE \in Nat
      <4>1. ASSUME NEW z \in Nat
            PROVE  z \div FIELDNUM_SCALE \in Nat /\ z % FIELDNUM_SCALE \in Nat
        <5>1. z \div FIELDNUM_SCALE \in Nat
          BY <3>2, Quotient
        <5>2. z \in Int
          OBVIOUS
        <5>3. z % FIELDNUM_SCALE \in 0 .. FIELDNUM_SCALE - 1
          BY <3>2, <5>2, Remainder
        <5>4. z % FIELDNUM_SCALE \in Nat
          BY <3>2, <5>3
        <5> QED BY <5>1, <5>4
      <4> QED BY <4>1
    <3> QED BY <3>1, <3>3, Zenon
  <2> HIDE DEF n, x, num, w, body, a, m
  <2>7. x \in Fields /\ x.body = body
    BY <2>3, <2>4, <2>6 DEF Fields
  <2>8. PayloadOf(x) \in Seq(Byte) /\ Len(PayloadOf(x)) <= m
    <3>1. PayloadOf(x) = AfterVarint(body)
      BY <2>7 DEF PayloadOf
    <3>2. AfterVarint(body) \in Seq(Byte) /\ Len(AfterVarint(body)) = Len(body) - VarintLength(body)
          /\ VarintLength(body) \in Nat
      BY <2>4, FieldLengthIs
    <3> QED BY <2>1, <2>4, <3>1, <3>2
  <2>9. Len(PayloadOf(x)) < n
    <3>1. Len(PayloadOf(x)) \in Nat
      BY <2>8
    <3> QED BY <2>1, <2>5, <2>8, <3>1
  <2> QED BY <1>1, <2>7, <2>8, <2>9 DEF ItemSet, n, x
<1>2. CASE what # "field"
  <2> DEFINE c == SubSeq(bytes, 1, n)
  <2>1. what \in NumericTypes
    BY <1>2
  <2>2. c \in Seq(Byte)
    BY HeadLengthIs
  <2>3. x = ReadElement(what, c, 0, Len(c)).val
    BY <1>2 DEF Item, ElementIn
  <2> HIDE DEF c, x
  <2>4. Slice(c, 0, Len(c))
    BY <2>2 DEF Slice
  <2>5. Returns(ReadElement(what, c, 0, Len(c)), 0, Len(c))
    BY <2>1, <2>4, ReadElementReturns
  <2>6. x \in Int
    BY <2>3, <2>5 DEF Returns
  <2> QED BY <1>2, <2>6 DEF ItemSet, x
<1> QED BY <1>1, <1>2

TypedItems(what, r) ==
  /\ r.ok \in BOOLEAN /\ r.list \in Seq(ItemSet(what))
  /\ r = [ok |-> r.ok, list |-> r.list]

LEMMA TypedItemsAre ==
  ASSUME NEW what, NEW o \in BOOLEAN, NEW l \in Seq(ItemSet(what))
  PROVE  TypedItems(what, [ok |-> o, list |-> l])
BY DEF TypedItems

(* What the items of a buffer are, and of one that begins with them.       *)
LEMMA ItemsType ==
  ASSUME NEW what \in {"field"} \cup NumericTypes
  PROVE  \A bytes \in Seq(Byte) : TypedItems(what, Items[bytes][what])
<1> DEFINE I(b) == Items[b][what]
           T == {b \in Seq(Byte) : TypedItems(what, I(b))}
<1>1. ASSUME NEW b \in Seq(Byte), \A c \in Seq(Byte) : Len(c) < Len(b) => c \in T
      PROVE  b \in T
  <2> DEFINE n == HeadLength(what, b)
             r == SubSeq(b, n + 1, Len(b))
             x == Item(what, SubSeq(b, 1, n))
  <2>1. I(b) = IF n = 0 THEN [ok |-> b = <<>>, list |-> <<>>] ELSE Before(x, I(r))
    BY ItemsAre
  <2>2. n \in 0 .. Len(b) /\ r \in Seq(Byte) /\ Len(r) = Len(b) - n
    BY HeadLengthIs
  <2>3. n # 0 => x \in ItemSet(what)
    BY ItemType
  <2> HIDE DEF n, r, x
  <2>4. CASE n = 0
    <3>1. (b = <<>>) \in BOOLEAN /\ <<>> \in Seq(ItemSet(what))
      OBVIOUS
    <3>2. TypedItems(what, [ok |-> b = <<>>, list |-> <<>>])
      BY <3>1, TypedItemsAre
    <3> HIDE DEF I
    <3> QED BY <2>1, <2>4, <3>2
  <2>5. CASE n # 0
    <3>1. r \in T
      <4>1. Len(r) < Len(b)
        BY <2>2, <2>5
      <4> HIDE DEF T
      <4> QED BY <1>1, <2>2, <4>1
    <3>2. I(b) = [ok |-> I(r).ok, list |-> <<x>> \o I(r).list]
      BY <2>1, <2>5 DEF Before
    <3> HIDE DEF I
    <3>3. I(r).ok \in BOOLEAN /\ I(r).list \in Seq(ItemSet(what))
      BY <3>1 DEF TypedItems
    <3>4. <<x>> \o I(r).list \in Seq(ItemSet(what))
      BY <2>3, <2>5, <3>3
    <3>5. TypedItems(what, I(b))
      BY <3>2, <3>3, <3>4, TypedItemsAre
    <3> QED BY <3>5
  <2> QED BY <2>4, <2>5
<1>2. \A b \in Seq(Byte) : b \in T
  <2> HIDE DEF T
  <2> QED BY <1>1, ByLength
<1> QED BY <1>2

LEMMA Concatenated ==
  ASSUME NEW A
  PROVE  \A p, q \in Seq(A) :
           /\ p \o q \in Seq(A) /\ Len(p \o q) = Len(p) + Len(q)
           /\ \A i \in 1 .. Len(p) : (p \o q)[i] = p[i]
           /\ \A i \in 1 .. Len(q) : (p \o q)[Len(p) + i] = q[i]
BY JoinedTexts

LEMMA RestIs ==
  ASSUME NEW A, NEW s \in Seq(A), NEW n \in 0 .. Len(s)
  PROVE  LET r == SubSeq(s, n + 1, Len(s))
         IN  r \in Seq(A) /\ Len(r) = Len(s) - n /\ \A i \in 1 .. Len(s) - n : r[i] = s[n + i]
OBVIOUS

(* The parts of a sequence and of one that begins with it.                 *)
LEMMA PartsJoin ==
  ASSUME NEW A, NEW s \in Seq(A), NEW t \in Seq(A), NEW n \in 0 .. Len(s)
  PROVE  /\ SubSeq(s \o t, 1, n) = SubSeq(s, 1, n)
         /\ SubSeq(s \o t, n + 1, Len(s \o t)) = SubSeq(s, n + 1, Len(s)) \o t
<1> DEFINE d == s \o t
           x == SubSeq(d, 1, n)
           y == SubSeq(s, 1, n)
           u == SubSeq(d, n + 1, Len(d))
           z == SubSeq(s, n + 1, Len(s))
           v == z \o t
           k == Len(s) - n
<1>1. n \in Nat /\ Len(s) \in Nat /\ n <= Len(s) /\ Len(t) \in Nat /\ k \in Nat /\ n + k = Len(s)
  OBVIOUS
<1>2. d \in Seq(A) /\ Len(d) = Len(s) + Len(t)
      /\ (\A i \in 1 .. Len(s) : d[i] = s[i]) /\ \A i \in 1 .. Len(t) : d[Len(s) + i] = t[i]
  BY JoinedTexts
<1> HIDE DEF d
<1>3. y \in Seq(A) /\ Len(y) = n /\ \A i \in 1 .. n : y[i] = s[i]
  OBVIOUS
<1>a. n \in 0 .. Len(d)
  BY <1>1, <1>2
<1>4. x \in Seq(A) /\ Len(x) = n /\ \A i \in 1 .. n : x[i] = d[i]
  BY <1>2, <1>a
<1>5. z \in Seq(A) /\ Len(z) = k /\ \A i \in 1 .. k : z[i] = s[n + i]
  BY RestIs
<1>6. u \in Seq(A) /\ Len(u) = Len(d) - n /\ \A i \in 1 .. Len(d) - n : u[i] = d[n + i]
  BY <1>2, <1>a, RestIs
<1> HIDE DEF x, y, z, u, k
<1>7. v \in Seq(A) /\ Len(v) = k + Len(t)
      /\ (\A i \in 1 .. k : v[i] = z[i]) /\ \A i \in 1 .. Len(t) : v[k + i] = t[i]
  <2>1. z \in Seq(A) /\ Len(z) = k
    BY <1>5
  <2>2. v \in Seq(A) /\ Len(v) = Len(z) + Len(t)
        /\ (\A i \in 1 .. Len(z) : v[i] = z[i]) /\ \A i \in 1 .. Len(t) : v[Len(z) + i] = t[i]
    <3>1. z \in Seq(A) /\ t \in Seq(A)
      BY <2>1
    <3>2. \A p, q \in Seq(A) :
            /\ p \o q \in Seq(A) /\ Len(p \o q) = Len(p) + Len(q)
            /\ \A i \in 1 .. Len(p) : (p \o q)[i] = p[i]
            /\ \A i \in 1 .. Len(q) : (p \o q)[Len(p) + i] = q[i]
      BY Concatenated
    <3> QED BY <3>1, <3>2, Zenon
  <2> HIDE DEF v
  <2> QED BY <2>1, <2>2
<1> HIDE DEF v
<1>8. x = y
  <2>1. ASSUME NEW i \in 1 .. n
        PROVE  x[i] = y[i]
    <3>1. i \in 1 .. Len(s)
      BY <1>1
    <3> QED BY <1>2, <1>3, <1>4, <3>1
  <2> QED BY <1>3, <1>4, <2>1, SeqEqual
<1>9. u = v
  <2>1. Len(u) = k + Len(t) /\ Len(u) = Len(d) - n
    BY <1>1, <1>2, <1>6
  <2>2. ASSUME NEW i \in 1 .. Len(u)
        PROVE  u[i] = v[i]
    <3>1. u[i] = d[n + i]
      BY <1>6, <2>1
    <3>2. CASE i <= k
      <4>1. i \in 1 .. k /\ n + i \in 1 .. Len(s)
        BY <1>1, <2>1, <3>2
      <4>2. v[i] = z[i] /\ z[i] = s[n + i] /\ d[n + i] = s[n + i]
        BY <1>2, <1>5, <1>7, <4>1
      <4> QED BY <3>1, <4>1, <4>2
    <3>3. CASE i > k
      <4>1. i - k \in 1 .. Len(t) /\ k + (i - k) = i /\ n + i = Len(s) + (i - k)
        BY <1>1, <2>1, <3>3
      <4>2. v[k + (i - k)] = t[i - k] /\ d[Len(s) + (i - k)] = t[i - k]
        BY <1>2, <1>5, <1>7, <4>1
      <4> QED BY <3>1, <4>1, <4>2
    <3> QED BY <1>1, <2>1, <3>2, <3>3
  <2> QED BY <1>6, <1>7, <2>1, <2>2, SeqEqual
<1> QED BY <1>8, <1>9 DEF d, x, y, u, v, z

(* The head of a string is that of any longer one.                         *)
LEMMA HeadStays ==
  ASSUME NEW a \in Seq(Byte), NEW c \in Seq(Byte), NEW what \in {"field"} \cup NumericTypes,
         HeadLength(what, a) # 0
  PROVE  LET n == HeadLength(what, a)
         IN  /\ HeadLength(what, a \o c) = n
             /\ SubSeq(a \o c, 1, n) = SubSeq(a, 1, n)
             /\ SubSeq(a \o c, n + 1, Len(a \o c)) = SubSeq(a, n + 1, Len(a)) \o c
<1> DEFINE n == HeadLength(what, a)
           d == a \o c
<1>1. n \in 0 .. Len(a) /\ n # 0
  BY HeadLengthIs
<1>0. Len(a) \in Nat /\ Len(c) \in Nat
  OBVIOUS
<1>2. d \in Seq(Byte) /\ Len(d) = Len(a) + Len(c)
      /\ (\A i \in 1 .. Len(a) : d[i] = a[i]) /\ \A i \in 1 .. Len(c) : d[Len(a) + i] = c[i]
  BY JoinedTexts
<1> HIDE DEF d
<1>3. HeadLength(what, d) = n
  <2>1. n <= Len(d) /\ \A i \in 1 .. n : d[i] = a[i]
    <3> HIDE DEF n
    <3> QED BY <1>0, <1>1, <1>2
  <2>2. CASE what = "field"
    <3>1. n = FieldLength(a) /\ HeadLength(what, d) = FieldLength(d)
      BY <2>2 DEF HeadLength
    <3> HIDE DEF n
    <3> QED BY <1>1, <1>2, <2>1, <3>1, FieldStays
  <2>3. CASE what # "field"
    <3> DEFINE w == WireTypeFor(what)
    <3>1. n = ValueLength(w, a) /\ HeadLength(what, d) = ValueLength(w, d)
      BY <2>3 DEF HeadLength
    <3> HIDE DEF n, w
    <3> QED BY <1>1, <1>2, <2>1, <3>1, ValueStays
  <2> QED BY <2>2, <2>3
<1> HIDE DEF n
<1>4. SubSeq(a \o c, 1, n) = SubSeq(a, 1, n) /\ SubSeq(a \o c, n + 1, Len(a \o c)) = SubSeq(a, n + 1, Len(a)) \o c
  BY <1>1, PartsJoin
<1> QED BY <1>3, <1>4 DEF n, d

(* The items of two buffers, one after the other.                          *)
Prepend(list, items) == [ok |-> items.ok, list |-> list \o items.list]

LEMMA BeforePrepended ==
  ASSUME NEW x, NEW list, NEW items
  PROVE  Before(x, Prepend(list, items)) = [ok |-> items.ok, list |-> <<x>> \o (list \o items.list)]
BY DEF Before, Prepend

LEMMA ItemsJoin ==
  ASSUME NEW what \in {"field"} \cup NumericTypes, NEW c \in Seq(Byte)
  PROVE  \A a \in Seq(Byte) :
           Items[a][what].ok => Items[a \o c][what] = Prepend(Items[a][what].list, Items[c][what])
<1> DEFINE I(b) == Items[b][what]
           T == {a \in Seq(Byte) : I(a).ok => I(a \o c) = Prepend(I(a).list, I(c))}
           A == ItemSet(what)
<1>0. \A b \in Seq(Byte) : I(b).list \in Seq(A) /\ I(b) = [ok |-> I(b).ok, list |-> I(b).list]
  BY ItemsType DEF TypedItems
<1>1. ASSUME NEW a \in Seq(Byte), \A b \in Seq(Byte) : Len(b) < Len(a) => b \in T
      PROVE  a \in T
  <2> DEFINE n == HeadLength(what, a)
             r == SubSeq(a, n + 1, Len(a))
             x == Item(what, SubSeq(a, 1, n))
  <2>1. I(a) = IF n = 0 THEN [ok |-> a = <<>>, list |-> <<>>] ELSE Before(x, I(r))
    BY ItemsAre
  <2>2. n \in 0 .. Len(a) /\ r \in Seq(Byte) /\ Len(r) = Len(a) - n
    BY HeadLengthIs
  <2>3. n # 0 => x \in A
    BY ItemType
  <2>4. n # 0 => I(a \o c) = Before(x, I(r \o c))
    <3>1. a \o c \in Seq(Byte)
      OBVIOUS
    <3>2. I(a \o c) = LET k == HeadLength(what, a \o c)
                      IN  IF k = 0 THEN [ok |-> a \o c = <<>>, list |-> <<>>]
                          ELSE Before(Item(what, SubSeq(a \o c, 1, k)), I(SubSeq(a \o c, k + 1, Len(a \o c))))
      BY <3>1, ItemsAre
    <3>3. n # 0 => /\ HeadLength(what, a \o c) = n /\ SubSeq(a \o c, 1, n) = SubSeq(a, 1, n)
                   /\ SubSeq(a \o c, n + 1, Len(a \o c)) = r \o c
      BY HeadStays
    <3> HIDE DEF I
    <3> QED BY <3>2, <3>3
  <2> HIDE DEF n, r, x
  <2>5. CASE n = 0
    <3>1. SUFFICES ASSUME I(a).ok PROVE I(a \o c) = Prepend(I(a).list, I(c))
      OBVIOUS
    <3>2. a = <<>> /\ I(a).list = <<>>
      <4> HIDE DEF I
      <4>1. I(a) = [ok |-> a = <<>>, list |-> <<>>]
        BY <2>1, <2>5
      <4>2. I(a).list = <<>>
        BY <4>1
      <4>3. a = <<>>
        <5>1. SUFFICES ASSUME a # <<>> PROVE FALSE
          OBVIOUS
        <5>2. I(a) = [ok |-> FALSE, list |-> <<>>]
          BY <4>1, <5>1
        <5> QED BY <3>1, <5>2
      <4> QED BY <4>2, <4>3
    <3>3. a \o c = c /\ I(c).list \in Seq(A) /\ I(c) = [ok |-> I(c).ok, list |-> I(c).list]
      BY <1>0, <3>2
    <3> HIDE DEF I
    <3>4. <<>> \o I(c).list = I(c).list
      BY <3>3
    <3> QED BY <3>2, <3>3, <3>4 DEF Prepend
  <2>6. CASE n # 0
    <3>1. SUFFICES ASSUME I(a).ok PROVE I(a \o c) = Prepend(I(a).list, I(c))
      OBVIOUS
    <3>2. r \in T
      <4>1. Len(r) < Len(a)
        BY <2>2, <2>6
      <4> HIDE DEF T
      <4> QED BY <1>1, <2>2, <4>1
    <3>3. I(r).list \in Seq(A) /\ I(c).list \in Seq(A)
      BY <1>0, <2>2
    <3>4. I(r).ok => I(r \o c) = Prepend(I(r).list, I(c))
      BY <3>2
    <3> HIDE DEF I, A, T
    <3>5. I(r).ok /\ I(a).list = <<x>> \o I(r).list
      BY <2>1, <2>6, <3>1 DEF Before
    <3>6. I(a \o c) = [ok |-> I(c).ok, list |-> <<x>> \o (I(r).list \o I(c).list)]
      <4>1. I(a \o c) = Before(x, Prepend(I(r).list, I(c)))
        BY <2>4, <2>6, <3>4, <3>5
      <4> DEFINE l == I(r).list
                 m == I(c)
      <4>2. Before(x, Prepend(l, m)) = [ok |-> m.ok, list |-> <<x>> \o (l \o m.list)]
        <5> HIDE DEF l, m
        <5> QED BY BeforePrepended
      <4> QED BY <4>1, <4>2
    <3>7. <<x>> \in Seq(A)
      BY <2>3, <2>6
    <3>8. (<<x>> \o I(r).list) \o I(c).list = <<x>> \o (I(r).list \o I(c).list)
      <4>1. \A l, m, k \in Seq(A) : (l \o m) \o k = l \o (m \o k)
        BY Associative, SMTT(60)
      <4> QED BY <3>3, <3>7, <4>1, Zenon
    <3> QED BY <3>5, <3>6, <3>8 DEF Prepend
  <2> QED BY <2>5, <2>6
<1>2. \A b \in Seq(Byte) : b \in T
  <2> HIDE DEF T
  <2> QED BY <1>1, ByLength
<1> QED BY <1>2

-----------------------------------------------------------------------------
(* The occurrences of a field, and their payloads.                         *)

LEMMA AppendToJoined ==
  ASSUME NEW A, NEW s \in Seq(A), NEW u \in Seq(A), NEW x \in A
  PROVE  s \o Append(u, x) = Append(s \o u, x)
OBVIOUS

LEMMA FlattenConcat ==
  ASSUME NEW A, NEW s \in Seq(Seq(A)), NEW t \in Seq(Seq(A))
  PROVE  FlattenSeq(s \o t) = FlattenSeq(s) \o FlattenSeq(t)
<1> DEFINE n == Len(t)
           B == Seq(A)
           U(k) == SubSeq(t, 1, k)
           T == {k \in 0 .. n : FlattenSeq(s \o U(k)) = FlattenSeq(s) \o FlattenSeq(U(k))}
<1>1. n \in Nat /\ U(n) = t /\ U(0) = <<>>
  OBVIOUS
<1>2. \A k \in 0 .. n : U(k) \in Seq(B)
  <2> HIDE DEF B
  <2>1. t \in Seq(B) /\ \A k \in 0 .. n : \A j \in 1 .. k : t[j] \in B
    BY DEF B
  <2> QED BY <1>1, <2>1, SubSeqProperties
<1>3. \A k \in 1 .. n : U(k) = Append(U(k - 1), t[k]) /\ t[k] \in B
  BY <1>1
<1>4. FlattenSeq(s) \in Seq(A) /\ s \in Seq(B)
  BY FlattenType
<1>5. 0 \in T
  <2> DEFINE f == FlattenSeq(s)
  <2>1. s \o <<>> = s
    OBVIOUS
  <2>2. f \o <<>> = f
    <3>1. f \in Seq(A)
      BY <1>4
    <3> HIDE DEF f
    <3> QED BY <3>1
  <2>3. FlattenSeq(s \o U(0)) = f /\ f \o FlattenSeq(U(0)) = f
    BY <1>1, <2>1, <2>2, FlattenEmpty
  <2> HIDE DEF U, f
  <2>4. 0 \in 0 .. n
    BY <1>1
  <2> QED BY <2>3, <2>4 DEF f
<1>6. ASSUME NEW k \in 1 .. n, k - 1 \in T
      PROVE  k \in T
  <2> DEFINE u == U(k - 1)
             x == t[k]
  <2>1. k - 1 \in 0 .. n /\ k \in 0 .. n
    BY <1>1
  <2>2. u \in Seq(B) /\ x \in B /\ U(k) = Append(u, x)
    BY <1>2, <1>3, <2>1
  <2>3. FlattenSeq(s \o u) = FlattenSeq(s) \o FlattenSeq(u)
    BY <1>6
  <2> HIDE DEF u, x, U
  <2>4. s \o Append(u, x) = Append(s \o u, x) /\ s \o u \in Seq(B)
    <3> HIDE DEF B
    <3> QED BY <1>4, <2>2, AppendToJoined
  <2>5. FlattenSeq(Append(s \o u, x)) = FlattenSeq(s \o u) \o x
    BY <2>2, <2>4, FlattenAppend
  <2>6. FlattenSeq(Append(u, x)) = FlattenSeq(u) \o x /\ FlattenSeq(u) \in Seq(A)
    BY <2>2, FlattenAppend, FlattenType
  <2>7. (FlattenSeq(s) \o FlattenSeq(u)) \o x = FlattenSeq(s) \o (FlattenSeq(u) \o x)
    <3>1. \A p, q, r \in Seq(A) : (p \o q) \o r = p \o (q \o r)
      BY Associative, SMTT(60)
    <3>2. x \in Seq(A)
      BY <2>2
    <3> QED BY <1>4, <2>6, <3>1, <3>2, Zenon
  <2>8. FlattenSeq(s \o U(k)) = FlattenSeq(s) \o FlattenSeq(U(k))
    BY <2>2, <2>3, <2>4, <2>5, <2>6, <2>7
  <2> QED BY <2>1, <2>8
<1>7. n \in T
  <2> HIDE DEF T, n
  <2>1. 0 .. n \subseteq T
    BY <1>1, <1>5, <1>6, Induction
  <2> QED BY <1>1, <2>1
<1> QED BY <1>1, <1>7

Pieces(list, f) == [i \in DOMAIN list |-> IF list[i].num = f THEN <<list[i]>> ELSE <<>>]

LEMMA PiecesType ==
  ASSUME NEW A, NEW list \in Seq(A), NEW f
  PROVE  /\ Pieces(list, f) \in Seq(Seq(A)) /\ Len(Pieces(list, f)) = Len(list)
         /\ Occurrences(list, f) = FlattenSeq(Pieces(list, f))
         /\ Occurrences(list, f) \in Seq(A)
<1>1. Pieces(list, f) \in Seq(Seq(A)) /\ Len(Pieces(list, f)) = Len(list)
  <2> DEFINE B == Seq(A)
  <2>1. \A i \in 1 .. Len(list) : (IF list[i].num = f THEN <<list[i]>> ELSE <<>>) \in B
    OBVIOUS
  <2>2. Len(list) \in Nat /\ DOMAIN list = 1 .. Len(list)
    OBVIOUS
  <2> HIDE DEF B
  <2>3. Pieces(list, f) = [i \in 1 .. Len(list) |-> IF list[i].num = f THEN <<list[i]>> ELSE <<>>]
    BY <2>2 DEF Pieces
  <2>4. Pieces(list, f) \in Seq(B) /\ Len(Pieces(list, f)) = Len(list)
    BY <2>1, <2>2, <2>3
  <2> QED BY <2>4 DEF B
<1>2. Occurrences(list, f) = FlattenSeq(Pieces(list, f))
  BY DEF Occurrences, Pieces
<1>3. FlattenSeq(Pieces(list, f)) \in Seq(A)
  BY <1>1, FlattenType
<1> QED BY <1>1, <1>2, <1>3

LEMMA OccurrencesJoin ==
  ASSUME NEW A, NEW l \in Seq(A), NEW m \in Seq(A), NEW f
  PROVE  Occurrences(l \o m, f) = Occurrences(l, f) \o Occurrences(m, f)
<1> DEFINE d == l \o m
           p == Pieces(l, f)
           q == Pieces(m, f)
           r == Pieces(d, f)
           B == Seq(A)
           v == p \o q
<1>1. d \in Seq(A) /\ Len(d) = Len(l) + Len(m) /\ Len(l) \in Nat /\ Len(m) \in Nat
      /\ (\A i \in 1 .. Len(l) : d[i] = l[i]) /\ \A i \in 1 .. Len(m) : d[Len(l) + i] = m[i]
  BY JoinedTexts
<1> HIDE DEF d
<1>2. /\ p \in Seq(B) /\ Len(p) = Len(l) /\ Occurrences(l, f) = FlattenSeq(p)
      /\ q \in Seq(B) /\ Len(q) = Len(m) /\ Occurrences(m, f) = FlattenSeq(q)
      /\ r \in Seq(B) /\ Len(r) = Len(d) /\ Occurrences(d, f) = FlattenSeq(r)
  BY <1>1, PiecesType
<1>3. /\ \A i \in 1 .. Len(l) : p[i] = IF l[i].num = f THEN <<l[i]>> ELSE <<>>
      /\ \A i \in 1 .. Len(m) : q[i] = IF m[i].num = f THEN <<m[i]>> ELSE <<>>
      /\ \A i \in 1 .. Len(d) : r[i] = IF d[i].num = f THEN <<d[i]>> ELSE <<>>
  BY <1>1 DEF Pieces
<1> HIDE DEF p, q, r, B
<1>4. v \in Seq(B) /\ Len(v) = Len(p) + Len(q)
      /\ (\A i \in 1 .. Len(p) : v[i] = p[i]) /\ \A i \in 1 .. Len(q) : v[Len(p) + i] = q[i]
  <2>1. \A x, y \in Seq(B) :
          /\ x \o y \in Seq(B) /\ Len(x \o y) = Len(x) + Len(y)
          /\ \A i \in 1 .. Len(x) : (x \o y)[i] = x[i]
          /\ \A i \in 1 .. Len(y) : (x \o y)[Len(x) + i] = y[i]
    BY Concatenated
  <2> QED BY <1>2, <2>1, Zenon
<1> HIDE DEF v
<1>5. ASSUME NEW i \in 1 .. Len(d)
      PROVE  r[i] = v[i]
  <2>1. CASE i <= Len(l)
    <3>1. i \in 1 .. Len(l)
      BY <2>1
    <3> QED BY <1>1, <1>2, <1>3, <1>4, <3>1, ZenonT(60)
  <2>2. CASE i > Len(l)
    <3>1. i - Len(l) \in 1 .. Len(m) /\ Len(l) + (i - Len(l)) = i
      BY <1>1, <2>2
    <3>2. v[i] = q[i - Len(l)] /\ d[i] = m[i - Len(l)]
      BY <1>1, <1>2, <1>4, <3>1
    <3> QED BY <1>3, <3>1, <3>2
  <2> QED BY <1>1, <2>1, <2>2
<1>6. r = v
  BY <1>1, <1>2, <1>4, <1>5, SeqEqual
<1>7. FlattenSeq(v) = FlattenSeq(p) \o FlattenSeq(q)
  BY <1>2, FlattenConcat DEF v, B
<1> QED BY <1>2, <1>6, <1>7 DEF d

LEMMA OccurrencesOne ==
  ASSUME NEW A, NEW x \in A, NEW f
  PROVE  /\ Occurrences(<<x>>, f) = IF x.num = f THEN <<x>> ELSE <<>>
         /\ Occurrences(<<>>, f) = <<>>
<1>1. Pieces(<<x>>, f) = <<IF x.num = f THEN <<x>> ELSE <<>>>>
  BY DEF Pieces
<1>2. <<x>> \in Seq(A) /\ <<>> \in Seq(A) /\ (IF x.num = f THEN <<x>> ELSE <<>>) \in Seq(A)
  OBVIOUS
<1>3. Occurrences(<<x>>, f) = FlattenSeq(Pieces(<<x>>, f)) /\ Occurrences(<<>>, f) = FlattenSeq(Pieces(<<>>, f))
  BY <1>2, PiecesType
<1>4. Pieces(<<>>, f) = <<>>
  BY DEF Pieces
<1>5. FlattenSeq(<<IF x.num = f THEN <<x>> ELSE <<>>>>) = IF x.num = f THEN <<x>> ELSE <<>>
  <2> DEFINE s == IF x.num = f THEN <<x>> ELSE <<>>
  <2>1. s \in Seq(A)
    BY <1>2
  <2> HIDE DEF s
  <2>2. FlattenSeq(<<s>>) = s
    BY <2>1, FlattenOne
  <2> QED BY <2>2 DEF s
<1> QED BY <1>1, <1>3, <1>4, <1>5, FlattenEmpty

LEMMA OccurrencesAppend ==
  ASSUME NEW A, NEW l \in Seq(A), NEW x \in A, NEW f
  PROVE  Occurrences(Append(l, x), f) = IF x.num = f THEN Append(Occurrences(l, f), x) ELSE Occurrences(l, f)
<1>1. Append(l, x) = l \o <<x>> /\ <<x>> \in Seq(A)
  OBVIOUS
<1>2. Occurrences(Append(l, x), f) = Occurrences(l, f) \o (IF x.num = f THEN <<x>> ELSE <<>>)
  <2> DEFINE q == <<x>>
  <2>1. Occurrences(l \o q, f) = Occurrences(l, f) \o Occurrences(q, f)
    <3>1. q \in Seq(A)
      BY <1>1
    <3> HIDE DEF q
    <3> QED BY <3>1, OccurrencesJoin
  <2>2. Occurrences(<<x>>, f) = IF x.num = f THEN <<x>> ELSE <<>>
    BY OccurrencesOne
  <2> QED BY <1>1, <2>1, <2>2
<1>3. Occurrences(l, f) \in Seq(A)
  BY PiecesType
<1> DEFINE o == Occurrences(l, f)
<1> HIDE DEF o
<1>4. o \in Seq(A) => o \o <<x>> = Append(o, x) /\ o \o <<>> = o
  OBVIOUS
<1> QED BY <1>2, <1>3, <1>4 DEF o

-----------------------------------------------------------------------------
LEMMA PayloadType ==
  ASSUME NEW x \in Fields
  PROVE  PayloadOf(x) \in Seq(Byte)
<1>1. x.body \in Seq(Byte)
  BY DEF Fields
<1> QED BY <1>1, FieldLengthIs DEF PayloadOf

PayloadSeq(o) == [j \in 1 .. Len(o) |-> PayloadOf(o[j])]

LEMMA PayloadsAre ==
  ASSUME NEW o \in Seq(Fields)
  PROVE  /\ PayloadSeq(o) \in Seq(Seq(Byte)) /\ Len(PayloadSeq(o)) = Len(o)
         /\ \A n \in 0 .. Len(o) : PayloadsUpTo(o, n) = FlattenSeq(SubSeq(PayloadSeq(o), 1, n))
         /\ \A n \in 0 .. Len(o) : PayloadsUpTo(o, n) \in Seq(Byte)
         /\ PayloadsUpTo(o, Len(o)) = FlattenSeq(PayloadSeq(o))
<1> DEFINE s == PayloadSeq(o)
           B == Seq(Byte)
<1>1. Len(o) \in Nat /\ \A j \in 1 .. Len(o) : PayloadOf(o[j]) \in B
  BY PayloadType
<1> HIDE DEF B
<1>2. s \in Seq(B) /\ Len(s) = Len(o) /\ \A j \in 1 .. Len(o) : s[j] = PayloadOf(o[j])
  BY <1>1 DEF PayloadSeq
<1> HIDE DEF s
<1>3. ASSUME NEW n \in 0 .. Len(o)
      PROVE  PayloadsUpTo(o, n) = FlattenSeq(SubSeq(s, 1, n)) /\ PayloadsUpTo(o, n) \in B
  <2> DEFINE u == SubSeq(s, 1, n)
             v == [i \in 1 .. n |-> PayloadOf(o[i])]
  <2>1. u \in Seq(B) /\ Len(u) = n /\ \A i \in 1 .. n : u[i] = s[i]
    BY <1>1, <1>2
  <2>2. v \in Seq(B) /\ Len(v) = n /\ \A i \in 1 .. n : v[i] = s[i]
    BY <1>1, <1>2
  <2>3. PayloadsUpTo(o, n) = FlattenSeq(v)
    BY DEF PayloadsUpTo
  <2> HIDE DEF u, v
  <2>4. u = v
    BY <2>1, <2>2, SeqEqual
  <2>5. FlattenSeq(v) \in B
    BY <2>2, FlattenType DEF B
  <2> QED BY <2>3, <2>4, <2>5 DEF u
<1>4. Len(o) \in 0 .. Len(o) /\ SubSeq(s, 1, Len(o)) = s
  BY <1>1, <1>2
<1>5. PayloadsUpTo(o, Len(o)) = FlattenSeq(s)
  BY <1>3, <1>4
<1> QED BY <1>2, <1>3, <1>5 DEF s, B

LEMMA PayloadsPlaced ==
  ASSUME NEW o \in Seq(Fields), NEW i \in 1 .. Len(o)
  PROVE  /\ PayloadsUpTo(o, i) = PayloadsUpTo(o, i - 1) \o PayloadOf(o[i])
         /\ Len(PayloadOf(o[i])) <= Len(PayloadsUpTo(o, Len(o)))
         /\ Len(PayloadsUpTo(o, i)) <= Len(PayloadsUpTo(o, Len(o)))
<1> DEFINE s == PayloadSeq(o)
           B == Seq(Byte)
<1>1. /\ s \in Seq(B) /\ Len(s) = Len(o)
      /\ \A n \in 0 .. Len(o) : PayloadsUpTo(o, n) = FlattenSeq(SubSeq(s, 1, n))
      /\ PayloadsUpTo(o, Len(o)) = FlattenSeq(s)
  BY PayloadsAre
<1>2. s[i] = PayloadOf(o[i])
  BY DEF PayloadSeq
<1>3. Len(o) \in Nat /\ i \in 0 .. Len(o) /\ i - 1 \in 0 .. Len(o) /\ i \in 1 .. Len(s)
  BY <1>1
<1> HIDE DEF s
<1>4. LET f == FlattenSeq(s)
          before == Len(FlattenSeq(SubSeq(s, 1, i - 1)))
          upto == Len(FlattenSeq(SubSeq(s, 1, i)))
      IN  before \in Nat /\ upto = before + Len(s[i]) /\ upto <= Len(f)
  BY <1>1, <1>3, PiecePlaced
<1>5. SubSeq(s, 1, i) = Append(SubSeq(s, 1, i - 1), s[i]) /\ s[i] \in B /\ SubSeq(s, 1, i - 1) \in Seq(B)
  <2> HIDE DEF B
  <2> QED BY <1>1, <1>3
<1>6. FlattenSeq(SubSeq(s, 1, i)) = FlattenSeq(SubSeq(s, 1, i - 1)) \o s[i]
  BY <1>5, FlattenAppend
<1>7. Len(s[i]) \in Nat
  BY <1>5
<1> DEFINE x == Len(FlattenSeq(SubSeq(s, 1, i - 1)))
           y == Len(FlattenSeq(SubSeq(s, 1, i)))
           z == Len(FlattenSeq(s))
           l == Len(s[i])
<1>8. l <= y /\ y <= z /\ l <= z
  <2>1. x \in Nat /\ y = x + l /\ y <= z
    BY <1>4
  <2>2. z \in Nat
    <3>1. FlattenSeq(s) \in B
      BY <1>1, FlattenType
    <3> QED BY <3>1
  <2> HIDE DEF x, y, z, l
  <2>3. l \in Nat
    BY <1>7 DEF l
  <2> QED BY <2>1, <2>2, <2>3
<1> HIDE DEF B
<1> QED BY <1>1, <1>2, <1>3, <1>6, <1>8

-----------------------------------------------------------------------------
(* The fields of a buffer.                                                 *)
FieldList(bytes) == Items[bytes]["field"].list

LEMMA FieldListType ==
  ASSUME NEW bytes \in Seq(Byte)
  PROVE  FieldList(bytes) \in Seq(Fields) /\ Items[bytes]["field"].ok \in BOOLEAN
<1>1. TypedItems("field", Items[bytes]["field"])
  <2>1. "field" \in {"field"} \cup NumericTypes
    OBVIOUS
  <2> QED BY <2>1, ItemsType
<1> QED BY <1>1 DEF TypedItems, ItemSet, FieldList

Payloads(o) == PayloadsUpTo(o, Len(o))

LEMMA PayloadsJoin ==
  ASSUME NEW o \in Seq(Fields), NEW r \in Seq(Fields)
  PROVE  Payloads(o \o r) = Payloads(o) \o Payloads(r)
<1> DEFINE B == Seq(Byte)
           d == o \o r
           p == PayloadSeq(o)
           q == PayloadSeq(r)
           u == PayloadSeq(d)
           v == p \o q
<1>1. d \in Seq(Fields) /\ Len(d) = Len(o) + Len(r) /\ Len(o) \in Nat /\ Len(r) \in Nat
      /\ (\A i \in 1 .. Len(o) : d[i] = o[i]) /\ \A i \in 1 .. Len(r) : d[Len(o) + i] = r[i]
  BY JoinedTexts
<1> HIDE DEF d
<1>2. /\ p \in Seq(B) /\ Len(p) = Len(o) /\ Payloads(o) = FlattenSeq(p)
      /\ q \in Seq(B) /\ Len(q) = Len(r) /\ Payloads(r) = FlattenSeq(q)
      /\ u \in Seq(B) /\ Len(u) = Len(d) /\ Payloads(d) = FlattenSeq(u)
  BY <1>1, PayloadsAre DEF Payloads
<1>3. /\ \A i \in 1 .. Len(o) : p[i] = PayloadOf(o[i])
      /\ \A i \in 1 .. Len(r) : q[i] = PayloadOf(r[i])
      /\ \A i \in 1 .. Len(d) : u[i] = PayloadOf(d[i])
  BY DEF PayloadSeq
<1> HIDE DEF p, q, u, B
<1>4. v \in Seq(B) /\ Len(v) = Len(p) + Len(q)
      /\ (\A i \in 1 .. Len(p) : v[i] = p[i]) /\ \A i \in 1 .. Len(q) : v[Len(p) + i] = q[i]
  <2>1. \A x, y \in Seq(B) :
          /\ x \o y \in Seq(B) /\ Len(x \o y) = Len(x) + Len(y)
          /\ \A i \in 1 .. Len(x) : (x \o y)[i] = x[i]
          /\ \A i \in 1 .. Len(y) : (x \o y)[Len(x) + i] = y[i]
    BY Concatenated
  <2> QED BY <1>2, <2>1, Zenon
<1> HIDE DEF v
<1>5. ASSUME NEW i \in 1 .. Len(d)
      PROVE  u[i] = v[i]
  <2>1. CASE i <= Len(o)
    <3>1. i \in 1 .. Len(o)
      BY <2>1
    <3> QED BY <1>1, <1>2, <1>3, <1>4, <3>1
  <2>2. CASE i > Len(o)
    <3>1. i - Len(o) \in 1 .. Len(r) /\ Len(o) + (i - Len(o)) = i
      BY <1>1, <2>2
    <3>2. v[i] = q[i - Len(o)] /\ d[i] = r[i - Len(o)]
      BY <1>1, <1>2, <1>4, <3>1
    <3> QED BY <1>3, <3>1, <3>2
  <2> QED BY <1>1, <2>1, <2>2
<1>6. u = v
  BY <1>1, <1>2, <1>4, <1>5, SeqEqual
<1>7. FlattenSeq(v) = FlattenSeq(p) \o FlattenSeq(q)
  BY <1>2, FlattenConcat DEF v, B
<1> QED BY <1>2, <1>6, <1>7 DEF d

LEMMA PayloadsOne ==
  ASSUME NEW x \in Fields
  PROVE  Payloads(<<x>>) = PayloadOf(x) /\ Payloads(<<>>) = <<>>
<1> DEFINE p == PayloadOf(x)
<1>1. <<x>> \in Seq(Fields) /\ Len(<<x>>) = 1 /\ <<x>>[1] = x /\ <<>> \in Seq(Fields) /\ Len(<<>>) = 0
  OBVIOUS
<1>2. p \in Seq(Byte)
  BY PayloadType
<1>3. PayloadSeq(<<x>>) = <<p>>
  BY <1>1 DEF PayloadSeq
<1>4. PayloadSeq(<<>>) = <<>>
  BY <1>1 DEF PayloadSeq
<1>5. Payloads(<<x>>) = FlattenSeq(PayloadSeq(<<x>>)) /\ Payloads(<<>>) = FlattenSeq(PayloadSeq(<<>>))
  BY <1>1, PayloadsAre DEF Payloads
<1> HIDE DEF p
<1>6. FlattenSeq(<<p>>) = p
  BY <1>2, FlattenOne
<1> QED BY <1>3, <1>4, <1>5, <1>6, FlattenEmpty DEF p

(* The payloads of a field are fewer bytes than the buffer has.            *)
LEMMA PayloadsShort ==
  ASSUME NEW f
  PROVE  \A bytes \in Seq(Byte) :
           Len(Payloads(Occurrences(FieldList(bytes), f))) + (IF FieldList(bytes) = <<>> THEN 0 ELSE 1) <= Len(bytes)
<1> DEFINE P(b) == Payloads(Occurrences(FieldList(b), f))
           T == {b \in Seq(Byte) : Len(P(b)) + (IF FieldList(b) = <<>> THEN 0 ELSE 1) <= Len(b)}
<1>0. \A b \in Seq(Byte) : P(b) \in Seq(Byte) /\ Occurrences(FieldList(b), f) \in Seq(Fields)
  <2>1. ASSUME NEW b \in Seq(Byte)
        PROVE  P(b) \in Seq(Byte) /\ Occurrences(FieldList(b), f) \in Seq(Fields)
    <3>1. Occurrences(FieldList(b), f) \in Seq(Fields)
      BY FieldListType, PiecesType
    <3> DEFINE o == Occurrences(FieldList(b), f)
    <3> HIDE DEF o
    <3>2. o \in Seq(Fields) => Payloads(o) \in Seq(Byte)
      <4>1. o \in Seq(Fields) => Len(o) \in 0 .. Len(o)
        OBVIOUS
      <4> QED BY <4>1, PayloadsAre DEF Payloads
    <3> QED BY <3>1, <3>2 DEF o
  <2> QED BY <2>1
<1>1. ASSUME NEW b \in Seq(Byte), \A c \in Seq(Byte) : Len(c) < Len(b) => c \in T
      PROVE  b \in T
  <2> DEFINE n == HeadLength("field", b)
             r == SubSeq(b, n + 1, Len(b))
             x == Item("field", SubSeq(b, 1, n))
             o == Occurrences(FieldList(r), f)
             y == IF x.num = f THEN <<x>> ELSE <<>>
  <2>0. "field" \in {"field"} \cup NumericTypes
    OBVIOUS
  <2>1. FieldList(b) = IF n = 0 THEN <<>> ELSE <<x>> \o FieldList(r)
    <3>1. Items[b]["field"] = IF n = 0 THEN [ok |-> b = <<>>, list |-> <<>>] ELSE Before(x, Items[r]["field"])
      BY <2>0, ItemsAre
    <3> HIDE DEF n, x, r
    <3> QED BY <3>1 DEF FieldList, Before
  <2>2. n \in 0 .. Len(b) /\ r \in Seq(Byte) /\ Len(r) = Len(b) - n
    BY <2>0, HeadLengthIs
  <2>3. n # 0 => x \in Fields /\ PayloadOf(x) \in Seq(Byte) /\ Len(PayloadOf(x)) < n
    BY <2>0, ItemType DEF ItemSet
  <2> HIDE DEF n, r, x
  <2>4. CASE n = 0
    <3>1. FieldList(b) = <<>> /\ P(b) = <<>>
      <4>1. FieldList(b) = <<>>
        BY <2>1, <2>4
      <4>2. Occurrences(<<>>, f) = <<>> /\ Payloads(<<>>) = <<>>
        BY FlattenEmpty DEF Occurrences, Payloads, PayloadsUpTo
      <4> QED BY <4>1, <4>2
    <3> QED BY <3>1
  <2>5. CASE n # 0
    <3>1. x \in Fields /\ <<x>> \in Seq(Fields) /\ FieldList(r) \in Seq(Fields) /\ o \in Seq(Fields) /\ y \in Seq(Fields)
      BY <1>0, <2>2, <2>3, <2>5, FieldListType
    <3>2. Occurrences(FieldList(b), f) = y \o o
      <4> DEFINE q == <<x>>
                 l == FieldList(r)
      <4>1. Occurrences(q, f) = y
        BY <3>1, OccurrencesOne
      <4>2. Occurrences(q \o l, f) = Occurrences(q, f) \o Occurrences(l, f)
        <5>1. q \in Seq(Fields) /\ l \in Seq(Fields)
          BY <3>1
        <5> HIDE DEF q, l
        <5> QED BY <5>1, OccurrencesJoin
      <4> QED BY <2>1, <2>5, <4>1, <4>2
    <3>3. P(b) = Payloads(y) \o Payloads(o)
      <4>1. P(b) = Payloads(y \o o)
        BY <3>2
      <4> HIDE DEF y, o, P
      <4> QED BY <3>1, <4>1, PayloadsJoin
    <3>4. Payloads(y) \in Seq(Byte) /\ Len(Payloads(y)) < n
      <4>1. Payloads(<<x>>) = PayloadOf(x) /\ Payloads(<<>>) = <<>>
        BY <3>1, PayloadsOne
      <4>2. CASE x.num = f
        BY <2>3, <2>5, <4>1, <4>2
      <4>3. CASE x.num # f
        <5>1. Payloads(y) = <<>>
          BY <4>1, <4>3
        <5>2. n > 0
          BY <2>2, <2>5
        <5>3. <<>> \in Seq(Byte) /\ Len(<<>>) = 0
          OBVIOUS
        <5> HIDE DEF y
        <5>4. Payloads(y) \in Seq(Byte) /\ Len(Payloads(y)) = 0
          BY <5>1, <5>3
        <5> QED BY <5>2, <5>4
      <4> QED BY <4>2, <4>3
    <3>5. Len(Payloads(o)) <= Len(r) /\ Payloads(o) \in Seq(Byte)
      <4>1. r \in T
        <5>1. Len(r) < Len(b)
          BY <2>2, <2>5
        <5> HIDE DEF T
        <5> QED BY <1>1, <2>2, <5>1
      <4>2. Payloads(o) \in Seq(Byte)
        BY <1>0, <2>2
      <4> DEFINE z == Len(Payloads(o))
      <4>3. z \in Nat /\ z + (IF FieldList(r) = <<>> THEN 0 ELSE 1) <= Len(r)
        BY <4>1, <4>2
      <4>4. z <= Len(r)
        <5> HIDE DEF z
        <5>1. Len(r) \in Nat
          BY <2>2
        <5> QED BY <4>3, <5>1
      <4> QED BY <4>2, <4>4
    <3> DEFINE p == Payloads(y)
               q == Payloads(o)
    <3> HIDE DEF p, q, P
    <3>6. Len(P(b)) = Len(p) + Len(q) /\ Len(p) \in Nat /\ Len(q) \in Nat
      <4>1. p \in Seq(Byte) /\ q \in Seq(Byte)
        BY <3>4, <3>5 DEF p, q
      <4> QED BY <3>3, <4>1, JoinedTexts DEF p, q
    <3>7. Len(p) < n /\ Len(q) <= Len(b) - n
      BY <2>2, <3>4, <3>5 DEF p, q
    <3>8. Len(P(b)) + 1 <= Len(b)
      BY <2>2, <3>6, <3>7
    <3>9. Len(P(b)) + (IF FieldList(b) = <<>> THEN 0 ELSE 1) <= Len(b)
      BY <2>2, <3>6, <3>7
    <3> QED BY <3>9
  <2> QED BY <2>4, <2>5
<1>2. \A b \in Seq(Byte) : b \in T
  <2> HIDE DEF T
  <2> QED BY <1>1, ByLength
<1> QED BY <1>2

(* The bytes that a sub-message is decoded from.                           *)
LEMMA SourceShort ==
  ASSUME NEW bytes \in Seq(Byte), NEW f, NEW kind, NEW i \in DOMAIN Occurrences(FieldList(bytes), f)
  PROVE  LET s == Source(kind, Occurrences(FieldList(bytes), f), i)
         IN  s \in Seq(Byte) /\ Len(s) < Len(bytes)
<1> DEFINE o == Occurrences(FieldList(bytes), f)
           s == Source(kind, o, i)
<1>1. o \in Seq(Fields)
  BY FieldListType, PiecesType
<1>2. i \in 1 .. Len(o)
  <2> HIDE DEF o
  <2>1. DOMAIN o = 1 .. Len(o)
    BY <1>1
  <2> QED BY <2>1 DEF o
<1>3. Len(Payloads(o)) + (IF FieldList(bytes) = <<>> THEN 0 ELSE 1) <= Len(bytes)
  BY PayloadsShort
<1>4. FieldList(bytes) # <<>>
  <2>1. Occurrences(<<>>, f) = <<>>
    BY FlattenEmpty DEF Occurrences
  <2>2. FieldList(bytes) = <<>> => o = <<>>
    BY <2>1
  <2> HIDE DEF o
  <2> QED BY <1>2, <2>2
<1> HIDE DEF o
<1>5. Payloads(o) \in Seq(Byte)
  <2>1. Len(o) \in 0 .. Len(o)
    BY <1>1
  <2> QED BY <1>1, <2>1, PayloadsAre DEF Payloads
<1>6. Len(Payloads(o)) < Len(bytes)
  <2>1. Len(Payloads(o)) \in Nat
    BY <1>5
  <2> QED BY <1>3, <1>4, <2>1
<1>7. s \in Seq(Byte) /\ Len(s) <= Len(Payloads(o))
  <2>1. Len(PayloadOf(o[i])) <= Len(Payloads(o)) /\ Len(PayloadsUpTo(o, i)) <= Len(Payloads(o))
    BY <1>1, <1>2, PayloadsPlaced DEF Payloads
  <2>2. PayloadsUpTo(o, i) \in Seq(Byte)
    <3>1. i \in 0 .. Len(o)
      BY <1>2
    <3> QED BY <1>1, <3>1, PayloadsAre
  <2>3. PayloadOf(o[i]) \in Seq(Byte)
    BY <1>1, <1>2, PayloadType
  <2> QED BY <2>1, <2>2, <2>3 DEF Source
<1>8. Len(s) \in Nat /\ Len(Payloads(o)) \in Nat
  BY <1>5, <1>7
<1> QED BY <1>6, <1>7, <1>8 DEF s, o

-----------------------------------------------------------------------------
(* What an occurrence of each kind is.                                     *)
LEMMA OccurrenceIs ==
  ASSUME NEW d, NEW F, NEW list, NEW i
  PROVE  LET r == Occurrence(d, F, list, i)
             x == list[i]
         IN  /\ F.kind = "scalar" => r = Number(F.type, x)
             /\ F.kind = "repeated" => r = Numbers(F.type, x)
             /\ F.kind \in {"bytearray", "repeated_bytearray"} =>
                  r = IF x.wire = Delimited THEN Ok(PayloadOf(x)) ELSE Bad
             /\ F.kind \in {"message", "repeated_message", "map"} =>
                  r = IF x.wire = Delimited THEN d[Source(F.kind, list, i)][F.type] ELSE Bad
<1> DEFINE r == Occurrence(d, F, list, i)
           x == list[i]
<1>1. CASE F.kind = "scalar"
  BY <1>1 DEF Occurrence
<1>2. CASE F.kind = "repeated"
  BY <1>2 DEF Occurrence
<1>3. CASE F.kind \in {"bytearray", "repeated_bytearray"}
  <2>1. CASE x.wire = Delimited
    BY <1>3, <2>1 DEF Occurrence
  <2>2. CASE x.wire # Delimited
    BY <1>3, <2>2 DEF Occurrence
  <2> QED BY <1>3, <2>1, <2>2
<1>4. CASE F.kind \in {"message", "repeated_message", "map"}
  <2>1. CASE x.wire = Delimited
    <3>1. r = d[Source(F.kind, list, i)][F.type]
      BY <1>4, <2>1 DEF Occurrence
    <3> QED BY <1>4, <2>1, <3>1
  <2>2. CASE x.wire # Delimited
    <3>1. r = Bad
      BY <1>4, <2>2 DEF Occurrence
    <3> QED BY <1>4, <2>2, <3>1
  <2> QED BY <1>4, <2>1, <2>2
<1> QED BY <1>1, <1>2, <1>3, <1>4

(* Decode is defined for all strings.                                      *)
LEMMA DecodeIs ==
  ASSUME NEW bytes \in Seq(Byte), NEW t \in DOMAIN Schema
  PROVE  Decode[bytes][t] =
           LET fields == Items[bytes]["field"]
               obj == ObjectOf(Decode, t, fields.list)
           IN  IF fields.ok /\ obj.ok /\ Required(t) \subseteq obj.val.has THEN obj ELSE Bad
<1>1. ASSUME NEW x \in Seq(Byte), NEW g, NEW h,
             \A y \in Seq(Byte) : LengthRank[y] < LengthRank[x] => g[y] = h[y]
      PROVE  UnfoldDecode(g, x) = UnfoldDecode(h, x)
  <2>1. ASSUME NEW u \in DOMAIN Schema
        PROVE  UnfoldMessage(g, x, u) = UnfoldMessage(h, x, u)
    <3> DEFINE list == FieldList(x)
    <3>1. ASSUME NEW f \in DOMAIN Schema[u], NEW i \in DOMAIN Occurrences(list, f)
          PROVE  Occurrence(g, Schema[u][f], Occurrences(list, f), i) = Occurrence(h, Schema[u][f], Occurrences(list, f), i)
      <4> DEFINE F == Schema[u][f]
                 o == Occurrences(list, f)
                 s == Source(F.kind, o, i)
      <4>1. s \in Seq(Byte) /\ Len(s) < Len(x)
        BY SourceShort
      <4>2. g[s] = h[s]
        <5> HIDE DEF s
        <5>1. LengthRank[s] < LengthRank[x]
          BY <4>1 DEF LengthRank
        <5> QED BY <1>1, <4>1, <5>1
      <4>3. F.kind \in Kinds
        BY SchemaAssumption
      <4> HIDE DEF F, o
      <4>4. Occurrence(g, F, o, i) = Occurrence(h, F, o, i)
        BY <4>2, <4>3, OccurrenceIs DEF Kinds
      <4> QED BY <4>4 DEF F, o
    <3>2. ASSUME NEW f \in DOMAIN Schema[u]
          PROVE  FieldValue(g, Schema[u][f], Blank[u].val[f], Occurrences(list, f))
                   = FieldValue(h, Schema[u][f], Blank[u].val[f], Occurrences(list, f))
      <4> DEFINE F == Schema[u][f]
                 o == Occurrences(list, f)
                 a == [i \in DOMAIN o |-> Occurrence(g, F, o, i)]
                 b == [i \in DOMAIN o |-> Occurrence(h, F, o, i)]
      <4>1. \A i \in DOMAIN o : Occurrence(g, F, o, i) = Occurrence(h, F, o, i)
        BY <3>1
      <4> HIDE DEF F, o
      <4>2. a = b
        BY <4>1
      <4>3. FieldValue(g, F, Blank[u].val[f], o) = FieldValue(h, F, Blank[u].val[f], o)
        BY <4>2 DEF FieldValue
      <4> QED BY <4>3 DEF F, o
    <3> DEFINE a == [f \in DOMAIN Schema[u] |-> FieldValue(g, Schema[u][f], Blank[u].val[f], Occurrences(list, f))]
               b == [f \in DOMAIN Schema[u] |-> FieldValue(h, Schema[u][f], Blank[u].val[f], Occurrences(list, f))]
    <3>3. a = b
      BY <3>2
    <3>4. ObjectOf(g, u, list) = ObjectOf(h, u, list)
      BY <3>3 DEF ObjectOf
    <3> HIDE DEF a, b
    <3> QED BY <3>4 DEF UnfoldMessage, FieldList
  <2> QED BY <2>1 DEF UnfoldDecode
<1>2. Local("decode", LengthRank)
  BY <1>1, UnfoldIs DEF Local
<1>3. \E f : f = [x \in Seq(Byte) |-> UnfoldDecode(f, x)]
  <2>1. LengthRank \in [Arguments("decode") -> Nat]
    BY UnfoldIs DEF LengthRank
  <2>2. \E f : f = [x \in Arguments("decode") |-> Unfold("decode", f, x)]
    BY <1>2, <2>1, Unfolds
  <2> QED BY <2>2, UnfoldIs
<1>4. Decode = [x \in Seq(Byte) |-> UnfoldDecode(Decode, x)]
  <2>1. Decode = CHOOSE f : f = [x \in Seq(Byte) |-> UnfoldDecode(f, x)]
    BY DEF Decode, UnfoldDecode, UnfoldMessage
  <2> QED BY <1>3, <2>1
<1>5. Decode[bytes][t] = UnfoldMessage(Decode, bytes, t)
  BY <1>4 DEF UnfoldDecode
<1> QED BY <1>5 DEF UnfoldMessage, Accepted

-----------------------------------------------------------------------------
(* A result is that of a fault, or a value.                                *)
Result(r) == r = Bad \/ r = Ok(r.val)

LEMMA ResultIs ==
  ASSUME NEW r, Result(r)
  PROVE  /\ r.ok \in BOOLEAN
         /\ r.ok => r = Ok(r.val)
         /\ ~r.ok => r = Bad
<1>1. CASE r = Bad
  <2>1. r.ok = FALSE
    BY <1>1 DEF Bad
  <2> QED BY <1>1, <2>1
<1>2. CASE r = Ok(r.val)
  <2>1. r.ok = TRUE
    BY <1>2 DEF Ok
  <2> QED BY <1>2, <2>1
<1> QED BY <1>1, <1>2 DEF Result

LEMMA OkIs ==
  ASSUME NEW v
  PROVE  /\ Ok(v).ok = TRUE /\ Ok(v).val = v /\ Result(Ok(v))
         /\ Bad.ok = FALSE /\ Result(Bad)
         /\ \A w : Ok(v) = Ok(w) => v = w
BY DEF Ok, Bad, Result

ValidField(F) ==
  /\ F.kind \in Kinds
  /\ F.kind \in {"scalar", "repeated"} => F.type \in NumericTypes
  /\ F.kind \in {"message", "repeated_message", "map"} => F.type \in DOMAIN Schema

LEMMA FieldsValid ==
  ASSUME NEW t \in DOMAIN Schema, NEW f \in DOMAIN Schema[t]
  PROVE  ValidField(Schema[t][f])
BY SchemaAssumption DEF ValidField

LEMMA ObjectResult ==
  ASSUME NEW d, NEW t, NEW list
  PROVE  Result(ObjectOf(d, t, list))
<1> DEFINE value == [f \in DOMAIN Schema[t] |-> FieldValue(d, Schema[t][f], Blank[t].val[f], Occurrences(list, f))]
           obj == [ has |-> {f \in Flagged(t) : Occurrences(list, f) # <<>>},
                    val |-> [f \in DOMAIN Schema[t] |-> value[f].val] ]
<1>1. ObjectOf(d, t, list) = IF \A f \in DOMAIN Schema[t] : value[f].ok THEN Ok(obj) ELSE Bad
  BY DEF ObjectOf, Assembled
<1> HIDE DEF value, obj
<1> QED BY <1>1, OkIs

LEMMA DecodeResult ==
  ASSUME NEW bytes \in Seq(Byte), NEW t \in DOMAIN Schema
  PROVE  Result(Decode[bytes][t])
<1> DEFINE fields == Items[bytes]["field"]
           obj == ObjectOf(Decode, t, fields.list)
<1>1. Decode[bytes][t] = IF fields.ok /\ obj.ok /\ Required(t) \subseteq obj.val.has THEN obj ELSE Bad
  BY DecodeIs
<1>2. Result(obj)
  BY ObjectResult
<1> HIDE DEF fields, obj
<1> QED BY <1>1, <1>2, OkIs

LEMMA OccurrenceResult ==
  ASSUME NEW F, ValidField(F), NEW list \in Seq(Fields), NEW i \in DOMAIN list
  PROVE  Result(Occurrence(Decode, F, list, i))
<1> DEFINE r == Occurrence(Decode, F, list, i)
           x == list[i]
<1>0. x \in Fields /\ i \in 0 .. Len(list)
  OBVIOUS
<1>1. CASE F.kind = "scalar"
  <2>1. r = Number(F.type, x)
    BY <1>1, OccurrenceIs
  <2>2. Result(Number(F.type, x))
    <3> DEFINE p == ParseScalar(F.type, x.wire, x.body, 0, Len(x.body))
    <3>1. Number(F.type, x) = IF p.err = "none" THEN Ok(p.val) ELSE Bad
      BY DEF Number
    <3> HIDE DEF p
    <3> QED BY <3>1, OkIs
  <2> QED BY <2>1, <2>2
<1>2. CASE F.kind = "repeated"
  <2>1. r = Numbers(F.type, x)
    BY <1>2, OccurrenceIs
  <2>2. \E b, c, v, w : Numbers(F.type, x) =
          IF b THEN IF c THEN Ok(v) ELSE Bad ELSE IF Number(F.type, x).ok THEN Ok(w) ELSE Bad
    BY DEF Numbers
  <2>3. Result(Numbers(F.type, x))
    BY <2>2, OkIs
  <2> QED BY <2>1, <2>3
<1>3. CASE F.kind \in {"bytearray", "repeated_bytearray"}
  <2>1. r = IF x.wire = Delimited THEN Ok(PayloadOf(x)) ELSE Bad
    BY <1>3, OccurrenceIs
  <2> QED BY <2>1, OkIs
<1>4. CASE F.kind \in {"message", "repeated_message", "map"}
  <2> DEFINE s == Source(F.kind, list, i)
  <2>1. r = IF x.wire = Delimited THEN Decode[s][F.type] ELSE Bad
    BY <1>4, OccurrenceIs
  <2>2. s \in Seq(Byte)
    BY <1>0, PayloadsAre, PayloadType DEF Source
  <2>3. Result(Decode[s][F.type])
    <3>1. F.type \in DOMAIN Schema
      BY <1>4 DEF ValidField
    <3> HIDE DEF s
    <3> QED BY <2>2, <3>1, DecodeResult
  <2> QED BY <2>1, <2>3, OkIs
<1> QED BY <1>1, <1>2, <1>3, <1>4 DEF ValidField, Kinds

(* An occurrence does not depend on what follows it.                       *)
LEMMA OccurrenceStays ==
  ASSUME NEW d, NEW F, F.kind \in Kinds, NEW o \in Seq(Fields), NEW r \in Seq(Fields), NEW i \in DOMAIN o
  PROVE  Occurrence(d, F, o \o r, i) = Occurrence(d, F, o, i)
<1> DEFINE w == o \o r
<1>1. w \in Seq(Fields) /\ Len(w) = Len(o) + Len(r) /\ \A j \in 1 .. Len(o) : w[j] = o[j]
  BY Concatenated
<1>2. i \in 1 .. Len(o) /\ Len(o) \in Nat
  OBVIOUS
<1> HIDE DEF w
<1>3. w[i] = o[i]
  BY <1>1, <1>2
<1>4. PayloadsUpTo(w, i) = PayloadsUpTo(o, i)
  <2>1. [j \in 1 .. i |-> PayloadOf(w[j])] = [j \in 1 .. i |-> PayloadOf(o[j])]
    BY <1>1, <1>2
  <2> QED BY <2>1 DEF PayloadsUpTo
<1>5. Source(F.kind, w, i) = Source(F.kind, o, i)
  BY <1>3, <1>4 DEF Source
<1>6. Occurrence(d, F, w, i) = Occurrence(d, F, o, i)
  BY <1>3, <1>5, OccurrenceIs DEF Kinds
<1> QED BY <1>6 DEF w

-----------------------------------------------------------------------------
LEMMA FieldValueIs ==
  ASSUME NEW d, NEW F, NEW default, NEW list
  PROVE  LET vals == [i \in DOMAIN list |-> Occurrence(d, F, list, i).val]
         IN  /\ (\A i \in DOMAIN list : Occurrence(d, F, list, i).ok) =>
                  FieldValue(d, F, default, list) = Ok(Gathered(F.kind, default, vals))
             /\ (\E i \in DOMAIN list : ~Occurrence(d, F, list, i).ok) => FieldValue(d, F, default, list) = Bad
<1> DEFINE result == [i \in DOMAIN list |-> Occurrence(d, F, list, i)]
           vals == [i \in DOMAIN list |-> Occurrence(d, F, list, i).val]
<1>1. \A i \in DOMAIN list : result[i] = Occurrence(d, F, list, i)
  OBVIOUS
<1>2. FieldValue(d, F, default, list) =
        IF \A i \in DOMAIN list : result[i].ok
        THEN Ok(Gathered(F.kind, default, [i \in DOMAIN list |-> result[i].val])) ELSE Bad
  <2>1. FieldValue(d, F, default, list) = Collected(F.kind, default, result)
    BY DEF FieldValue
  <2>2. DOMAIN result = DOMAIN list
    OBVIOUS
  <2> HIDE DEF result
  <2> QED BY <2>1, <2>2 DEF Collected
<1>3. [i \in DOMAIN list |-> result[i].val] = vals
  BY <1>1
<1> HIDE DEF result, vals
<1>4. (\A i \in DOMAIN list : Occurrence(d, F, list, i).ok) => FieldValue(d, F, default, list) = Ok(Gathered(F.kind, default, vals))
  BY <1>1, <1>2, <1>3
<1>5. (\E i \in DOMAIN list : ~Occurrence(d, F, list, i).ok) => FieldValue(d, F, default, list) = Bad
  BY <1>1, <1>2, <1>3
<1> QED BY <1>4, <1>5 DEF vals

LEMMA FieldValueResult ==
  ASSUME NEW d, NEW F, NEW default, NEW list
  PROVE  /\ Result(FieldValue(d, F, default, list))
         /\ FieldValue(d, F, default, list).ok <=> \A i \in DOMAIN list : Occurrence(d, F, list, i).ok
<1> DEFINE vals == [i \in DOMAIN list |-> Occurrence(d, F, list, i).val]
           v == Gathered(F.kind, default, vals)
<1>1. /\ (\A i \in DOMAIN list : Occurrence(d, F, list, i).ok) => FieldValue(d, F, default, list) = Ok(v)
      /\ (\E i \in DOMAIN list : ~Occurrence(d, F, list, i).ok) => FieldValue(d, F, default, list) = Bad
  BY FieldValueIs
<1> HIDE DEF v
<1> QED BY <1>1, OkIs

(* A fault stays a fault, whatever follows.                                *)
LEMMA FieldValueShortens ==
  ASSUME NEW d, NEW F, F.kind \in Kinds, NEW default, NEW o \in Seq(Fields), NEW r \in Seq(Fields),
         FieldValue(d, F, default, o \o r).ok
  PROVE  FieldValue(d, F, default, o).ok
<1> DEFINE w == o \o r
<1>1. w \in Seq(Fields) /\ Len(w) = Len(o) + Len(r)
  BY Concatenated
<1>2. \A i \in DOMAIN o : Occurrence(d, F, w, i) = Occurrence(d, F, o, i)
  BY OccurrenceStays
<1>3. \A i \in DOMAIN o : i \in DOMAIN w
  BY <1>1
<1>4. \A i \in DOMAIN w : Occurrence(d, F, w, i).ok
  BY FieldValueResult
<1> HIDE DEF w
<1>5. \A i \in DOMAIN o : Occurrence(d, F, o, i).ok
  BY <1>2, <1>3, <1>4
<1> QED BY <1>5, FieldValueResult

-----------------------------------------------------------------------------
(* What one more occurrence adds to the value of a field.                  *)
Extended(kind, old, v) ==
  CASE kind = "repeated" -> old \o v
    [] kind \in {"repeated_bytearray", "repeated_message"} -> Append(old, v)
    [] kind = "map" /\ {1, 2} \subseteq v.has ->
         [k \in DOMAIN old \cup {v.val[1]} |-> IF k = v.val[1] THEN v.val[2] ELSE old[k]]
    [] kind = "map" /\ ~({1, 2} \subseteq v.has) -> old
    [] kind \in {"scalar", "bytearray", "message"} -> v

LEMMA ExtendedIs ==
  ASSUME NEW old, NEW v, NEW kind
  PROVE  /\ kind = "repeated" => Extended(kind, old, v) = old \o v
         /\ kind \in {"repeated_bytearray", "repeated_message"} => Extended(kind, old, v) = Append(old, v)
         /\ kind \in {"scalar", "bytearray", "message"} => Extended(kind, old, v) = v
<1>1. CASE kind = "repeated"
  BY <1>1 DEF Extended
<1>2. CASE kind \in {"repeated_bytearray", "repeated_message"}
  BY <1>2 DEF Extended
<1>4. CASE kind \in {"scalar", "bytearray", "message"}
  BY <1>4 DEF Extended
<1>5. CASE kind \notin {"repeated", "repeated_bytearray", "repeated_message", "scalar", "bytearray", "message"}
  BY <1>5
<1> QED BY <1>1, <1>2, <1>4, <1>5

LEMMA ExtendedMap ==
  ASSUME NEW old, NEW v
  PROVE  Extended("map", old, v) =
           IF {1, 2} \subseteq v.has
           THEN [k \in DOMAIN old \cup {v.val[1]} |-> IF k = v.val[1] THEN v.val[2] ELSE old[k]] ELSE old
<1>1. CASE {1, 2} \subseteq v.has
  BY <1>1 DEF Extended
<1>2. CASE ~({1, 2} \subseteq v.has)
  BY <1>2 DEF Extended
<1> QED BY <1>1, <1>2

LEMMA GatheredIs ==
  ASSUME NEW default, NEW vals, NEW kind
  PROVE  /\ kind = "repeated" => Gathered(kind, default, vals) = FlattenSeq(vals)
         /\ kind \in {"repeated_bytearray", "repeated_message"} => Gathered(kind, default, vals) = vals
         /\ kind = "map" => Gathered(kind, default, vals) = Latest(vals)
         /\ kind \in {"scalar", "bytearray", "message"} =>
              Gathered(kind, default, vals) = IF vals = <<>> THEN default ELSE Last(vals)
<1>1. CASE kind = "repeated"
  BY <1>1 DEF Gathered
<1>2. CASE kind \in {"repeated_bytearray", "repeated_message"}
  BY <1>2 DEF Gathered
<1>3. CASE kind = "map"
  BY <1>3 DEF Gathered
<1>4. CASE kind \in {"scalar", "bytearray", "message"}
  BY <1>4 DEF Gathered
<1> QED BY <1>1, <1>2, <1>3, <1>4

(* The greatest of some numbers, when the last of them is one.             *)
LEMMA LastIsGreatest ==
  ASSUME NEW n \in Nat, NEW M, M \subseteq 0 .. n, n \in M
  PROVE  Max(M) = n
<1>1. Max(M) \in M /\ \A y \in M : Max(M) >= y
  BY GreatestNatural
<1> DEFINE m == Max(M)
<1>2. m \in 0 .. n /\ m >= n
  BY <1>1
<1> HIDE DEF m
<1>3. m = n
  BY <1>2
<1> QED BY <1>3 DEF m

Whole(entries) == {i \in DOMAIN entries : {1, 2} \subseteq entries[i].has}
At(entries, k) == {i \in Whole(entries) : entries[i].val[1] = k}

LEMMA LatestAppend ==
  ASSUME NEW V, NEW entries \in Seq(V), NEW v \in V
  PROVE  Latest(Append(entries, v)) =
           LET old == Latest(entries)
           IN  IF {1, 2} \subseteq v.has
               THEN [k \in DOMAIN old \cup {v.val[1]} |-> IF k = v.val[1] THEN v.val[2] ELSE old[k]] ELSE old
<1> DEFINE w == Append(entries, v)
           n == Len(entries)
           K(s) == {s[i].val[1] : i \in Whole(s)}
           new == {1, 2} \subseteq v.has
<1>1. /\ n \in Nat /\ w \in Seq(V) /\ DOMAIN w = 1 .. n + 1 /\ DOMAIN entries = 1 .. n
      /\ w[n + 1] = v /\ \A i \in 1 .. n : w[i] = entries[i]
  BY AppendIs
<1>2. \A s : Latest(s) = [k \in K(s) |-> s[Max(At(s, k))].val[2]]
  BY DEF Latest, Whole, At
<1> HIDE DEF w, n
<1>3. \A i \in 1 .. n + 1 : i \in 1 .. n \/ i = n + 1
  BY <1>1
<1>4. \A i \in 1 .. n : i \in 1 .. n + 1
  BY <1>1
<1>5. Whole(w) = Whole(entries) \cup (IF new THEN {n + 1} ELSE {})
  <2>1. ASSUME NEW i \in 1 .. n
        PROVE  i \in Whole(w) <=> i \in Whole(entries)
    BY <1>1, <1>4 DEF Whole
  <2>2. n + 1 \in Whole(w) <=> new
    <3>1. n + 1 \in DOMAIN w
      BY <1>1
    <3> QED BY <1>1, <3>1 DEF Whole
  <2>3. Whole(entries) \subseteq 1 .. n /\ Whole(w) \subseteq 1 .. n + 1
    BY <1>1 DEF Whole
  <2> HIDE DEF new
  <2> QED BY <1>3, <1>4, <2>1, <2>2, <2>3
<1>6. Whole(entries) \subseteq 1 .. n
  BY <1>1 DEF Whole
<1>7. \A i \in Whole(entries) : w[i] = entries[i]
  BY <1>1, <1>6
<1>8. \A k : At(w, k) = At(entries, k) \cup (IF new /\ v.val[1] = k THEN {n + 1} ELSE {})
  <2> HIDE DEF new
  <2> QED BY <1>1, <1>5, <1>7 DEF At
<1>9. K(w) = K(entries) \cup (IF new THEN {v.val[1]} ELSE {})
  <2> HIDE DEF new
  <2> QED BY <1>1, <1>5, <1>7
<1>10. ASSUME NEW k \in K(w), ~(new /\ v.val[1] = k)
       PROVE  k \in K(entries) /\ w[Max(At(w, k))].val[2] = entries[Max(At(entries, k))].val[2]
  <2>1. At(w, k) = At(entries, k)
    BY <1>8, <1>10
  <2>2. k \in K(entries)
    BY <1>9, <1>10
  <2>3. At(entries, k) # {} /\ At(entries, k) \subseteq 0 .. n
    BY <1>1, <1>6, <2>2 DEF At
  <2>4. Max(At(entries, k)) \in At(entries, k)
    BY <1>1, <2>3, GreatestNatural
  <2>5. w[Max(At(entries, k))] = entries[Max(At(entries, k))]
    BY <1>7, <2>4 DEF At
  <2> QED BY <2>1, <2>2, <2>5
<1>11. ASSUME NEW k, new, v.val[1] = k
       PROVE  w[Max(At(w, k))].val[2] = v.val[2]
  <2>1. n + 1 \in At(w, k)
    BY <1>8, <1>11
  <2>2. At(w, k) \subseteq 0 .. n + 1
    BY <1>1 DEF At, Whole
  <2>3. Max(At(w, k)) = n + 1
    BY <1>1, <2>1, <2>2, LastIsGreatest
  <2> QED BY <1>1, <2>3
<1> DEFINE old == Latest(entries)
<1>12. DOMAIN old = K(entries) /\ \A k \in K(entries) : old[k] = entries[Max(At(entries, k))].val[2]
  BY <1>2
<1>13. CASE new
  <2>1. Latest(w) = [k \in K(w) |-> w[Max(At(w, k))].val[2]]
    BY <1>2
  <2>2. K(w) = DOMAIN old \cup {v.val[1]}
    BY <1>9, <1>12, <1>13
  <2>3. ASSUME NEW k \in K(w)
        PROVE  w[Max(At(w, k))].val[2] = IF k = v.val[1] THEN v.val[2] ELSE old[k]
    <3> HIDE DEF old, K
    <3> QED BY <1>10, <1>11, <1>12, <1>13
  <2> HIDE DEF old, K, new
  <2>4. Latest(w) = [k \in DOMAIN old \cup {v.val[1]} |-> IF k = v.val[1] THEN v.val[2] ELSE old[k]]
    BY <2>1, <2>2, <2>3
  <2> QED BY <1>13, <2>4 DEF old, new, w
<1>14. CASE ~new
  <2>1. K(w) = K(entries)
    BY <1>9, <1>14
  <2>2. \A k \in K(w) : w[Max(At(w, k))].val[2] = entries[Max(At(entries, k))].val[2]
    <3> HIDE DEF K
    <3> QED BY <1>10, <1>14
  <2>3. Latest(w) = Latest(entries)
    <3> HIDE DEF K
    <3> QED BY <1>2, <2>1, <2>2
  <2> QED BY <1>14, <2>3 DEF w
<1> QED BY <1>13, <1>14

-----------------------------------------------------------------------------
LEMMA AppendedOne ==
  ASSUME NEW A
  PROVE  \A s \in Seq(A), x \in A : Append(s, x) = s \o <<x>> /\ <<x>> \in Seq(A) /\ Append(s, x) \in Seq(A)
OBVIOUS

LEMMA GatheredAppend ==
  ASSUME NEW kind \in Kinds, NEW default, NEW V, NEW vals \in Seq(V), NEW v \in V,
         kind = "repeated" => vals \in Seq(Seq(Int)) /\ v \in Seq(Int)
  PROVE  Gathered(kind, default, Append(vals, v)) = Extended(kind, Gathered(kind, default, vals), v)
<1> DEFINE w == Append(vals, v)
<1>1. w # <<>> /\ Last(w) = v
  BY AppendIs DEF Last
<1> DEFINE old == Gathered(kind, default, vals)
           new == Gathered(kind, default, w)
           e == Extended(kind, old, v)
<1> HIDE DEF w
<1>6. \A s : kind = "repeated" => Gathered(kind, default, s) = FlattenSeq(s)
  BY GatheredIs
<1>7. \A s : kind \in {"repeated_bytearray", "repeated_message"} => Gathered(kind, default, s) = s
  BY GatheredIs
<1>8. \A s : kind = "map" => Gathered(kind, default, s) = Latest(s)
  BY GatheredIs
<1>9. \A s : kind \in {"scalar", "bytearray", "message"} =>
               Gathered(kind, default, s) = IF s = <<>> THEN default ELSE Last(s)
  BY GatheredIs
<1>10. \A u : kind = "repeated" => Extended(kind, u, v) = u \o v
  BY ExtendedIs
<1>11. \A u : kind \in {"repeated_bytearray", "repeated_message"} => Extended(kind, u, v) = Append(u, v)
  BY ExtendedIs
<1>12. \A u : kind \in {"scalar", "bytearray", "message"} => Extended(kind, u, v) = v
  BY ExtendedIs
<1>2. CASE kind = "repeated"
  <2>1. FlattenSeq(w) = FlattenSeq(vals) \o v
    BY <1>2, FlattenAppend DEF w
  <2>2. old = FlattenSeq(vals) /\ new = FlattenSeq(w)
    BY <1>2, <1>6
  <2>3. e = old \o v
    BY <1>2, <1>10
  <2> HIDE DEF w, old, new, e
  <2>4. new = e
    BY <2>1, <2>2, <2>3
  <2> QED BY <2>4 DEF new, e, w, old
<1>3. CASE kind \in {"repeated_bytearray", "repeated_message"}
  <2>1. old = vals /\ new = w
    BY <1>3, <1>7
  <2>2. e = Append(old, v)
    BY <1>3, <1>11
  <2> HIDE DEF old, new, e
  <2>3. new = e
    BY <2>1, <2>2 DEF w
  <2> QED BY <2>3 DEF new, e, old, w
<1>4. CASE kind = "map"
  <2> DEFINE u == Latest(vals)
             z == [k \in DOMAIN u \cup {v.val[1]} |-> IF k = v.val[1] THEN v.val[2] ELSE u[k]]
  <2>1. Latest(w) = IF {1, 2} \subseteq v.has THEN z ELSE u
    BY LatestAppend DEF w
  <2>2. Extended("map", u, v) = IF {1, 2} \subseteq v.has THEN z ELSE u
    BY ExtendedMap
  <2>3. old = u /\ new = Latest(w)
    BY <1>4, <1>8
  <2> HIDE DEF u, z, w, old, new
  <2>4. new = Extended(kind, old, v)
    BY <1>4, <2>1, <2>2, <2>3
  <2> QED BY <2>4 DEF new, w, old
<1>5. CASE kind \in {"scalar", "bytearray", "message"}
  <2>1. new = v
    <3>1. new = IF w = <<>> THEN default ELSE Last(w)
      BY <1>5, <1>9
    <3> HIDE DEF new, w
    <3> QED BY <1>1, <3>1
  <2>2. e = v
    BY <1>5, <1>12
  <2> HIDE DEF w, old, new, e
  <2>3. new = e
    BY <2>1, <2>2
  <2> QED BY <2>3 DEF new, e, w, old
<1> QED BY <1>2, <1>3, <1>4, <1>5 DEF Kinds

LEMMA NumbersType ==
  ASSUME NEW type \in NumericTypes, NEW x \in Fields, Numbers(type, x).ok
  PROVE  Numbers(type, x).val \in Seq(Int)
<1> DEFINE elements == Items[PayloadOf(x)][type]
           number == Number(type, x)
<1>1. Numbers(type, x) =
        IF x.wire = Delimited THEN IF elements.ok THEN Ok(elements.list) ELSE Bad
        ELSE IF number.ok THEN Ok(<<number.val>>) ELSE Bad
  BY DEF Numbers
<1>2. elements.list \in Seq(Int)
  <2>1. PayloadOf(x) \in Seq(Byte) /\ type \in {"field"} \cup NumericTypes /\ type # "field"
    <3>1. "field" \notin NumericTypes
      BY DEF NumericTypes, IntegralTypes, ZigZagTypes, FPTypes, VarintTypes, Fixed32Types, Fixed64Types
    <3> QED BY <3>1, PayloadType
  <2>2. TypedItems(type, elements)
    BY <2>1, ItemsType
  <2> HIDE DEF elements
  <2> QED BY <2>1, <2>2 DEF TypedItems, ItemSet
<1>3. number.ok => number.val \in Int
  <2> DEFINE r == ParseScalar(type, x.wire, x.body, 0, Len(x.body))
  <2>1. number = IF r.err = "none" THEN Ok(r.val) ELSE Bad
    BY DEF Number
  <2>2. Slice(x.body, 0, Len(x.body))
    BY DEF Slice, Fields
  <2>3. Returns(r, 0, Len(x.body))
    BY <2>2, ParseScalarReturns
  <2> HIDE DEF r, number
  <2>4. r.val \in Int
    BY <2>3 DEF Returns
  <2> QED BY <2>1, <2>4, OkIs
<1> HIDE DEF elements, number
<1>4. CASE x.wire = Delimited
  <2>1. Numbers(type, x) = Ok(elements.list)
    BY <1>1, <1>4, OkIs
  <2> QED BY <1>2, <2>1, OkIs
<1>5. CASE x.wire # Delimited
  <2>1. number.ok /\ Numbers(type, x) = Ok(<<number.val>>)
    BY <1>1, <1>5, OkIs
  <2>2. <<number.val>> \in Seq(Int)
    BY <1>3, <2>1
  <2> QED BY <2>1, <2>2, OkIs
<1> QED BY <1>4, <1>5

LEMMA OccurrenceNumbers ==
  ASSUME NEW F, ValidField(F), F.kind = "repeated", NEW o \in Seq(Fields), NEW i \in DOMAIN o,
         Occurrence(Decode, F, o, i).ok
  PROVE  Occurrence(Decode, F, o, i).val \in Seq(Int)
<1>1. Occurrence(Decode, F, o, i) = Numbers(F.type, o[i])
  BY OccurrenceIs
<1>2. o[i] \in Fields /\ F.type \in NumericTypes
  BY DEF ValidField
<1> QED BY <1>1, <1>2, NumbersType

(* One more occurrence of a field.                                         *)
LEMMA FieldValueAppend ==
  ASSUME NEW F, ValidField(F), NEW default, NEW o \in Seq(Fields), NEW x \in Fields, NEW old,
         FieldValue(Decode, F, default, o) = Ok(old)
  PROVE  /\ LET w == Append(o, x)
                r == Occurrence(Decode, F, w, Len(w))
            IN  FieldValue(Decode, F, default, w) = IF r.ok THEN Ok(Extended(F.kind, old, r.val)) ELSE Bad
         /\ F.kind = "repeated" => old \in Seq(Int)
<1> DEFINE w == Append(o, x)
           n == Len(o)
           R(i) == Occurrence(Decode, F, o, i)
           r == Occurrence(Decode, F, w, Len(w))
           vals == [i \in DOMAIN o |-> R(i).val]
           V == {vals[i] : i \in 1 .. n} \cup {r.val}
<1>1. n \in Nat /\ w \in Seq(Fields) /\ Len(w) = n + 1 /\ DOMAIN w = 1 .. n + 1 /\ DOMAIN o = 1 .. n
  BY AppendIs
<1>2. F.kind \in Kinds
  BY DEF ValidField
<1>3. \A i \in 1 .. n : Occurrence(Decode, F, w, i) = R(i)
  <2>1. w = o \o <<x>> /\ <<x>> \in Seq(Fields)
    BY AppendedOne
  <2> HIDE DEF w
  <2> DEFINE q == <<x>>
  <2>2. w = o \o q /\ q \in Seq(Fields)
    BY <2>1
  <2> HIDE DEF q
  <2> QED BY <1>1, <1>2, <2>2, OccurrenceStays
<1> HIDE DEF w, n
<1>4. \A i \in 1 .. n : R(i).ok
  <2>1. FieldValue(Decode, F, default, o).ok
    BY OkIs
  <2> QED BY <1>1, <2>1, FieldValueResult
<1>5. old = Gathered(F.kind, default, vals)
  <2>1. FieldValue(Decode, F, default, o) = Ok(Gathered(F.kind, default, vals))
    <3>1. \A i \in DOMAIN o : Occurrence(Decode, F, o, i).ok
      BY <1>1, <1>4
    <3> HIDE DEF R
    <3> QED BY <3>1, FieldValueIs DEF R
  <2> HIDE DEF vals
  <2> QED BY <2>1, OkIs
<1>6. \A i \in 1 .. n + 1 : i \in 1 .. n \/ i = n + 1
  BY <1>1
<1>7. n + 1 \in DOMAIN w /\ Len(w) = n + 1
  BY <1>1
<1>8. vals \in Seq(V) /\ Len(vals) = n /\ \A i \in 1 .. n : vals[i] = R(i).val
  <2>1. vals = [i \in 1 .. n |-> R(i).val] /\ \A i \in 1 .. n : vals[i] = R(i).val
    BY <1>1
  <2>2. \A i \in 1 .. n : vals[i] \in V
    OBVIOUS
  <2> HIDE DEF R, V, vals
  <2>3. vals \in [1 .. n -> V]
    BY <2>1, <2>2
  <2> QED BY <1>1, <2>1, <2>3
<1>9. F.kind = "repeated" => vals \in Seq(Seq(Int))
  <2>1. ASSUME F.kind = "repeated"
        PROVE  vals \in Seq(Seq(Int))
    <3>1. \A i \in 1 .. n : R(i).val \in Seq(Int)
      BY <1>1, <1>4, <2>1, OccurrenceNumbers
    <3>2. DOMAIN vals = 1 .. n /\ vals = [i \in 1 .. n |-> vals[i]]
      BY <1>1
    <3> HIDE DEF vals, R
    <3>3. vals \in [1 .. n -> Seq(Int)]
      BY <1>8, <3>1, <3>2
    <3> QED BY <1>1, <3>3
  <2> QED BY <2>1
<1> DEFINE g == FieldValue(Decode, F, default, w)
           e == Ok(Extended(F.kind, old, r.val))
<1>10. ASSUME r.ok PROVE g = e
  <2> DEFINE wals == [i \in DOMAIN w |-> Occurrence(Decode, F, w, i).val]
  <2>1. \A i \in DOMAIN w : Occurrence(Decode, F, w, i).ok
    BY <1>1, <1>3, <1>4, <1>6, <1>7, <1>10
  <2>2. FieldValue(Decode, F, default, w) = Ok(Gathered(F.kind, default, wals))
    BY <2>1, FieldValueIs
  <2>3. wals = Append(vals, r.val)
    <3> HIDE DEF R, r, vals, V
    <3>1. r.val \in V
      BY DEF V
    <3>2. /\ Append(vals, r.val) \in Seq(V) /\ Len(Append(vals, r.val)) = n + 1
          /\ Append(vals, r.val)[n + 1] = r.val /\ \A i \in 1 .. n : Append(vals, r.val)[i] = vals[i]
      BY <1>8, <3>1, AppendIs
    <3> DEFINE a == Append(vals, r.val)
    <3> HIDE DEF a
    <3>3. a = [i \in 1 .. n + 1 |-> a[i]]
      BY <3>2 DEF a
    <3>4. \A i \in 1 .. n + 1 : wals[i] = a[i]
      <4>1. \A i \in 1 .. n : wals[i] = R(i).val
        BY <1>1, <1>3
      <4>2. wals[n + 1] = r.val
        BY <1>7 DEF r
      <4> HIDE DEF wals
      <4> QED BY <1>6, <1>8, <3>2, <4>1, <4>2 DEF a
    <3>5. wals = [i \in 1 .. n + 1 |-> wals[i]]
      BY <1>1
    <3> HIDE DEF wals
    <3> QED BY <3>3, <3>4, <3>5 DEF a
  <2>4. Gathered(F.kind, default, Append(vals, r.val)) = Extended(F.kind, old, r.val)
    <3>1. r.val \in V
      OBVIOUS
    <3>2. F.kind = "repeated" => r.val \in Seq(Int)
      BY <1>1, <1>7, <1>10, OccurrenceNumbers
    <3> HIDE DEF V, vals, r
    <3> QED BY <1>2, <1>5, <1>8, <1>9, <3>1, <3>2, GatheredAppend
  <2>5. FieldValue(Decode, F, default, w) = Ok(Extended(F.kind, old, r.val))
    BY <2>2, <2>3, <2>4
  <2> QED BY <2>5
<1>11. ASSUME ~r.ok PROVE g = Bad
  <2>1. FieldValue(Decode, F, default, w) = Bad
    <3>1. \E i \in DOMAIN w : ~Occurrence(Decode, F, w, i).ok
      BY <1>7, <1>11
    <3> QED BY <3>1, FieldValueIs
  <2> QED BY <2>1
<1>12. F.kind = "repeated" => old \in Seq(Int)
  <2>1. F.kind = "repeated" => old = FlattenSeq(vals)
    BY <1>5, GatheredIs
  <2> HIDE DEF vals
  <2> QED BY <1>9, <2>1, FlattenType
<1>13. g = IF r.ok THEN e ELSE Bad
  <2> HIDE DEF g, r, e
  <2> QED BY <1>10, <1>11
<1> QED BY <1>12, <1>13 DEF w

-----------------------------------------------------------------------------
Value(t, list, f) == FieldValue(Decode, Schema[t][f], Blank[t].val[f], Occurrences(list, f))

LEMMA ObjectIs ==
  ASSUME NEW t, NEW list
  PROVE  /\ (\A f \in DOMAIN Schema[t] : Value(t, list, f).ok) =>
              DecodeFields(t, list) =
                Ok([ has |-> {f \in Flagged(t) : Occurrences(list, f) # <<>>},
                     val |-> [f \in DOMAIN Schema[t] |-> Value(t, list, f).val] ])
         /\ (\E f \in DOMAIN Schema[t] : ~Value(t, list, f).ok) => DecodeFields(t, list) = Bad
         /\ DecodeFields(t, list).ok <=> \A f \in DOMAIN Schema[t] : Value(t, list, f).ok
         /\ Result(DecodeFields(t, list))
<1> DEFINE value == [f \in DOMAIN Schema[t] |-> FieldValue(Decode, Schema[t][f], Blank[t].val[f], Occurrences(list, f))]
           has == {f \in Flagged(t) : Occurrences(list, f) # <<>>}
           v == [f \in DOMAIN Schema[t] |-> Value(t, list, f).val]
           obj == [has |-> has, val |-> v]
<1>1. \A f \in DOMAIN Schema[t] : value[f] = Value(t, list, f)
  BY DEF Value
<1>2. DecodeFields(t, list) =
        IF \A f \in DOMAIN Schema[t] : value[f].ok
        THEN Ok([has |-> has, val |-> [f \in DOMAIN Schema[t] |-> value[f].val]]) ELSE Bad
  BY DEF DecodeFields, ObjectOf, Assembled
<1>3. [f \in DOMAIN Schema[t] |-> value[f].val] = v
  BY <1>1
<1>4. DecodeFields(t, list) = IF \A f \in DOMAIN Schema[t] : value[f].ok THEN Ok(obj) ELSE Bad
  BY <1>2, <1>3
<1> HIDE DEF value, obj
<1>5. (\A f \in DOMAIN Schema[t] : Value(t, list, f).ok) => DecodeFields(t, list) = Ok(obj)
  BY <1>1, <1>4
<1>6. (\E f \in DOMAIN Schema[t] : ~Value(t, list, f).ok) => DecodeFields(t, list) = Bad
  BY <1>1, <1>4
<1>7. DecodeFields(t, list).ok <=> \A f \in DOMAIN Schema[t] : Value(t, list, f).ok
  BY <1>5, <1>6, OkIs
<1>8. Result(DecodeFields(t, list))
  BY <1>4, OkIs
<1> QED BY <1>5, <1>6, <1>7, <1>8 DEF obj

(* A message object has a value for every field.                           *)
Object(t, o) ==
  /\ o = [has |-> o.has, val |-> o.val]
  /\ o.val = [f \in DOMAIN Schema[t] |-> o.val[f]]
  /\ \A f \in DOMAIN Schema[t] : Schema[t][f].kind = "repeated" => o.val[f] \in Seq(Int)

LEMMA ObjectMade ==
  ASSUME NEW t \in DOMAIN Schema, NEW list \in Seq(Fields), NEW made, DecodeFields(t, list) = Ok(made)
  PROVE  /\ Object(t, made)
         /\ made.has = {f \in Flagged(t) : Occurrences(list, f) # <<>>}
         /\ \A f \in DOMAIN Schema[t] : Value(t, list, f) = Ok(made.val[f])
<1> DEFINE has == {f \in Flagged(t) : Occurrences(list, f) # <<>>}
           v == [f \in DOMAIN Schema[t] |-> Value(t, list, f).val]
<1>1. \A f \in DOMAIN Schema[t] : Value(t, list, f).ok
  <2>1. DecodeFields(t, list).ok
    BY OkIs
  <2> QED BY <2>1, ObjectIs
<1>2. made = [has |-> has, val |-> v]
  <2>1. DecodeFields(t, list) = Ok([has |-> has, val |-> v])
    BY <1>1, ObjectIs
  <2> HIDE DEF has, v
  <2> QED BY <2>1, OkIs
<1>3. \A f \in DOMAIN Schema[t] : v[f] = Value(t, list, f).val
  OBVIOUS
<1>4. v = [f \in DOMAIN Schema[t] |-> v[f]]
  OBVIOUS
<1>5. \A f \in DOMAIN Schema[t] : Value(t, list, f) = Ok(v[f])
  <2>1. \A f \in DOMAIN Schema[t] : Result(Value(t, list, f))
    BY FieldValueResult DEF Value
  <2> HIDE DEF v
  <2> QED BY <1>1, <1>3, <2>1, ResultIs
<1> HIDE DEF has, v
<1>6. ASSUME NEW f \in DOMAIN Schema[t], Schema[t][f].kind = "repeated"
      PROVE  v[f] \in Seq(Int)
  <2> DEFINE o == Occurrences(list, f)
  <2>1. o \in Seq(Fields) /\ ValidField(Schema[t][f])
    BY PiecesType, FieldsValid
  <2> HIDE DEF o
  <2>2. FieldValue(Decode, Schema[t][f], Blank[t].val[f], o) = Ok(v[f])
    BY <1>5 DEF Value, o
  <2>3. \E x : x \in Fields
    <3>1. [num |-> 0, wire |-> 0, body |-> <<>>] \in Fields
      BY DEF Fields
    <3> QED BY <3>1
  <2> QED BY <1>6, <2>1, <2>2, <2>3, FieldValueAppend
<1>7. made.has = has /\ made.val = v
  BY <1>2
<1> QED BY <1>2, <1>4, <1>5, <1>6, <1>7 DEF Object, has

(* One more field.                                                         *)
LEMMA ObjectAppend ==
  ASSUME NEW t \in DOMAIN Schema, NEW list \in Seq(Fields), NEW x \in Fields, NEW made,
         DecodeFields(t, list) = Ok(made)
  PROVE  /\ x.num \notin DOMAIN Schema[t] => DecodeFields(t, Append(list, x)) = Ok(made)
         /\ x.num \in DOMAIN Schema[t] =>
              LET f == x.num
                  F == Schema[t][f]
                  o == Append(Occurrences(list, f), x)
                  r == Occurrence(Decode, F, o, Len(o))
              IN  DecodeFields(t, Append(list, x)) =
                    IF r.ok
                    THEN Ok([ has |-> IF f \in Flagged(t) THEN made.has \cup {f} ELSE made.has,
                              val |-> [made.val EXCEPT ![f] = Extended(F.kind, made.val[f], r.val)] ])
                    ELSE Bad
<1> DEFINE w == Append(list, x)
           has(l) == {g \in Flagged(t) : Occurrences(l, g) # <<>>}
           v == [g \in DOMAIN Schema[t] |-> Value(t, w, g).val]
<1>1. Object(t, made) /\ made.has = has(list) /\ \A g \in DOMAIN Schema[t] : Value(t, list, g) = Ok(made.val[g])
  BY ObjectMade
<1>2. \A g : Occurrences(w, g) = IF x.num = g THEN Append(Occurrences(list, g), x) ELSE Occurrences(list, g)
  BY OccurrencesAppend
<1> HIDE DEF w
<1>3. \A g : g # x.num => Value(t, w, g) = Value(t, list, g)
  BY <1>2 DEF Value
<1>4. made = [has |-> made.has, val |-> made.val] /\ made.val = [g \in DOMAIN Schema[t] |-> made.val[g]]
  BY <1>1 DEF Object
<1>5. ASSUME x.num \notin DOMAIN Schema[t]
      PROVE  DecodeFields(t, w) = Ok(made)
  <2>1. \A g \in DOMAIN Schema[t] : Value(t, w, g) = Ok(made.val[g])
    BY <1>1, <1>3, <1>5
  <2>2. \A g \in DOMAIN Schema[t] : Value(t, w, g).ok /\ Value(t, w, g).val = made.val[g]
    BY <2>1, OkIs
  <2>3. has(w) = made.has
    BY <1>1, <1>2, <1>5 DEF Flagged
  <2>4. v = made.val
    BY <1>4, <2>2
  <2>5. DecodeFields(t, w) = Ok([has |-> has(w), val |-> v])
    BY <2>2, ObjectIs
  <2> HIDE DEF has, v
  <2> QED BY <1>4, <2>3, <2>4, <2>5
<1>6. ASSUME x.num \in DOMAIN Schema[t]
      PROVE  LET f == x.num
                 F == Schema[t][f]
                 o == Append(Occurrences(list, f), x)
                 r == Occurrence(Decode, F, o, Len(o))
             IN  DecodeFields(t, w) =
                    IF r.ok
                    THEN Ok([ has |-> IF f \in Flagged(t) THEN made.has \cup {f} ELSE made.has,
                              val |-> [made.val EXCEPT ![f] = Extended(F.kind, made.val[f], r.val)] ])
                    ELSE Bad
  <2> DEFINE f == x.num
             F == Schema[t][f]
             o == Append(Occurrences(list, f), x)
             r == Occurrence(Decode, F, o, Len(o))
             e == Extended(F.kind, made.val[f], r.val)
             h == IF f \in Flagged(t) THEN made.has \cup {f} ELSE made.has
             u == [made.val EXCEPT ![f] = e]
  <2>1. Value(t, w, f) = IF r.ok THEN Ok(e) ELSE Bad
    <3> DEFINE p == Occurrences(list, f)
    <3>1. p \in Seq(Fields) /\ ValidField(F)
      BY <1>6, PiecesType, FieldsValid
    <3>2. FieldValue(Decode, F, Blank[t].val[f], p) = Ok(made.val[f])
      BY <1>1, <1>6 DEF Value
    <3>3. Occurrences(w, f) = o
      BY <1>2
    <3>4. Value(t, w, f) = FieldValue(Decode, F, Blank[t].val[f], Append(p, x))
      BY <3>3 DEF Value
    <3> HIDE DEF p, f, F
    <3> QED BY <3>1, <3>2, <3>4, FieldValueAppend DEF p
  <2> HIDE DEF r, e
  <2>2. CASE r.ok
    <3>1. Value(t, w, f) = Ok(e)
      BY <2>1, <2>2
    <3>2. \A g \in DOMAIN Schema[t] : Value(t, w, g) = Ok(IF g = f THEN e ELSE made.val[g])
      BY <1>1, <1>3, <3>1
    <3>3. \A g \in DOMAIN Schema[t] : Value(t, w, g).ok /\ Value(t, w, g).val = IF g = f THEN e ELSE made.val[g]
      BY <3>2, OkIs, ZenonT(60)
    <3>4. v = u
      BY <1>4, <3>3
    <3>5. has(w) = h
      <4>1. Append(Occurrences(list, f), x) # <<>>
        BY PiecesType, AppendIs
      <4>2. \A g : Occurrences(w, g) # <<>> <=> (g = f \/ Occurrences(list, g) # <<>>)
        BY <1>2, <4>1
      <4> QED BY <1>1, <4>2
    <3>6. DecodeFields(t, w) = Ok([has |-> has(w), val |-> v])
      BY <3>3, ObjectIs
    <3> HIDE DEF has, v, u, h
    <3>7. DecodeFields(t, w) = Ok([has |-> h, val |-> u])
      BY <3>4, <3>5, <3>6
    <3>8. DecodeFields(t, w) = IF r.ok THEN Ok([has |-> h, val |-> u]) ELSE Bad
      BY <2>2, <3>7
    <3> QED BY <3>8 DEF r, e, h, u
  <2>3. CASE ~r.ok
    <3>1. Value(t, w, f) = Bad
      BY <2>1, <2>3
    <3>2. DecodeFields(t, w) = Bad
      BY <1>6, <3>1, ObjectIs, OkIs
    <3> HIDE DEF h, u
    <3>3. DecodeFields(t, w) = IF r.ok THEN Ok([has |-> h, val |-> u]) ELSE Bad
      BY <2>3, <3>2
    <3> QED BY <3>3 DEF r, e, h, u
  <2> QED BY <2>2, <2>3
<1> QED BY <1>5, <1>6 DEF w

(* A fault stays one, whatever fields follow.                              *)
LEMMA ObjectShortens ==
  ASSUME NEW t \in DOMAIN Schema, NEW l \in Seq(Fields), NEW m \in Seq(Fields), DecodeFields(t, l \o m).ok
  PROVE  DecodeFields(t, l).ok
<1>1. \A f \in DOMAIN Schema[t] : Value(t, l \o m, f).ok
  BY ObjectIs
<1>2. ASSUME NEW f \in DOMAIN Schema[t]
      PROVE  Value(t, l, f).ok
  <2> DEFINE o == Occurrences(l, f)
             r == Occurrences(m, f)
  <2>1. o \in Seq(Fields) /\ r \in Seq(Fields) /\ Schema[t][f].kind \in Kinds
    BY PiecesType, FieldsValid DEF ValidField
  <2>2. Occurrences(l \o m, f) = o \o r
    BY OccurrencesJoin
  <2>3. FieldValue(Decode, Schema[t][f], Blank[t].val[f], o \o r).ok
    BY <1>1, <2>2 DEF Value
  <2> HIDE DEF o, r
  <2>4. FieldValue(Decode, Schema[t][f], Blank[t].val[f], o).ok
    BY <2>1, <2>3, FieldValueShortens
  <2> QED BY <2>4 DEF Value, o
<1> QED BY <1>2, ObjectIs

(* No fields make a new object.                                            *)
LEMMA ObjectEmpty ==
  ASSUME NEW t \in DOMAIN Schema
  PROVE  DecodeFields(t, <<>>) = Ok(Blank[t])
<1> DEFINE has == {f \in Flagged(t) : Occurrences(<<>>, f) # <<>>}
           v == [f \in DOMAIN Schema[t] |-> Value(t, <<>>, f).val]
           b == Blank[t]
<1>1. b = [has |-> {}, val |-> [f \in DOMAIN Schema[t] |-> NewValue(Schema[t][f], Blank)]]
  BY BlankIs
<1>2. \A f : Occurrences(<<>>, f) = <<>>
  BY FlattenEmpty DEF Occurrences
<1>3. b.val = [f \in DOMAIN Schema[t] |-> NewValue(Schema[t][f], Blank)] /\ b.has = {}
  BY <1>1
<1>4. ASSUME NEW f \in DOMAIN Schema[t]
      PROVE  Value(t, <<>>, f) = Ok(b.val[f])
  <2> DEFINE F == Schema[t][f]
             new == b.val[f]
  <2>1. F.kind \in Kinds
    BY FieldsValid DEF ValidField
  <2>2. new = NewValue(F, Blank)
    BY <1>3
  <2>3. Value(t, <<>>, f) = FieldValue(Decode, F, new, <<>>)
    BY <1>2 DEF Value
  <2> HIDE DEF F, new
  <2>4. FieldValue(Decode, F, new, <<>>) = Ok(Gathered(F.kind, new, <<>>))
    <3> DEFINE vals == [i \in DOMAIN <<>> |-> Occurrence(Decode, F, <<>>, i).val]
    <3>1. vals = <<>>
      OBVIOUS
    <3>2. \A i \in DOMAIN <<>> : Occurrence(Decode, F, <<>>, i).ok
      OBVIOUS
    <3>3. FieldValue(Decode, F, new, <<>>) = Ok(Gathered(F.kind, new, vals))
      BY <3>2, FieldValueIs
    <3> QED BY <3>1, <3>3
  <2>5. Gathered(F.kind, new, <<>>) = new
    <3>1. CASE F.kind \in {"scalar", "bytearray", "message"}
      BY <3>1, GatheredIs
    <3>2. CASE F.kind \in {"repeated_bytearray", "repeated_message"}
      <4>1. new = <<>>
        BY <2>2, <3>2 DEF NewValue
      <4> QED BY <3>2, <4>1, GatheredIs
    <3>3. CASE F.kind = "repeated"
      <4>1. new = <<>>
        BY <2>2, <3>3 DEF NewValue
      <4> QED BY <3>3, <4>1, FlattenEmpty, GatheredIs
    <3>4. CASE F.kind = "map"
      <4>1. new = <<>>
        BY <2>2, <3>4 DEF NewValue
      <4>2. Latest(<<>>) = <<>>
        <5>1. {i \in DOMAIN <<>> : {1, 2} \subseteq <<>>[i].has} = {}
          OBVIOUS
        <5>2. DOMAIN Latest(<<>>) = {}
          BY <5>1 DEF Latest
        <5>3. Latest(<<>>) = [k \in DOMAIN Latest(<<>>) |-> Latest(<<>>)[k]]
          BY DEF Latest
        <5> QED BY <5>2, <5>3
      <4> QED BY <3>4, <4>1, <4>2, GatheredIs
    <3> QED BY <2>1, <3>1, <3>2, <3>3, <3>4 DEF Kinds
  <2> QED BY <2>3, <2>4, <2>5 DEF new
<1>5. \A f \in DOMAIN Schema[t] : Value(t, <<>>, f).ok /\ Value(t, <<>>, f).val = b.val[f]
  BY <1>4, OkIs
<1>6. has = b.has
  BY <1>2, <1>3
<1>7. v = b.val
  <2> HIDE DEF b
  <2> QED BY <1>3, <1>5
<1>8. DecodeFields(t, <<>>) = Ok([has |-> has, val |-> v])
  BY <1>5, ObjectIs
<1>9. b = [has |-> b.has, val |-> b.val]
  BY <1>1
<1> HIDE DEF has, v, b
<1> QED BY <1>6, <1>7, <1>8, <1>9 DEF b

-----------------------------------------------------------------------------
LEMMA DecodeMade ==
  ASSUME NEW bytes \in Seq(Byte), NEW t \in DOMAIN Schema
  PROVE  /\ Decode[bytes][t].ok => Items[bytes]["field"].ok /\ Decode[bytes][t] = DecodeFields(t, FieldList(bytes))
         /\ ~Items[bytes]["field"].ok => ~Decode[bytes][t].ok
         /\ ~DecodeFields(t, FieldList(bytes)).ok => ~Decode[bytes][t].ok
         /\ \A v : Items[bytes]["field"].ok /\ DecodeFields(t, FieldList(bytes)) = Ok(v) =>
              Decode[bytes][t] = IF Required(t) \subseteq v.has THEN Ok(v) ELSE Bad
<1> DEFINE fields == Items[bytes]["field"]
           obj == DecodeFields(t, FieldList(bytes))
           d == Decode[bytes][t]
<1>1. d = IF fields.ok /\ obj.ok /\ Required(t) \subseteq obj.val.has THEN obj ELSE Bad
  BY DecodeIs DEF DecodeFields, FieldList
<1>2. Result(obj)
  BY ObjectIs
<1> HIDE DEF fields, obj, d
<1>3. d.ok => fields.ok /\ d = obj
  BY <1>1, OkIs
<1>4. ~fields.ok => ~d.ok
  BY <1>1, OkIs
<1>5. ~obj.ok => ~d.ok
  BY <1>1, OkIs
<1>6. ASSUME NEW v, fields.ok, obj = Ok(v)
      PROVE  d = IF Required(t) \subseteq v.has THEN Ok(v) ELSE Bad
  <2>1. obj.ok /\ obj.val = v
    BY <1>6, OkIs
  <2> QED BY <1>1, <1>6, <2>1
<1> QED BY <1>3, <1>4, <1>5, <1>6 DEF fields, obj, d

LEMMA ItemsEmpty ==
  ASSUME NEW what \in {"field"} \cup NumericTypes
  PROVE  Items[<<>>][what] = [ok |-> TRUE, list |-> <<>>]
<1> DEFINE e == <<>>
           n == HeadLength(what, e)
<1>1. e \in Seq(Byte) /\ Len(e) = 0
  OBVIOUS
<1>2. e = <<>>
  OBVIOUS
<1> HIDE DEF e
<1>3. n \in 0 .. Len(e)
  BY <1>1, HeadLengthIs
<1>4. n = 0
  BY <1>1, <1>3
<1>5. Items[e][what] = IF n = 0 THEN [ok |-> e = <<>>, list |-> <<>>]
                       ELSE Before(Item(what, SubSeq(e, 1, n)), Items[SubSeq(e, n + 1, Len(e))][what])
  BY <1>1, ItemsAre
<1>6. Items[e][what] = [ok |-> e = <<>>, list |-> <<>>]
  BY <1>4, <1>5
<1>7. (e = <<>>) = TRUE
  BY <1>2
<1> QED BY <1>6, <1>7, <1>2

(* What the occurrences of a sub-message that were read have made of it.   *)
LEMMA MessageSoFar ==
  ASSUME NEW t \in DOMAIN Schema, NEW list \in Seq(Fields), NEW made, DecodeFields(t, list) = Ok(made),
         NEW f \in DOMAIN Schema[t], Schema[t][f].kind = "message"
  PROVE  LET s == Payloads(Occurrences(list, f))
             u == Schema[t][f].type
         IN  /\ s \in Seq(Byte) /\ u \in DOMAIN Schema
             /\ Items[s]["field"].ok
             /\ FieldList(s) \in Seq(Fields)
             /\ DecodeFields(u, FieldList(s)) = Ok(made.val[f])
<1> DEFINE o == Occurrences(list, f)
           n == Len(o)
           s == Payloads(o)
           F == Schema[t][f]
           u == F.type
           default == Blank[t].val[f]
<1>1. o \in Seq(Fields) /\ ValidField(F)
  BY PiecesType, FieldsValid
<1>2. F.kind = "message" /\ u \in DOMAIN Schema
  BY <1>1 DEF ValidField
<1>3. FieldValue(Decode, F, default, o) = Ok(made.val[f])
  BY ObjectMade DEF Value
<1> HIDE DEF o
<1>4. n \in Nat /\ n \in 0 .. n /\ DOMAIN o = 1 .. n
  BY <1>1
<1>5. s \in Seq(Byte) /\ s = PayloadsUpTo(o, n)
  BY <1>1, <1>4, PayloadsAre DEF Payloads
<1>6. FieldList(s) \in Seq(Fields)
  BY <1>5, FieldListType
<1>7. CASE o = <<>>
  <2>1. s = <<>>
    BY <1>7, FlattenEmpty DEF Payloads, PayloadsUpTo
  <2>2. Items[s]["field"].ok /\ FieldList(s) = <<>>
    <3>1. Items[<<>>]["field"] = [ok |-> TRUE, list |-> <<>>]
      BY ItemsEmpty
    <3> HIDE DEF s
    <3> QED BY <2>1, <3>1 DEF FieldList
  <2>3. made.val[f] = default
    <3> DEFINE vals == [i \in DOMAIN o |-> Occurrence(Decode, F, o, i).val]
    <3>1. \A i \in DOMAIN o : Occurrence(Decode, F, o, i).ok
      BY <1>4, <1>7
    <3>2. FieldValue(Decode, F, default, o) = Ok(Gathered(F.kind, default, vals))
      BY <3>1, FieldValueIs
    <3>3. vals = <<>>
      BY <1>7
    <3>4. Gathered(F.kind, default, <<>>) = default
      BY <1>2, GatheredIs
    <3> HIDE DEF vals, F, default
    <3> QED BY <1>3, <3>2, <3>3, <3>4, OkIs
  <2>4. default = Blank[u]
    <3> DEFINE b == Blank[t]
    <3>1. b = [has |-> {}, val |-> [g \in DOMAIN Schema[t] |-> NewValue(Schema[t][g], Blank)]]
      BY BlankIs
    <3>2. b.val = [g \in DOMAIN Schema[t] |-> NewValue(Schema[t][g], Blank)]
      BY <3>1
    <3> HIDE DEF b
    <3>3. b.val[f] = NewValue(Schema[t][f], Blank)
      BY <3>2
    <3>4. NewValue(Schema[t][f], Blank) = Blank[u]
      BY <1>2 DEF NewValue
    <3> QED BY <3>3, <3>4 DEF b
  <2>5. DecodeFields(u, <<>>) = Ok(Blank[u])
    BY <1>2, ObjectEmpty
  <2> HIDE DEF s, u, default
  <2>6. DecodeFields(u, FieldList(s)) = Ok(made.val[f])
    BY <2>2, <2>3, <2>4, <2>5
  <2> QED BY <1>2, <1>5, <1>6, <2>2, <2>6 DEF s, u, o
<1>8. CASE o # <<>>
  <2> DEFINE r == Occurrence(Decode, F, o, n)
             vals == [i \in DOMAIN o |-> Occurrence(Decode, F, o, i).val]
  <2>1. n \in DOMAIN o /\ n >= 1
    BY <1>1, <1>4, <1>8
  <2>2. \A i \in DOMAIN o : Occurrence(Decode, F, o, i).ok
    <3> HIDE DEF F, default
    <3>1. FieldValue(Decode, F, default, o).ok
      BY <1>3, OkIs
    <3> QED BY <3>1, FieldValueResult
  <2>3. made.val[f] = r.val
    <3>1. FieldValue(Decode, F, default, o) = Ok(Gathered(F.kind, default, vals))
      BY <2>2, FieldValueIs
    <3>2. Gathered(F.kind, default, vals) = IF vals = <<>> THEN default ELSE Last(vals)
      BY <1>2, GatheredIs
    <3>3. vals # <<>> /\ Last(vals) = r.val
      <4>1. DOMAIN vals = 1 .. n /\ vals[n] = r.val
        BY <1>4, <2>1
      <4>2. vals = [i \in 1 .. n |-> vals[i]]
        BY <1>4
      <4> HIDE DEF vals
      <4>3. Len(vals) = n
        <5>1. vals \in Seq({vals[i] : i \in 1 .. n})
          BY <1>4, <4>2
        <5> QED BY <1>4, <4>1, <5>1
      <4> QED BY <1>4, <2>1, <4>1, <4>3 DEF Last
    <3> HIDE DEF vals, r, F, default
    <3> QED BY <1>3, <3>1, <3>2, <3>3, OkIs
  <2>4. r = IF o[n].wire = Delimited THEN Decode[s][u] ELSE Bad
    <3>1. Source(F.kind, o, n) = s
      BY <1>2, <1>5 DEF Source
    <3>2. r = IF o[n].wire = Delimited THEN Decode[Source(F.kind, o, n)][u] ELSE Bad
      BY <1>2, OccurrenceIs
    <3> HIDE DEF r, s, u, F
    <3> QED BY <3>1, <3>2
  <2>5. r.ok
    BY <2>1, <2>2
  <2>6. r = Decode[s][u] /\ Result(r)
    <3>1. Result(Decode[s][u])
      <4> HIDE DEF s, u
      <4> QED BY <1>2, <1>5, DecodeResult
    <3> HIDE DEF r, s, u
    <3> QED BY <2>4, <2>5, <3>1, OkIs
  <2>7. r = Ok(made.val[f])
    <3> HIDE DEF r
    <3> QED BY <2>3, <2>5, <2>6, ResultIs
  <2> HIDE DEF r, s, u
  <2>8. Items[s]["field"].ok /\ DecodeFields(u, FieldList(s)) = Ok(made.val[f])
    <3>1. Decode[s][u].ok
      BY <2>5, <2>6
    <3>2. s \in Seq(Byte) /\ u \in DOMAIN Schema
      BY <1>2, <1>5 DEF s, u
    <3>3. Items[s]["field"].ok /\ Decode[s][u] = DecodeFields(u, FieldList(s))
      BY <3>1, <3>2, DecodeMade
    <3> QED BY <2>6, <2>7, <3>3
  <2> QED BY <1>2, <1>5, <1>6, <2>8 DEF s, u, o
<1> QED BY <1>7, <1>8

-----------------------------------------------------------------------------
(* Of the items of a buffer, those of list have been read.                 *)
Remaining(what, whole, list, b) == Items[whole][what] = Prepend(list, Items[b][what])

(* What the next item of a slice is, and what it leaves.                   *)
Taking(buf, p, end, what, whole, list) ==
  LET b == Between(buf, p, end)
      n == HeadLength(what, b)
      x == Item(what, SubSeq(b, 1, n))
  IN  /\ n \in 0 .. end - p
      /\ n = 0 /\ p = end => Items[whole][what] = [ok |-> TRUE, list |-> list]
      /\ n = 0 /\ p # end => Items[whole][what] = [ok |-> FALSE, list |-> list]
      /\ n # 0 => /\ x \in ItemSet(what)
                  /\ Slice(buf, p + n, end)
                  /\ Append(list, x) \in Seq(ItemSet(what))
                  /\ Remaining(what, whole, Append(list, x), Between(buf, p + n, end))
                  /\ Items[whole][what].list = Append(list, x) \o Items[Between(buf, p + n, end)][what].list

LEMMA TakeOne ==
  ASSUME NEW buf, NEW p, NEW end, Slice(buf, p, end), NEW what \in {"field"} \cup NumericTypes,
         NEW whole \in Seq(Byte), NEW list \in Seq(ItemSet(what)),
         Remaining(what, whole, list, Between(buf, p, end))
  PROVE  Taking(buf, p, end, what, whole, list)
<1> DEFINE b == Between(buf, p, end)
           n == HeadLength(what, b)
           x == Item(what, SubSeq(b, 1, n))
           rest == SubSeq(b, n + 1, Len(b))
           A == ItemSet(what)
<1>1. b \in Seq(Byte) /\ Len(b) = end - p
  BY BetweenIs
<1>2. p \in Nat /\ end \in Nat /\ p <= end
  BY DEF Slice
<1>3. n \in 0 .. Len(b) /\ rest \in Seq(Byte)
  <2> HIDE DEF b
  <2> QED BY <1>1, HeadLengthIs
<1>4. Items[b][what] = IF n = 0 THEN [ok |-> b = <<>>, list |-> <<>>] ELSE Before(x, Items[rest][what])
  <2> HIDE DEF b
  <2> QED BY <1>1, ItemsAre
<1>5. n # 0 => x \in A
  <2> HIDE DEF b
  <2> QED BY <1>1, ItemType
<1>6. Items[whole][what] = Prepend(list, Items[b][what])
  BY DEF Remaining
<1>7. (b = <<>>) = (p = end)
  <2> HIDE DEF b
  <2> QED BY <1>1, <1>2
<1>8. n # 0 => Slice(buf, p + n, end) /\ rest = Between(buf, p + n, end)
  <2>1. n \in 0 .. end - p /\ end - p \in n .. end - p
    BY <1>1, <1>2, <1>3
  <2> DEFINE q == end - p
  <2>2. p + q = end /\ Len(b) = q
    BY <1>1, <1>2
  <2> HIDE DEF b, n, q
  <2>3. Slice(buf, p + n, p + q) /\ SubSeq(Between(buf, p, end), n + 1, q) = Between(buf, p + n, p + q)
    BY <2>1, BetweenBetween DEF q
  <2> QED BY <2>2, <2>3 DEF b
<1> HIDE DEF b, n, x, rest, A
<1>9. \A o \in BOOLEAN : n = 0 /\ o = (p = end) => Items[whole][what] = [ok |-> o, list |-> list]
  <2>1. ASSUME NEW o \in BOOLEAN, n = 0, o = (p = end)
        PROVE  Items[whole][what] = [ok |-> o, list |-> list]
    <3>1. Items[b][what] = [ok |-> o, list |-> <<>>]
      BY <1>4, <1>7, <2>1
    <3>2. list \o <<>> = list
      OBVIOUS
    <3> QED BY <1>6, <3>1, <3>2 DEF Prepend
  <2> QED BY <2>1
<1>13. n = 0 /\ p = end => Items[whole][what] = [ok |-> TRUE, list |-> list]
  BY <1>9
<1>14. n = 0 /\ p # end => Items[whole][what] = [ok |-> FALSE, list |-> list]
  BY <1>9
<1>10. ASSUME n # 0
       PROVE  /\ Append(list, x) \in Seq(A)
              /\ Items[whole][what] = Prepend(Append(list, x), Items[rest][what])
  <2> DEFINE i == Items[rest][what]
             q == <<x>>
  <2>1. list \in Seq(A)
    BY DEF A
  <2>2. Append(list, x) = list \o q /\ q \in Seq(A) /\ Append(list, x) \in Seq(A)
    BY <1>5, <1>10, <2>1, AppendedOne
  <2>3. i.list \in Seq(A)
    <3>1. TypedItems(what, i)
      BY <1>3, ItemsType
    <3> HIDE DEF i
    <3> QED BY <3>1 DEF TypedItems, A
  <2>4. Items[b][what] = [ok |-> i.ok, list |-> q \o i.list]
    BY <1>4, <1>10 DEF Before
  <2> HIDE DEF i, q
  <2>5. Items[whole][what] = [ok |-> i.ok, list |-> list \o (q \o i.list)]
    BY <1>6, <2>4 DEF Prepend
  <2>6. \A u, v, w \in Seq(A) : (u \o v) \o w = u \o (v \o w)
    BY Associative, SMTT(60)
  <2>7. list \o (q \o i.list) = (list \o q) \o i.list
    BY <2>1, <2>2, <2>3, <2>6, Zenon
  <2>8. Items[whole][what] = Prepend(list \o q, i)
    BY <2>5, <2>7 DEF Prepend
  <2> QED BY <2>2, <2>8 DEF i
<1>11. n \in 0 .. end - p
  BY <1>1, <1>3
<1>12. n # 0 => Items[whole][what].list = Append(list, x) \o Items[rest][what].list
  <2> DEFINE i == Items[rest][what]
             a == Append(list, x)
             w == Items[whole][what]
  <2>1. n # 0 => w = [ok |-> i.ok, list |-> a \o i.list]
    BY <1>10 DEF Prepend
  <2> HIDE DEF i, a, w
  <2>2. n # 0 => w.list = a \o i.list
    BY <2>1
  <2> QED BY <2>2 DEF i, a, w
<1> QED BY <1>5, <1>8, <1>10, <1>11, <1>12, <1>13, <1>14 DEF b, n, x, rest, A, Remaining, Taking

-----------------------------------------------------------------------------
(* What decode() makes.  The invariant.                                    *)

(* What the cursor of an activation reads: fields, or elements of a type.  *)
What(c) == IF c.role = "packed" THEN c.type ELSE "field"

(* One field at most is not what the fields that were read have made it.   *)
Near(obj, made, f) ==
  /\ obj = [has |-> made.has, val |-> obj.val]
  /\ obj.val = [g \in DOMAIN made.val |-> obj.val[g]]
  /\ \A g \in DOMAIN made.val : g # f => obj.val[g] = made.val[g]

(* The fields of a message go on with one that is at fault, if they go on. *)
Stuck(t, whole, read) ==
  \/ FieldList(whole) = read
  \/ \E x \in Fields, m \in Seq(Fields) :
       FieldList(whole) = Append(read, x) \o m /\ ~DecodeFields(t, Append(read, x)).ok

(* The rules reject the message, whatever is decoded of it next.           *)
DoomedMessage(t, whole, read) == ~Decode[whole][t].ok /\ Stuck(t, whole, read)

(* For each activation c of the stack a history k is kept: the bytes that  *)
(* its object is decoded from (k.whole), which begin with those of earlier *)
(* calls or occurrences, the fields or elements that have been read of     *)
(* them (k.read), and the field that an inner activation decodes (k.pend). *)

Doomed(c, k) ==
  IF c.role = "packed" THEN ~Items[k.whole][c.type].ok ELSE DoomedMessage(c.type, k.whole, k.read)

(* The object that the rules make of what has been read.                   *)
Made(c, k) == DecodeFields(c.type, k.read).val

(* What has been read of the bytes of an activation makes an object.       *)
Sound(c, k) ==
  /\ k.whole \in Seq(Byte)
  /\ k.read \in Seq(ItemSet(What(c)))
  /\ c.role # "packed" => DecodeFields(c.type, k.read) = Ok(Made(c, k))

(* The innermost activation: its cursor stands before what has not been    *)
(* read and its object is what the rules make of the rest, or there is a   *)
(* fault and the object is that but for one field.                         *)
IsTop(c, k, e, buf) ==
  /\ Sound(c, k)
  /\ e = "none" => /\ Remaining(What(c), k.whole, k.read, Between(buf, c.ptr, c.end))
                   /\ c.role # "packed" => c.obj = Made(c, k)
  /\ e # "none" => /\ Doomed(c, k)
                   /\ c.role # "packed" => \E f : Near(c.obj, Made(c, k), f)

RoleOf(kind) == IF kind = "repeated" THEN "packed" ELSE kind

(* A caller, and the activation that decodes its current field: from the   *)
(* bytes that the rules decode this occurrence from, into a field that is  *)
(* the only one to differ from what the caller has read.                   *)
IsLink(c, k, d, l, e, buf) ==
  LET F == Schema[c.type][d.field]
      o == Append(Occurrences(k.read, d.field), k.pend)
  IN  /\ Sound(c, k)
      /\ c.role # "packed"
      /\ k.pend \in Fields /\ k.pend.num = d.field /\ k.pend.wire = Delimited
      /\ d.field \in DOMAIN Schema[c.type]
      /\ d.type = F.type /\ d.role = RoleOf(F.kind)
      /\ Remaining("field", k.whole, Append(k.read, k.pend), Between(buf, c.ptr, c.end))
      /\ l.whole = Source(F.kind, o, Len(o))
      /\ Near(c.obj, Made(c, k), d.field)
      /\ e = "none" => c.obj.val[d.field] = IF d.role = "packed" THEN Made(c, k).val[d.field] \o l.read
                                            ELSE Made(c, k).val[d.field]

(* The stack s with the histories h, all being every byte that was fed.    *)
Tracks(s, h, e, buf, all) ==
  /\ IsTop(s[Len(s)], h[Len(s)], e, buf)
  /\ \A i \in 1 .. Len(s) - 1 : IsLink(s[i], h[i], s[i + 1], h[i + 1], e, buf)
  /\ s[1].role = "root" /\ s[1].type = Root /\ h[1].whole = all

(* Between two calls: the object is that of all bytes, or what was made of *)
(* the fields before the fault, but for one field.                         *)
Settled(e, obj, all, any) ==
  /\ e = "none" => /\ Items[all]["field"].ok
                   /\ DecodeFields(Root, FieldList(all)) = Ok(obj)
                   /\ any => Required(Root) \subseteq obj.has
  /\ e # "none" => \E read \in Seq(Fields) : \E f :
                     /\ DecodeFields(Root, read) = Ok(DecodeFields(Root, read).val)
                     /\ DoomedMessage(Root, all, read)
                     /\ Near(obj, DecodeFields(Root, read).val, f)

(* The inductive invariant of what decode() makes.                         *)
DInv ==
  /\ IInv
  /\ stack = <<>> => Settled(err, object, FlattenSeq(fed), fed # <<>>)
  /\ stack # <<>> => fed # <<>> /\ \E h : Tracks(stack, h, err, input, FlattenSeq(fed))

-----------------------------------------------------------------------------
(* The activation for the same field of the same caller.                   *)
SameSlot(c, d) == c.role = d.role /\ c.type = d.type /\ c.field = d.field

LEMMA LinkStays ==
  ASSUME NEW c, NEW k, NEW d, NEW l, NEW e, NEW buf, IsLink(c, k, d, l, e, buf),
         NEW d2, NEW l2, NEW e2, SameSlot(d, d2), l2.whole = l.whole, d.role = "packed" => l2.read = l.read,
         e2 = "none" => e = "none"
  PROVE  IsLink(c, k, d2, l2, e2, buf)
<1>1. d2.role = d.role /\ d2.type = d.type /\ d2.field = d.field
  BY DEF SameSlot
<1> QED BY <1>1 DEF IsLink

(* The call stack changes from position p on.                              *)
LEMMA Retracked ==
  ASSUME NEW s, NEW h, NEW e, NEW buf, NEW all, Tracks(s, h, e, buf, all), Len(s) \in Nat,
         NEW p \in 1 .. Len(s), NEW s2, NEW h2, NEW e2, Len(s2) \in Nat, p <= Len(s2),
         \A i \in 1 .. p - 1 : s2[i] = s[i] /\ h2[i] = h[i],
         SameSlot(s[p], s2[p]), h2[p].whole = h[p].whole, s[p].role = "packed" => h2[p].read = h[p].read,
         e2 = "none" => e = "none",
         IsTop(s2[Len(s2)], h2[Len(s2)], e2, buf),
         \A i \in p .. Len(s2) - 1 : IsLink(s2[i], h2[i], s2[i + 1], h2[i + 1], e2, buf)
  PROVE  Tracks(s2, h2, e2, buf, all)
<1>1. ASSUME NEW i \in 1 .. Len(s2) - 1
      PROVE  IsLink(s2[i], h2[i], s2[i + 1], h2[i + 1], e2, buf)
  <2>1. CASE i >= p
    BY <2>1
  <2>2. CASE i = p - 1
    <3>1. i \in 1 .. Len(s) - 1 /\ i \in 1 .. p - 1 /\ i + 1 = p
      BY <2>2
    <3>2. IsLink(s[i], h[i], s[p], h[p], e, buf)
      BY <3>1 DEF Tracks
    <3>3. IsLink(s[i], h[i], s2[p], h2[p], e2, buf)
      BY <3>2, LinkStays
    <3> QED BY <3>1, <3>3
  <2>3. CASE i < p - 1
    <3>1. i \in 1 .. Len(s) - 1 /\ i \in 1 .. p - 1 /\ i + 1 \in 1 .. p - 1
      BY <2>3
    <3>2. IsLink(s[i], h[i], s[i + 1], h[i + 1], e, buf)
      BY <3>1 DEF Tracks
    <3>3. s2[i] = s[i] /\ h2[i] = h[i] /\ s2[i + 1] = s[i + 1] /\ h2[i + 1] = h[i + 1]
      BY <3>1
    <3>4. IsLink(s2[i], h2[i], s2[i + 1], h2[i + 1], e, buf)
      BY <3>2, <3>3
    <3>5. SameSlot(s2[i + 1], s2[i + 1])
      BY DEF SameSlot
    <3> QED BY <3>4, <3>5, LinkStays
  <2> QED BY <2>1, <2>2, <2>3
<1>2. s2[1].role = "root" /\ s2[1].type = Root /\ h2[1].whole = all
  <2>1. s[1].role = "root" /\ s[1].type = Root /\ h[1].whole = all
    BY DEF Tracks
  <2>2. CASE p = 1
    BY <2>1, <2>2 DEF SameSlot
  <2>3. CASE p # 1
    <3>1. 1 \in 1 .. p - 1
      BY <2>3
    <3> QED BY <2>1, <3>1
  <2> QED BY <2>2, <2>3
<1> QED BY <1>1, <1>2 DEF Tracks

-----------------------------------------------------------------------------
LEMMA MovedMembers ==
  ASSUME NEW c, NEW buf, IsCursor(c, buf), NEW q, NEW obj
  PROVE  LET d == Moved(c, q, obj)
         IN  d.ptr = q /\ d.end = c.end /\ d.obj = obj /\ SameSlot(c, d)
<1> DEFINE d == Moved(c, q, obj)
<1>1. PICK p, end, type, o, role, field : c = Activation(p, end, type, o, role, field)
  BY DEF IsCursor
<1>2. c.ptr = p /\ c.end = end /\ c.type = type /\ c.role = role /\ c.field = field
  BY <1>1, Members
<1>3. d = Activation(q, end, type, obj, role, field)
  BY <1>1, MovedIs
<1> HIDE DEF d
<1>4. d.ptr = q /\ d.end = end /\ d.type = type /\ d.obj = obj /\ d.role = role /\ d.field = field
  BY <1>3, Members
<1> QED BY <1>2, <1>4 DEF d, SameSlot

LEMMA TopMovedParts ==
  ASSUME NEW s, NEW buf, Nested(s, buf), s # <<>>, NEW q, NEW obj
  PROVE  LET t == TopMoved(s, q, obj)
         IN  /\ Len(t) = Len(s) /\ t[Len(s)] = Moved(Last(s), q, obj)
             /\ \A i \in 1 .. Len(s) - 1 : t[i] = s[i]
<1> DEFINE n == Len(s)
           S == {s[i] : i \in DOMAIN s}
           d == Moved(s[n], q, obj)
           t == TopMoved(s, q, obj)
<1>1. s \in Seq(S)
  BY DEF Nested, IsSequence
<1>2. n \in Nat \ {0} /\ DOMAIN s = 1 .. n /\ Last(s) = s[n]
  BY NestedTop
<1> HIDE DEF S, d
<1>3. t = [s EXCEPT ![n] = d]
  BY <1>2 DEF TopMoved, d
<1>4. t \in Seq(S \cup {d}) /\ Len(t) = n /\ t[n] = d /\ \A i \in 1 .. n - 1 : t[i] = s[i]
  BY <1>1, <1>2, <1>3
<1> QED BY <1>2, <1>4 DEF d

(* The innermost activation goes on.                                       *)
LEMMA TopStep ==
  ASSUME NEW s, NEW buf, Nested(s, buf), s # <<>>, NEW h, NEW e, NEW all, Tracks(s, h, e, buf, all),
         NEW q, NEW obj, NEW k, NEW e2, k.whole = h[Len(s)].whole,
         Last(s).role = "packed" => k.read = h[Len(s)].read,
         e2 = "none" => e = "none",
         IsTop(Moved(Last(s), q, obj), k, e2, buf)
  PROVE  \E g : Tracks(TopMoved(s, q, obj), g, e2, buf, all)
<1> DEFINE n == Len(s)
           t == TopMoved(s, q, obj)
           g == [i \in 1 .. n |-> IF i = n THEN k ELSE h[i]]
<1>1. n \in Nat \ {0} /\ Last(s) = s[n] /\ IsCursor(Last(s), buf)
  BY NestedTop
<1>2. Len(t) = n /\ t[n] = Moved(s[n], q, obj) /\ \A i \in 1 .. n - 1 : t[i] = s[i]
  BY <1>1, TopMovedParts
<1>3. SameSlot(s[n], t[n])
  BY <1>1, <1>2, MovedMembers
<1> HIDE DEF t
<1>4. g[n] = k /\ \A i \in 1 .. n - 1 : g[i] = h[i]
  BY <1>1
<1> HIDE DEF g, n
<1>5. Len(s) = n
  BY DEF n
<1>6. n \in 1 .. Len(s) /\ Len(s) \in Nat /\ Len(t) \in Nat /\ n <= Len(t) /\ n .. Len(t) - 1 = {}
  BY <1>1, <1>2, <1>5
<1>7. IsTop(t[Len(t)], g[Len(t)], e2, buf)
  BY <1>1, <1>2, <1>4
<1>8. \A i \in 1 .. n - 1 : t[i] = s[i] /\ g[i] = h[i]
  BY <1>2, <1>4
<1>9. g[n].whole = h[n].whole /\ (s[n].role = "packed" => g[n].read = h[n].read)
  BY <1>1, <1>4, <1>5
<1>10. Tracks(t, g, e2, buf, all)
  BY <1>3, <1>6, <1>7, <1>8, <1>9, Retracked, ZenonT(60)
<1> QED BY <1>10 DEF t

(* The innermost activation calls another.                                 *)
LEMMA PushStep ==
  ASSUME NEW s, NEW buf, Nested(s, buf), s # <<>>, NEW h, NEW e, NEW all, Tracks(s, h, e, buf, all),
         NEW q, NEW obj, NEW k, NEW d, NEW l, k.whole = h[Len(s)].whole, Last(s).role # "packed",
         Nested(TopMoved(s, q, obj), buf),
         IsLink(Moved(Last(s), q, obj), k, d, l, e, buf),
         IsTop(d, l, e, buf)
  PROVE  \E g : Tracks(Append(TopMoved(s, q, obj), d), g, e, buf, all)
<1> DEFINE n == Len(s)
           t == TopMoved(s, q, obj)
           u == Append(t, d)
           g == [i \in 1 .. n + 1 |-> IF i = n + 1 THEN l ELSE IF i = n THEN k ELSE h[i]]
<1>1. n \in Nat \ {0} /\ Last(s) = s[n] /\ IsCursor(Last(s), buf)
  BY NestedTop
<1>2. Len(t) = n /\ t[n] = Moved(s[n], q, obj) /\ \A i \in 1 .. n - 1 : t[i] = s[i]
  BY <1>1, TopMovedParts
<1>3. SameSlot(s[n], t[n])
  BY <1>1, <1>2, MovedMembers
<1>4. IsSequence(t)
  BY DEF Nested
<1> HIDE DEF t
<1>5. Len(u) = n + 1 /\ u[n + 1] = d /\ u[n] = t[n] /\ \A i \in 1 .. n - 1 : u[i] = s[i]
  <2> DEFINE S == {t[i] : i \in DOMAIN t}
  <2>1. t \in Seq(S)
    BY <1>4 DEF IsSequence
  <2> HIDE DEF S
  <2>2. t \in Seq(S \cup {d}) /\ d \in S \cup {d}
    BY <2>1
  <2> DEFINE V == S \cup {d}
  <2> HIDE DEF V
  <2>3. Len(u) = Len(t) + 1 /\ u[Len(t) + 1] = d /\ \A i \in 1 .. Len(t) : u[i] = t[i]
    BY <2>2, AppendIs DEF V
  <2> QED BY <1>1, <1>2, <2>3
<1>6. g[n + 1] = l /\ g[n] = k /\ \A i \in 1 .. n - 1 : g[i] = h[i]
  BY <1>1
<1> HIDE DEF g, n, u
<1>7. Len(s) = n
  BY DEF n
<1>8. n \in 1 .. Len(s) /\ Len(s) \in Nat /\ Len(u) \in Nat /\ n <= Len(u) /\ n .. Len(u) - 1 = {n}
  BY <1>1, <1>5, <1>7
<1>9. IsTop(u[Len(u)], g[Len(u)], e, buf)
  BY <1>5, <1>6
<1>10. \A i \in n .. Len(u) - 1 : IsLink(u[i], g[i], u[i + 1], g[i + 1], e, buf)
  <2>1. IsLink(u[n], g[n], u[n + 1], g[n + 1], e, buf)
    BY <1>1, <1>2, <1>5, <1>6
  <2> QED BY <1>8, <2>1
<1>11. \A i \in 1 .. n - 1 : u[i] = s[i] /\ g[i] = h[i]
  BY <1>5, <1>6
<1>12. SameSlot(s[n], u[n]) /\ g[n].whole = h[n].whole /\ s[n].role # "packed"
  BY <1>1, <1>3, <1>5, <1>6, <1>7
<1>13. Tracks(u, g, e, buf, all)
  BY <1>8, <1>9, <1>10, <1>11, <1>12, Retracked
<1> QED BY <1>13 DEF u, t

(* The innermost activation ends, or is left.                              *)
LEMMA PopStep ==
  ASSUME NEW s, Len(s) \in Nat, Len(s) > 1, NEW h, NEW e, NEW buf, NEW all, Tracks(s, h, e, buf, all),
         NEW t, Len(t) = Len(s) - 1, \A i \in 1 .. Len(s) - 2 : t[i] = s[i],
         SameSlot(s[Len(s) - 1], t[Len(s) - 1]),
         NEW k, k.whole = h[Len(s) - 1].whole, IsTop(t[Len(s) - 1], k, e, buf)
  PROVE  \E g : Tracks(t, g, e, buf, all)
<1> DEFINE n == Len(s) - 1
           g == [i \in 1 .. n |-> IF i = n THEN k ELSE h[i]]
<1>1. n \in Nat \ {0} /\ n \in 1 .. Len(s) /\ Len(t) = n /\ n - 1 = Len(s) - 2 /\ n .. Len(t) - 1 = {}
  OBVIOUS
<1>2. g[n] = k /\ \A i \in 1 .. n - 1 : g[i] = h[i]
  BY <1>1
<1>3. s[n].role # "packed"
  <2>1. IsLink(s[n], h[n], s[n + 1], h[n + 1], e, buf)
    BY <1>1 DEF Tracks
  <2> QED BY <2>1 DEF IsLink
<1> HIDE DEF g
<1>4. SameSlot(s[n], t[n]) /\ k.whole = h[n].whole /\ IsTop(t[n], k, e, buf)
  OBVIOUS
<1>5. \A i \in 1 .. n - 1 : t[i] = s[i] /\ g[i] = h[i]
  BY <1>1, <1>2
<1> HIDE DEF n
<1>6. g[n].whole = h[n].whole /\ IsTop(t[Len(t)], g[Len(t)], e, buf)
  BY <1>1, <1>2, <1>4
<1>7. n \in 1 .. Len(s) /\ n <= Len(t) /\ Len(t) \in Nat /\ n .. Len(t) - 1 = {}
  BY <1>1
<1>8. g[n].whole = h[n].whole /\ (s[n].role = "packed" => g[n].read = h[n].read)
  BY <1>3, <1>6
<1>9. \A i \in n .. Len(t) - 1 : IsLink(t[i], g[i], t[i + 1], g[i + 1], e, buf)
  BY <1>7
<1>10. SameSlot(s[n], t[n]) /\ IsTop(t[Len(t)], g[Len(t)], e, buf)
  BY <1>4, <1>6
<1>11. Tracks(t, g, e, buf, all)
  <2>1. e = "none" => e = "none"
    OBVIOUS
  <2>2. Len(s) \in Nat
    OBVIOUS
  <2> QED BY <1>5, <1>7, <1>8, <1>9, <1>10, <2>1, <2>2, Retracked, ZenonT(60)
<1> QED BY <1>11

-----------------------------------------------------------------------------
LEMMA FieldOrNumber ==
  /\ "field" \in {"field"} \cup NumericTypes
  /\ ItemSet("field") = Fields
  /\ \A t \in NumericTypes : t # "field" /\ ItemSet(t) = Int /\ t \in {"field"} \cup NumericTypes
BY DEF ItemSet, NumericTypes, IntegralTypes, ZigZagTypes, FPTypes, VarintTypes, Fixed32Types, Fixed64Types

(* A field at fault: whatever follows, the message is rejected.            *)
LEMMA FaultyNext ==
  ASSUME NEW t \in DOMAIN Schema, NEW whole \in Seq(Byte), NEW read \in Seq(Fields), NEW x \in Fields,
         NEW m \in Seq(Fields), FieldList(whole) = Append(read, x) \o m,
         ~DecodeFields(t, Append(read, x)).ok
  PROVE  DoomedMessage(t, whole, read)
<1> DEFINE a == Append(read, x)
<1>1. a \in Seq(Fields)
  BY AppendIs
<1>2. Stuck(t, whole, read)
  BY DEF Stuck
<1> HIDE DEF a
<1>3. FieldList(whole) = a \o m /\ ~DecodeFields(t, a).ok
  BY DEF a
<1>4. ~DecodeFields(t, FieldList(whole)).ok
  BY <1>1, <1>3, ObjectShortens
<1>5. ~Decode[whole][t].ok
  BY <1>4, DecodeMade
<1> QED BY <1>2, <1>5 DEF DoomedMessage

LEMMA NothingNext ==
  ASSUME NEW t \in DOMAIN Schema, NEW whole \in Seq(Byte), NEW read \in Seq(Fields),
         Items[whole]["field"] = [ok |-> FALSE, list |-> read]
  PROVE  DoomedMessage(t, whole, read)
<1>1. FieldList(whole) = read /\ Items[whole]["field"].ok = FALSE
  BY DEF FieldList
<1>2. ~Decode[whole][t].ok
  BY <1>1, DecodeMade
<1> QED BY <1>1, <1>2 DEF DoomedMessage, Stuck

(* What the next field of a slice is at fault with.                        *)
LEMMA DoomedBy ==
  ASSUME NEW buf, NEW p, NEW end, Slice(buf, p, end), p < end, NEW t \in DOMAIN Schema,
         NEW whole \in Seq(Byte), NEW read \in Seq(Fields),
         Remaining("field", whole, read, Between(buf, p, end))
  PROVE  LET b == Between(buf, p, end)
             n == HeadLength("field", b)
             x == Item("field", SubSeq(b, 1, n))
         IN  n = 0 \/ ~DecodeFields(t, Append(read, x)).ok => DoomedMessage(t, whole, read)
<1> DEFINE b == Between(buf, p, end)
           n == HeadLength("field", b)
           x == Item("field", SubSeq(b, 1, n))
           m == Items[Between(buf, p + n, end)]["field"].list
<1>0. "field" \in {"field"} \cup NumericTypes /\ ItemSet("field") = Fields /\ read \in Seq(ItemSet("field"))
  BY FieldOrNumber
<1>2. p # end
  BY DEF Slice
<1>7. /\ n \in 0 .. end - p
      /\ n = 0 /\ p = end => Items[whole]["field"] = [ok |-> TRUE, list |-> read]
      /\ n = 0 /\ p # end => Items[whole]["field"] = [ok |-> FALSE, list |-> read]
      /\ n # 0 => /\ x \in ItemSet("field")
                  /\ Slice(buf, p + n, end)
                  /\ Append(read, x) \in Seq(ItemSet("field"))
                  /\ Remaining("field", whole, Append(read, x), Between(buf, p + n, end))
                  /\ Items[whole]["field"].list = Append(read, x) \o m
  <2>1. Taking(buf, p, end, "field", whole, read)
    BY <1>0, TakeOne
  <2> QED BY <2>1 DEF Taking
<1>1. /\ n \in 0 .. end - p
      /\ n = 0 => Items[whole]["field"] = [ok |-> FALSE, list |-> read]
      /\ n # 0 => x \in Fields /\ Slice(buf, p + n, end)
  <2> HIDE DEF b, n, x, m
  <2> QED BY <1>0, <1>2, <1>7
<1>6. n # 0 => Items[whole]["field"].list = Append(read, x) \o m
  <2> HIDE DEF b, n, x, m
  <2> QED BY <1>7
<1>3. n # 0 => m \in Seq(Fields)
  <2>1. n # 0 => Between(buf, p + n, end) \in Seq(Byte)
    BY <1>1, BetweenIs
  <2>2. n # 0 => FieldList(Between(buf, p + n, end)) \in Seq(Fields)
    BY <2>1, FieldListType
  <2> QED BY <2>2 DEF FieldList
<1> HIDE DEF b, n, x, m
<1>4. CASE n = 0
  <2>1. Items[whole]["field"] = [ok |-> FALSE, list |-> read]
    BY <1>1, <1>4
  <2>2. DoomedMessage(t, whole, read)
    BY <2>1, NothingNext
  <2> QED BY <2>2
<1>5. CASE n # 0
  <2>1. ~DecodeFields(t, Append(read, x)).ok => DoomedMessage(t, whole, read)
    BY <1>1, <1>3, <1>5, <1>6, FaultyNext DEF FieldList
  <2> QED BY <1>5, <2>1 DEF b, n, x
<1> QED BY <1>4, <1>5

-----------------------------------------------------------------------------
(* The innermost decode() at a field.                                      *)
NextField == Item("field", SubSeq(Between(input, Top.ptr, Top.end), 1, HeadLength("field", Between(input, Top.ptr, Top.end))))
NextLength == HeadLength("field", Between(input, Top.ptr, Top.end))

Tracked(h) == Tracks(stack, h, err, input, FlattenSeq(fed))

LEMMA AtFieldFacts ==
  ASSUME IInv, AtField, NEW h, Tracked(h)
  PROVE  LET k == h[Len(stack)]
         IN  /\ stack # <<>> /\ err = "none" /\ Nested(stack, input) /\ Last(stack) = Top
             /\ IsCursor(Top, input) /\ Slice(input, Top.ptr, Top.end) /\ Top.ptr < Top.end
             /\ Top.role # "packed" /\ Top.type \in DOMAIN Schema
             /\ k.whole \in Seq(Byte) /\ k.read \in Seq(Fields)
             /\ DecodeFields(Top.type, k.read) = Ok(Top.obj)
             /\ Remaining("field", k.whole, k.read, Between(input, Top.ptr, Top.end))
<1> DEFINE k == h[Len(stack)]
<1>1. stack # <<>> /\ err = "none" /\ Top.role # "packed" /\ Top.ptr < Top.end
  BY DEF AtField, Running
<1>2. Nested(stack, input)
  BY DEF IInv
<1>3. IsCursor(Top, input) /\ Slice(input, Top.ptr, Top.end) /\ Last(stack) = Top /\ Top = stack[Len(stack)]
  BY <1>1, TopFacts DEF Top
<1>4. Top.type \in DOMAIN Schema
  BY <1>1, <1>3 DEF IsCursor
<1>5. IsTop(Top, k, "none", input)
  BY <1>1, <1>3 DEF Tracked, Tracks
<1> HIDE DEF k
<1>6. What(Top) = "field"
  BY <1>1 DEF What
<1>7. k.whole \in Seq(Byte) /\ k.read \in Seq(Fields) /\ DecodeFields(Top.type, k.read) = Ok(Made(Top, k))
  BY <1>1, <1>5, <1>6, FieldOrNumber DEF IsTop, Sound
<1>8. Top.obj = Made(Top, k) /\ Remaining("field", k.whole, k.read, Between(input, Top.ptr, Top.end))
  BY <1>1, <1>5, <1>6 DEF IsTop
<1> QED BY <1>1, <1>2, <1>3, <1>4, <1>7, <1>8 DEF k

LEMMA CompleteIs ==
  ASSUME IInv, stack # <<>>, NEW r, NEW obj, Complete(r, obj)
  PROVE  /\ err' = r.err /\ input' = input /\ fed' = fed
         /\ stack' = TopMoved(stack, r.ptr, IF r.err = "none" THEN obj ELSE Top.obj)
<1> DEFINE x == IF r.err = "none" THEN obj ELSE stack[Len(stack)].obj
<1>1. Nested(stack, input) /\ Top = stack[Len(stack)]
  BY TopFacts DEF IInv
<1>2. stack' = Completed(stack, r.ptr, x)
  BY DEF Complete, Completed
<1> HIDE DEF x
<1>3. stack' = TopMoved(stack, r.ptr, x)
  BY <1>1, <1>2, TopMovedIs
<1>4. err' = r.err /\ input' = input /\ fed' = fed
  BY DEF Complete
<1> QED BY <1>1, <1>3, <1>4 DEF x

(* The field is what the rules take it for.                                *)
LEMMA FieldTaken ==
  ASSUME IInv, AtField, NEW h, Tracked(h), NEW r, NEW obj, Complete(r, obj),
         r.err = "none", NextLength # 0, r.ptr = Top.ptr + NextLength,
         DecodeFields(Top.type, Append(h[Len(stack)].read, NextField)) = Ok(obj)
  PROVE  \E g : Tracked(g)'
<1> DEFINE n == NextLength
           x == NextField
           k == h[Len(stack)]
           d == Moved(Top, Top.ptr + n, obj)
           l == [whole |-> k.whole, read |-> Append(k.read, x), pend |-> x]
<1>1. /\ stack # <<>> /\ err = "none" /\ Nested(stack, input) /\ Last(stack) = Top
      /\ IsCursor(Top, input) /\ Slice(input, Top.ptr, Top.end)
      /\ Top.role # "packed" /\ Top.type \in DOMAIN Schema
      /\ k.whole \in Seq(Byte) /\ k.read \in Seq(Fields)
      /\ Remaining("field", k.whole, k.read, Between(input, Top.ptr, Top.end))
  BY AtFieldFacts
<1>2. err' = "none" /\ input' = input /\ fed' = fed /\ stack' = TopMoved(stack, Top.ptr + n, obj)
  BY <1>1, CompleteIs
<1>3. /\ Append(k.read, x) \in Seq(Fields)
      /\ Remaining("field", k.whole, Append(k.read, x), Between(input, Top.ptr + n, Top.end))
  <2> HIDE DEF k
  <2>1. Taking(input, Top.ptr, Top.end, "field", k.whole, k.read)
    BY <1>1, FieldOrNumber, TakeOne
  <2> QED BY <2>1, FieldOrNumber DEF NextField, NextLength, Taking
<1>4. d.ptr = Top.ptr + n /\ d.end = Top.end /\ d.obj = obj /\ SameSlot(Top, d)
  BY <1>1, MovedMembers
<1>5. DecodeFields(Top.type, Append(k.read, x)) = Ok(obj)
  OBVIOUS
<1> HIDE DEF k, x, n, d
<1>6. l.whole = k.whole /\ l.read = Append(k.read, x)
  OBVIOUS
<1> HIDE DEF l
<1>7. d.role # "packed" /\ d.type = Top.type /\ What(d) = "field"
  BY <1>1, <1>4 DEF SameSlot, What
<1>8. Made(d, l) = obj
  <2>1. DecodeFields(d.type, l.read) = Ok(obj)
    BY <1>5, <1>6, <1>7
  <2> QED BY <2>1, OkIs DEF Made
<1>9. IsTop(d, l, "none", input)
  BY <1>1, <1>3, <1>4, <1>5, <1>6, <1>7, <1>8, FieldOrNumber DEF IsTop, Sound
<1>10. Tracks(stack, h, "none", input, FlattenSeq(fed))
  BY <1>1 DEF Tracked
<1>11. \E g : Tracks(TopMoved(stack, Top.ptr + n, obj), g, "none", input, FlattenSeq(fed))
  BY <1>1, <1>6, <1>9, <1>10, TopStep DEF d, k
<1> QED BY <1>2, <1>11 DEF Tracked

LEMMA NearItself ==
  ASSUME NEW t, NEW o, Object(t, o), NEW f
  PROVE  Near(o, o, f)
<1>1. DOMAIN o.val = DOMAIN Schema[t]
  BY DEF Object
<1> QED BY <1>1 DEF Object, Near

(* The field is rejected, as the rules have it.                            *)
LEMMA FieldFails ==
  ASSUME IInv, AtField, NEW h, Tracked(h), NEW r, NEW obj, Complete(r, obj), r.err # "none",
         NextLength = 0 \/ ~DecodeFields(Top.type, Append(h[Len(stack)].read, NextField)).ok
  PROVE  \E g : Tracked(g)'
<1> DEFINE k == h[Len(stack)]
           d == Moved(Top, r.ptr, Top.obj)
<1>1. /\ stack # <<>> /\ err = "none" /\ Nested(stack, input) /\ Last(stack) = Top
      /\ IsCursor(Top, input) /\ Slice(input, Top.ptr, Top.end) /\ Top.ptr < Top.end
      /\ Top.role # "packed" /\ Top.type \in DOMAIN Schema
      /\ k.whole \in Seq(Byte) /\ k.read \in Seq(Fields)
      /\ DecodeFields(Top.type, k.read) = Ok(Top.obj)
      /\ Remaining("field", k.whole, k.read, Between(input, Top.ptr, Top.end))
  BY AtFieldFacts
<1>2. err' = r.err /\ input' = input /\ fed' = fed /\ stack' = TopMoved(stack, r.ptr, Top.obj)
  BY <1>1, CompleteIs
<1>3. DoomedMessage(Top.type, k.whole, k.read)
  <2> HIDE DEF k
  <2>1. NextLength = 0 \/ ~DecodeFields(Top.type, Append(k.read, NextField)).ok
    BY DEF k
  <2> QED BY <1>1, <2>1, DoomedBy DEF NextLength, NextField
<1>4. d.ptr = r.ptr /\ d.end = Top.end /\ d.obj = Top.obj /\ SameSlot(Top, d)
  BY <1>1, MovedMembers
<1> HIDE DEF k, d
<1>5. d.role # "packed" /\ d.type = Top.type /\ What(d) = "field"
  BY <1>1, <1>4 DEF SameSlot, What
<1>6. Made(d, k) = Top.obj
  <2>1. DecodeFields(d.type, k.read) = Ok(Top.obj)
    BY <1>1, <1>5
  <2> QED BY <2>1, OkIs DEF Made
<1>7. Near(Top.obj, Top.obj, 0)
  BY <1>1, ObjectMade, NearItself
<1>8. Sound(d, k)
  BY <1>1, <1>5, <1>6, FieldOrNumber DEF Sound
<1>9. IsTop(d, k, r.err, input)
  <2>1. \E f : Near(d.obj, Made(d, k), f)
    BY <1>4, <1>6, <1>7
  <2>2. Doomed(d, k)
    BY <1>3, <1>5 DEF Doomed
  <2> QED BY <1>8, <2>1, <2>2 DEF IsTop
<1>10. Tracks(stack, h, "none", input, FlattenSeq(fed))
  BY <1>1 DEF Tracked
<1>11. \E g : Tracks(TopMoved(stack, r.ptr, Top.obj), g, r.err, input, FlattenSeq(fed))
  <2>1. k.whole = h[Len(stack)].whole /\ (Last(stack).role = "packed" => k.read = h[Len(stack)].read)
    BY DEF k
  <2>2. IsTop(Moved(Last(stack), r.ptr, Top.obj), k, r.err, input)
    BY <1>1, <1>9 DEF d
  <2>3. r.err = "none" => "none" = "none"
    OBVIOUS
  <2> QED BY <1>1, <1>10, <2>1, <2>2, <2>3, TopStep
<1> QED BY <1>2, <1>11 DEF Tracked

-----------------------------------------------------------------------------
(* The object with one more occurrence of a field.                         *)
Updated(t, obj, f, v) ==
  [ has |-> IF f \in Flagged(t) THEN obj.has \cup {f} ELSE obj.has,
    val |-> [obj.val EXCEPT ![f] = Extended(Schema[t][f].kind, obj.val[f], v)] ]

Updating(t, o, f, v) ==
  LET kind == Schema[t][f].kind
  IN  /\ kind \in {"scalar", "bytearray", "message"} => Updated(t, o, f, v) = Assign(o, f, v)
      /\ kind \in {"repeated_bytearray", "repeated_message"} => Updated(t, o, f, v) = PushBack(o, f, v)
      /\ kind = "repeated" =>
           /\ Updated(t, o, f, v) = [has |-> o.has, val |-> [o.val EXCEPT ![f] = o.val[f] \o v]]
           /\ v \in Int => Updated(t, o, f, <<v>>) = PushBack(o, f, v)
      /\ kind = "map" =>
           Updated(t, o, f, v) =
             IF {1, 2} \subseteq v.has THEN InsertEntry(o, f, v.val[1], v.val[2]) ELSE o

LEMMA UpdatedIs ==
  ASSUME NEW t \in DOMAIN Schema, NEW o, Object(t, o), NEW f \in DOMAIN Schema[t], NEW v
  PROVE  Updating(t, o, f, v)
<1> DEFINE kind == Schema[t][f].kind
           has == o.has
           val == o.val
<1>1. o = [has |-> has, val |-> val] /\ val = [g \in DOMAIN Schema[t] |-> val[g]]
      /\ (kind = "repeated" => val[f] \in Seq(Int))
  BY DEF Object
<1>2. f \in Flagged(t) <=> kind \in {"scalar", "bytearray", "message"}
  BY DEF Flagged
<1>3. \A u : Updated(t, o, f, u) = [ has |-> IF f \in Flagged(t) THEN has \cup {f} ELSE has,
                                     val |-> [val EXCEPT ![f] = Extended(kind, val[f], u)] ]
  BY DEF Updated
<1>4. \A u : [o EXCEPT !.val[f] = u] = [has |-> has, val |-> [val EXCEPT ![f] = u]]
  <2> HIDE DEF has, val
  <2> QED BY <1>1
<1>5. \A u : Assign(o, f, u) = [has |-> has \cup {f}, val |-> [val EXCEPT ![f] = u]]
  <2>1. \A u : Assign(o, f, u) = [[o EXCEPT !.val[f] = u] EXCEPT !.has = o.has \cup {f}]
    BY <1>1 DEF Assign
  <2>2. \A u : Assign(o, f, u) = [[has |-> has, val |-> [val EXCEPT ![f] = u]] EXCEPT !.has = has \cup {f}]
    BY <1>4, <2>1
  <2>3. \A a, b, c : [[has |-> a, val |-> b] EXCEPT !.has = c] = [has |-> c, val |-> b]
    OBVIOUS
  <2> TAKE u
  <2> DEFINE w == [val EXCEPT ![f] = u]
  <2>4. Assign(o, f, u) = [[has |-> has, val |-> w] EXCEPT !.has = has \cup {f}]
    BY <2>2
  <2> HIDE DEF has, w
  <2>5. Assign(o, f, u) = [has |-> has \cup {f}, val |-> w]
    BY <2>3, <2>4
  <2> QED BY <2>5 DEF w
<1>6. \A u : PushBack(o, f, u) = [has |-> has, val |-> [val EXCEPT ![f] = Append(val[f], u)]]
  <2>1. \A u : PushBack(o, f, u) = [o EXCEPT !.val[f] = Append(val[f], u)]
    BY DEF PushBack
  <2> QED BY <1>4, <2>1
<1>7. ASSUME kind \in {"scalar", "bytearray", "message"}
      PROVE  Updated(t, o, f, v) = Assign(o, f, v)
  <2>1. Extended(kind, val[f], v) = v
    BY <1>7, ExtendedIs
  <2> HIDE DEF has, val, kind
  <2> QED BY <1>2, <1>3, <1>5, <1>7, <2>1
<1>8. ASSUME kind \in {"repeated_bytearray", "repeated_message"}
      PROVE  Updated(t, o, f, v) = PushBack(o, f, v)
  <2>1. Extended(kind, val[f], v) = Append(val[f], v)
    BY <1>8, ExtendedIs
  <2> HIDE DEF has, val, kind
  <2> QED BY <1>2, <1>3, <1>6, <1>8, <2>1
<1>9. ASSUME kind = "repeated"
      PROVE  /\ Updated(t, o, f, v) = [has |-> has, val |-> [val EXCEPT ![f] = val[f] \o v]]
             /\ v \in Int => Updated(t, o, f, <<v>>) = PushBack(o, f, v)
  <2>1. \A u : Extended(kind, val[f], u) = val[f] \o u
    BY <1>9, ExtendedIs
  <2>2. v \in Int => val[f] \o <<v>> = Append(val[f], v)
    BY <1>1, <1>9, AppendedOne
  <2> HIDE DEF has, val, kind
  <2>3. \A u : Updated(t, o, f, u) = [has |-> has, val |-> [val EXCEPT ![f] = val[f] \o u]]
    BY <1>2, <1>3, <1>9, <2>1
  <2> QED BY <1>6, <2>2, <2>3
<1>10. ASSUME kind = "map"
       PROVE  Updated(t, o, f, v) = IF {1, 2} \subseteq v.has THEN InsertEntry(o, f, v.val[1], v.val[2]) ELSE o
  <2> DEFINE old == val[f]
             new == [k \in DOMAIN old \cup {v.val[1]} |-> IF k = v.val[1] THEN v.val[2] ELSE old[k]]
  <2>1. Extended(kind, old, v) = IF {1, 2} \subseteq v.has THEN new ELSE old
    <3>1. Extended("map", old, v) = IF {1, 2} \subseteq v.has THEN new ELSE old
      <4> HIDE DEF old, kind
      <4> QED BY ExtendedMap
    <3> HIDE DEF new, old, kind
    <3> QED BY <1>10, <3>1
  <2>2. InsertEntry(o, f, v.val[1], v.val[2]) = [o EXCEPT !.val[f] = new]
    BY DEF InsertEntry
  <2>3. [val EXCEPT ![f] = old] = val
    BY <1>1
  <2> HIDE DEF new, old, has, val, kind
  <2>4. Updated(t, o, f, v) = [has |-> has, val |-> [val EXCEPT ![f] = Extended(kind, old, v)]]
    BY <1>2, <1>3, <1>10 DEF old
  <2>5. CASE {1, 2} \subseteq v.has
    BY <1>4, <2>1, <2>2, <2>4, <2>5
  <2>6. CASE ~({1, 2} \subseteq v.has)
    BY <1>1, <2>1, <2>3, <2>4, <2>6
  <2> QED BY <2>5, <2>6
<1> QED BY <1>7, <1>8, <1>9, <1>10 DEF Updating

-----------------------------------------------------------------------------
(* What the tag says of the next field.                                    *)
ValueBytes == Between(input, TagRead.ptr, Top.end)
ValueSize == ValueLength(WireType, ValueBytes)

LEMMA TagStep ==
  ASSUME IInv, AtField
  PROVE  /\ ~TagOk => NextLength = 0
         /\ TagOk =>
              /\ Slice(input, TagRead.ptr, Top.end)
              /\ ValueSize = 0 => NextLength = 0
              /\ ValueSize # 0 =>
                   /\ NextLength # 0
                   /\ Top.ptr + NextLength = TagRead.ptr + ValueSize
                   /\ NextField = [num |-> FieldNum, wire |-> WireType, body |-> SubSeq(ValueBytes, 1, ValueSize)]
                   /\ NextField \in Fields
<1> DEFINE b == Between(input, Top.ptr, Top.end)
           n == FieldLength(b)
           m == ValueSize
           x == FieldIn(SubSeq(b, 1, n))
<1>1. stack # <<>> /\ Slice(input, Top.ptr, Top.end)
  BY TagFacts, TopFacts
<1>2. NextLength = n /\ (n # 0 => NextField = x)
  BY DEF NextLength, NextField, HeadLength, Item
<1>3. /\ ~(TagRead.err = "none" /\ TagRead.val < U32) => n = 0
      /\ TagRead.err = "none" /\ TagRead.val < U32 =>
           /\ TagRead.ptr \in Top.ptr + 1 .. Top.end /\ Slice(input, TagRead.ptr, Top.end)
           /\ n = IF m = 0 THEN 0 ELSE (TagRead.ptr - Top.ptr) + m
           /\ m # 0 => /\ n \in 1 .. Top.end - Top.ptr /\ Top.ptr + n = TagRead.ptr + m
                       /\ x = [num |-> TagRead.val \div FIELDNUM_SCALE, wire |-> WireType, body |-> SubSeq(ValueBytes, 1, m)]
  BY <1>1, FieldRead DEF TagRead, WireType, ValueSize, ValueBytes
<1>4. NextLength # 0 => NextField \in Fields
  <2>1. b \in Seq(Byte)
    BY <1>1, BetweenIs
  <2> HIDE DEF b
  <2>2. HeadLength("field", b) # 0 => Item("field", SubSeq(b, 1, HeadLength("field", b))) \in ItemSet("field")
    BY <2>1, ItemType, FieldOrNumber
  <2> QED BY <2>2, FieldOrNumber DEF NextLength, NextField, b
<1> HIDE DEF b, n, m, x
<1>5. TagOk /\ m # 0 => n # 0
  BY <1>3 DEF TagOk
<1> QED BY <1>2, <1>3, <1>4, <1>5 DEF TagOk, FieldNum, m

(* The object with the next field.                                         *)
Current(list) == Append(Occurrences(list, FieldNum), NextField)
CurrentResult(list) == Occurrence(Decode, Field, Current(list), Len(Current(list)))

LEMMA NextMakes ==
  ASSUME IInv, AtField, TagOk, NextLength # 0, NEW h, Tracked(h)
  PROVE  LET list == h[Len(stack)].read
             r == CurrentResult(list)
         IN  /\ NextField \in Fields /\ NextField.num = FieldNum /\ NextField.wire = WireType
             /\ Current(list) \in Seq(Fields) /\ Len(Current(list)) \in DOMAIN Current(list)
             /\ Current(list)[Len(Current(list))] = NextField
             /\ Object(Top.type, Top.obj)
             /\ ~Known => DecodeFields(Top.type, Append(list, NextField)) = Ok(Top.obj)
             /\ Known => DecodeFields(Top.type, Append(list, NextField)) =
                           IF r.ok THEN Ok(Updated(Top.type, Top.obj, FieldNum, r.val)) ELSE Bad
<1> DEFINE list == h[Len(stack)].read
           x == NextField
           o == Current(list)
<1>1. list \in Seq(Fields) /\ Top.type \in DOMAIN Schema /\ DecodeFields(Top.type, list) = Ok(Top.obj)
  BY AtFieldFacts
<1>2. x \in Fields /\ x.num = FieldNum /\ x.wire = WireType
  BY TagStep
<1> HIDE DEF list, x
<1>3. o \in Seq(Fields) /\ Len(o) \in DOMAIN o /\ o[Len(o)] = x
  <2> DEFINE p == Occurrences(list, FieldNum)
  <2>1. p \in Seq(Fields)
    BY <1>1, PiecesType
  <2> HIDE DEF p
  <2>2. Append(p, x) \in Seq(Fields) /\ Len(Append(p, x)) = Len(p) + 1 /\ Append(p, x)[Len(p) + 1] = x
    BY <1>2, <2>1, AppendIs
  <2> QED BY <2>1, <2>2 DEF Current, p, x
<1>4. Object(Top.type, Top.obj)
  BY <1>1, ObjectMade
<1>5. /\ x.num \notin DOMAIN Schema[Top.type] => DecodeFields(Top.type, Append(list, x)) = Ok(Top.obj)
      /\ x.num \in DOMAIN Schema[Top.type] =>
           LET f == x.num
               F == Schema[Top.type][f]
               q == Append(Occurrences(list, f), x)
               r == Occurrence(Decode, F, q, Len(q))
           IN  DecodeFields(Top.type, Append(list, x)) =
                 IF r.ok
                 THEN Ok([ has |-> IF f \in Flagged(Top.type) THEN Top.obj.has \cup {f} ELSE Top.obj.has,
                           val |-> [Top.obj.val EXCEPT ![f] = Extended(F.kind, Top.obj.val[f], r.val)] ])
                 ELSE Bad
  BY <1>1, <1>2, ObjectAppend
<1>6. ~Known => DecodeFields(Top.type, Append(list, x)) = Ok(Top.obj)
  BY <1>2, <1>5 DEF Known
<1>7. Known => DecodeFields(Top.type, Append(list, x)) =
                 IF CurrentResult(list).ok THEN Ok(Updated(Top.type, Top.obj, FieldNum, CurrentResult(list).val)) ELSE Bad
  BY <1>2, <1>5 DEF Known, Field, Updated, CurrentResult, Current, x
<1> QED BY <1>2, <1>3, <1>4, <1>6, <1>7 DEF list, x

-----------------------------------------------------------------------------
(* What the readers of Decoder make of the next field.                     *)
LEMMA NumberRead ==
  ASSUME IInv, AtField, TagOk, NEW type \in NumericTypes, NEW r,
         r = ParseScalar(type, WireType, input, TagRead.ptr, Top.end)
  PROVE  /\ r.err = "none" => /\ NextLength # 0 /\ r.ptr = Top.ptr + NextLength
                              /\ Number(type, NextField) = Ok(r.val)
         /\ r.err # "none" => NextLength = 0 \/ Number(type, NextField) = Bad
<1> DEFINE n == ValueSize
           c == SubSeq(ValueBytes, 1, n)
           s == ParseScalar(type, WireType, c, 0, Len(c))
<1>1. Slice(input, TagRead.ptr, Top.end)
  BY TagStep
<1>2. /\ n = 0 \/ WireType \notin NumberWireTypes => r.err # "none"
      /\ n # 0 => (r.err = "none" <=> s.err = "none")
      /\ r.err = "none" => n \in 1 .. Top.end - TagRead.ptr /\ r = Read(s.val, TagRead.ptr + n)
  BY <1>1, ScalarRead DEF ValueSize, ValueBytes
<1>3. n # 0 => NextLength # 0 /\ Top.ptr + NextLength = TagRead.ptr + n
               /\ NextField.wire = WireType /\ NextField.body = c
  <2>1. n # 0 => NextField = [num |-> FieldNum, wire |-> WireType, body |-> c]
    BY TagStep
  <2> HIDE DEF c
  <2>2. n # 0 => NextLength # 0 /\ Top.ptr + NextLength = TagRead.ptr + n
    BY TagStep
  <2> QED BY <2>1, <2>2
<1>4. n = 0 => NextLength = 0
  BY TagStep
<1>5. n # 0 => Number(type, NextField) = IF s.err = "none" THEN Ok(s.val) ELSE Bad
  <2> HIDE DEF c, n
  <2> QED BY <1>3 DEF Number
<1> HIDE DEF n, c, s
<1>6. r.err = "none" => n # 0 /\ s.err = "none" /\ r.val = s.val /\ r.ptr = TagRead.ptr + n
  <2>1. r.err = "none" => n # 0 /\ s.err = "none" /\ r = Read(s.val, TagRead.ptr + n)
    BY <1>2
  <2> QED BY <2>1 DEF Read
<1>7. n # 0 /\ r.err # "none" => s.err # "none"
  BY <1>2
<1> QED BY <1>3, <1>4, <1>5, <1>6, <1>7

LEMMA ArrayRead ==
  ASSUME IInv, AtField, TagOk, NEW r, r = ParseByteArray(WireType, input, TagRead.ptr, Top.end)
  PROVE  /\ r.err = "none" => /\ WireType = Delimited /\ NextLength # 0 /\ r.ptr = Top.ptr + NextLength
                              /\ PayloadOf(NextField) = Payload(input, r)
                              /\ Payload(input, r) = Between(input, r.ptr - r.val, r.ptr)
                              /\ Slice(input, r.ptr - r.val, r.ptr)
         /\ r.err # "none" => NextLength = 0 \/ WireType # Delimited
<1> DEFINE n == ValueLength(Delimited, ValueBytes)
           v == HeadVarint(ValueBytes)
           c == SubSeq(ValueBytes, 1, n)
<1>1. Slice(input, TagRead.ptr, Top.end)
  BY TagStep
<1>2. CASE WireType # Delimited
  <2>1. r.err # "none"
    BY <1>2 DEF ParseByteArray, Throw
  <2> QED BY <1>2, <2>1
<1>3. CASE WireType = Delimited
  <2>1. /\ n = 0 => r.err # "none"
        /\ n # 0 => /\ n \in 1 .. Top.end - TagRead.ptr /\ v \in 0 .. n - 1
                    /\ r = Read(v, TagRead.ptr + n)
                    /\ AfterVarint(c) = Between(input, TagRead.ptr + n - v, TagRead.ptr + n)
                    /\ Slice(input, TagRead.ptr + n - v, TagRead.ptr + n)
    BY <1>1, <1>3, ByteArrayRead DEF ValueBytes
  <2>2. n = ValueSize
    BY <1>3 DEF ValueSize
  <2>3. n # 0 => NextField = [num |-> FieldNum, wire |-> WireType, body |-> c]
                 /\ NextLength # 0 /\ Top.ptr + NextLength = TagRead.ptr + n
    BY <2>2, TagStep
  <2>4. n = 0 => NextLength = 0
    BY <2>2, TagStep
  <2> HIDE DEF n, v, c
  <2>5. CASE n = 0
    BY <2>1, <2>4, <2>5
  <2>6. CASE n # 0
    <3>1. r.err = "none" /\ r.val = v /\ r.ptr = TagRead.ptr + n
      BY <2>1, <2>6 DEF Read
    <3>2. PayloadOf(NextField) = AfterVarint(c)
      BY <2>3, <2>6 DEF PayloadOf
    <3>3. Payload(input, r) = Between(input, r.ptr - r.val, r.ptr)
      BY DEF Payload, Between
    <3>4. AfterVarint(c) = Between(input, r.ptr - r.val, r.ptr) /\ Slice(input, r.ptr - r.val, r.ptr)
      <4>1. r.ptr - r.val = TagRead.ptr + n - v
        <5>1. TagRead.ptr \in Int /\ n \in Int /\ v \in Int
          BY <1>1, <2>1, <2>6 DEF Slice
        <5> DEFINE p == TagRead.ptr
        <5> HIDE DEF p
        <5>2. p + n - v = (p + n) - v
          BY <5>1 DEF p
        <5> QED BY <3>1, <5>2 DEF p
      <4>2. /\ AfterVarint(c) = Between(input, TagRead.ptr + n - v, TagRead.ptr + n)
            /\ Slice(input, TagRead.ptr + n - v, TagRead.ptr + n)
        BY <2>1, <2>6
      <4> QED BY <3>1, <4>1, <4>2
    <3> QED BY <1>3, <2>3, <2>6, <3>1, <3>2, <3>3, <3>4
  <2> QED BY <2>5, <2>6
<1> QED BY <1>2, <1>3

-----------------------------------------------------------------------------
FieldIs(list) ==
  LET r == CurrentResult(list)
      o == Current(list)
  IN  /\ Result(r)
      /\ Field.kind = "scalar" => r = Number(Field.type, NextField)
      /\ Field.kind = "repeated" => r = Numbers(Field.type, NextField)
      /\ Field.kind \in {"bytearray", "repeated_bytearray"} =>
           r = IF WireType = Delimited THEN Ok(PayloadOf(NextField)) ELSE Bad
      /\ Field.kind \in {"message", "repeated_message", "map"} =>
           r = IF WireType = Delimited THEN Decode[Source(Field.kind, o, Len(o))][Field.type] ELSE Bad

LEMMA CurrentIs ==
  ASSUME IInv, AtField, TagOk, Known, NextLength # 0, NEW h, Tracked(h)
  PROVE  FieldIs(h[Len(stack)].read) /\ ValidField(Field)
<1> DEFINE list == h[Len(stack)].read
           o == Current(list)
           r == CurrentResult(list)
<1>1. NextField \in Fields /\ NextField.wire = WireType /\ o \in Seq(Fields) /\ Len(o) \in DOMAIN o /\ o[Len(o)] = NextField
  BY NextMakes
<1>2. Top.type \in DOMAIN Schema /\ FieldNum \in DOMAIN Schema[Top.type]
  BY AtFieldFacts DEF Known
<1>3. ValidField(Field)
  BY <1>2, FieldsValid DEF Field
<1>4. r = Occurrence(Decode, Field, o, Len(o))
  BY DEF CurrentResult
<1> HIDE DEF list
<1> HIDE DEF o, r
<1>5. Result(r)
  BY <1>1, <1>3, <1>4, OccurrenceResult
<1>6. /\ Field.kind = "scalar" => r = Number(Field.type, NextField)
      /\ Field.kind = "repeated" => r = Numbers(Field.type, NextField)
      /\ Field.kind \in {"bytearray", "repeated_bytearray"} =>
           r = IF WireType = Delimited THEN Ok(PayloadOf(NextField)) ELSE Bad
      /\ Field.kind \in {"message", "repeated_message", "map"} =>
           r = IF WireType = Delimited THEN Decode[Source(Field.kind, o, Len(o))][Field.type] ELSE Bad
  BY <1>1, <1>4, OccurrenceIs
<1> QED BY <1>3, <1>5, <1>6 DEF FieldIs, list, o, r

(* A field that is read at once.                                           *)
LEMMA FieldEnds ==
  ASSUME IInv, AtField, TagOk, Known, NEW h, Tracked(h), NEW r, NEW obj, Complete(r, obj), NEW q,
         NextLength # 0 => q = CurrentResult(h[Len(stack)].read),
         r.err = "none" => /\ NextLength # 0 /\ r.ptr = Top.ptr + NextLength
                           /\ q.ok /\ obj = Updated(Top.type, Top.obj, FieldNum, q.val),
         r.err # "none" => NextLength = 0 \/ ~q.ok
  PROVE  \E g : Tracked(g)'
<1> DEFINE list == h[Len(stack)].read
<1>1. NextLength # 0 => DecodeFields(Top.type, Append(list, NextField)) =
                          IF q.ok THEN Ok(Updated(Top.type, Top.obj, FieldNum, q.val)) ELSE Bad
  BY NextMakes
<1> HIDE DEF list
<1>2. CASE r.err = "none"
  <2>1. DecodeFields(Top.type, Append(list, NextField)) = Ok(obj)
    BY <1>1, <1>2
  <2> QED BY <1>2, <2>1, FieldTaken DEF list
<1>3. CASE r.err # "none"
  <2>1. NextLength # 0 => DecodeFields(Top.type, Append(list, NextField)) = Bad
    BY <1>1, <1>3
  <2>2. NextLength = 0 \/ ~DecodeFields(Top.type, Append(list, NextField)).ok
    BY <2>1, OkIs
  <2> QED BY <1>3, <2>2, FieldFails DEF list
<1> QED BY <1>2, <1>3

-----------------------------------------------------------------------------
(* The object that a method of Decoder makes is the one of the rules.      *)
LEMMA TopUpdated ==
  ASSUME IInv, AtField, Known, NEW h, Tracked(h), NEW v
  PROVE  /\ Field.kind \in {"scalar", "bytearray", "message"} =>
              Updated(Top.type, Top.obj, FieldNum, v) = Assign(Top.obj, FieldNum, v)
         /\ Field.kind \in {"repeated_bytearray", "repeated_message"} =>
              Updated(Top.type, Top.obj, FieldNum, v) = PushBack(Top.obj, FieldNum, v)
         /\ Field.kind = "repeated" /\ v \in Int =>
              Updated(Top.type, Top.obj, FieldNum, <<v>>) = PushBack(Top.obj, FieldNum, v)
<1> DEFINE list == h[Len(stack)].read
<1>1. Top.type \in DOMAIN Schema /\ FieldNum \in DOMAIN Schema[Top.type]
  BY AtFieldFacts DEF Known
<1>2. list \in Seq(Fields) /\ DecodeFields(Top.type, list) = Ok(Top.obj)
  BY AtFieldFacts
<1> HIDE DEF list
<1>3. Object(Top.type, Top.obj)
  BY <1>1, <1>2, ObjectMade
<1> DEFINE t == Top.type
           o == Top.obj
           f == FieldNum
           kind == Schema[t][f].kind
<1>4. t \in DOMAIN Schema /\ Object(t, o) /\ f \in DOMAIN Schema[t] /\ kind = Field.kind
  BY <1>1, <1>3 DEF Field
<1> HIDE DEF t, o, f
<1>5. /\ kind \in {"scalar", "bytearray", "message"} => Updated(t, o, f, v) = Assign(o, f, v)
      /\ kind \in {"repeated_bytearray", "repeated_message"} => Updated(t, o, f, v) = PushBack(o, f, v)
      /\ kind = "repeated" => (v \in Int => Updated(t, o, f, <<v>>) = PushBack(o, f, v))
  <2>1. Updating(t, o, f, v)
    BY <1>4, UpdatedIs
  <2> QED BY <2>1 DEF Updating
<1> HIDE DEF kind
<1> QED BY <1>4, <1>5 DEF t, o, f

LEMMA ScalarTracked ==
  ASSUME IInv, AtField, TagOk, Known, GetScalar, NEW h, Tracked(h)
  PROVE  \E g : Tracked(g)'
<1>1. PICK r : /\ r = ParseScalar(Field.type, WireType, input, TagRead.ptr, Top.end)
               /\ Complete(r, Assign(Top.obj, FieldNum, r.val))
  BY DEF GetScalar
<1>2. Field.kind = "scalar"
  BY DEF GetScalar
<1> DEFINE q == Number(Field.type, NextField)
           obj == Assign(Top.obj, FieldNum, r.val)
<1>3. Field.type \in NumericTypes
  <2>1. Top.type \in DOMAIN Schema /\ FieldNum \in DOMAIN Schema[Top.type]
    BY AtFieldFacts DEF Known
  <2>2. ValidField(Field)
    BY <2>1, FieldsValid DEF Field
  <2> QED BY <1>2, <2>2 DEF ValidField
<1>4. /\ r.err = "none" => NextLength # 0 /\ r.ptr = Top.ptr + NextLength /\ q = Ok(r.val)
      /\ r.err # "none" => NextLength = 0 \/ q = Bad
  BY <1>1, <1>3, NumberRead
<1>5. NextLength # 0 => q = CurrentResult(h[Len(stack)].read)
  BY <1>2, CurrentIs DEF FieldIs
<1>6. Updated(Top.type, Top.obj, FieldNum, r.val) = obj
  BY <1>2, TopUpdated
<1>7. Complete(r, obj)
  BY <1>1
<1> HIDE DEF q, obj
<1>8. r.err = "none" => q.ok /\ q.val = r.val
  BY <1>4, OkIs
<1>9. r.err # "none" => NextLength = 0 \/ ~q.ok
  BY <1>4, OkIs
<1> QED BY <1>4, <1>5, <1>6, <1>7, <1>8, <1>9, FieldEnds

LEMMA UnpackedTracked ==
  ASSUME IInv, AtField, TagOk, Known, GetRepeatedUnpacked, NEW h, Tracked(h)
  PROVE  \E g : Tracked(g)'
<1>1. PICK r : /\ r = ParseScalar(Field.type, WireType, input, TagRead.ptr, Top.end)
               /\ Complete(r, PushBack(Top.obj, FieldNum, r.val))
  BY DEF GetRepeatedUnpacked
<1>2. Field.kind = "repeated" /\ WireType # Delimited
  BY DEF GetRepeatedUnpacked
<1> DEFINE n == Number(Field.type, NextField)
           q == Numbers(Field.type, NextField)
           obj == PushBack(Top.obj, FieldNum, r.val)
<1>3. Field.type \in NumericTypes
  <2>1. Top.type \in DOMAIN Schema /\ FieldNum \in DOMAIN Schema[Top.type]
    BY AtFieldFacts DEF Known
  <2>2. ValidField(Field)
    BY <2>1, FieldsValid DEF Field
  <2> QED BY <1>2, <2>2 DEF ValidField
<1>4. /\ r.err = "none" => NextLength # 0 /\ r.ptr = Top.ptr + NextLength /\ n = Ok(r.val)
      /\ r.err # "none" => NextLength = 0 \/ n = Bad
  BY <1>1, <1>3, NumberRead
<1>5. NextLength # 0 => q = CurrentResult(h[Len(stack)].read) /\ NextField.wire = WireType /\ NextField \in Fields
  BY <1>2, CurrentIs, TagStep DEF FieldIs
<1>6. NextLength # 0 => q = IF n.ok THEN Ok(<<n.val>>) ELSE Bad
  BY <1>2, <1>5 DEF Numbers
<1>7. Complete(r, obj)
  BY <1>1
<1>8. NextLength # 0 /\ q.ok => q.val \in Seq(Int)
  BY <1>3, <1>5, NumbersType
<1> HIDE DEF q, obj, n
<1>9. r.err = "none" => q = Ok(<<r.val>>) /\ q.ok /\ q.val = <<r.val>> /\ r.val \in Int
  <2>1. ASSUME r.err = "none"
        PROVE  q = Ok(<<r.val>>)
    BY <1>4, <1>6, <2>1, OkIs
  <2>2. ASSUME r.err = "none"
        PROVE  q.ok /\ q.val = <<r.val>>
    <3> DEFINE s == <<r.val>>
    <3> HIDE DEF s
    <3>1. q = Ok(s)
      BY <2>1, <2>2 DEF s
    <3>2. q.ok /\ q.val = s
      BY <3>1, OkIs
    <3> QED BY <3>2 DEF s
  <2>3. ASSUME r.err = "none"
        PROVE  r.val \in Int
    <3>1. <<r.val>> \in Seq(Int)
      BY <1>4, <1>8, <2>2, <2>3
    <3>2. 1 \in 1 .. Len(<<r.val>>) /\ <<r.val>>[1] = r.val
      OBVIOUS
    <3> QED BY <3>1, <3>2
  <2> QED BY <2>1, <2>2, <2>3
<1>10. r.err # "none" => NextLength = 0 \/ ~q.ok
  BY <1>4, <1>6, OkIs
<1>11. r.err = "none" => Updated(Top.type, Top.obj, FieldNum, q.val) = obj
  BY <1>2, <1>9, TopUpdated DEF obj
<1> QED BY <1>4, <1>5, <1>7, <1>9, <1>10, <1>11, FieldEnds

LEMMA ArrayTracked ==
  ASSUME IInv, AtField, TagOk, Known, GetByteArray \/ GetRepeatedByteArray, NEW h, Tracked(h)
  PROVE  \E g : Tracked(g)'
<1>1. PICK r, obj : /\ r = ParseByteArray(WireType, input, TagRead.ptr, Top.end)
                    /\ Complete(r, obj)
                    /\ r.err = "none" =>
                         \/ Field.kind = "bytearray" /\ obj = Assign(Top.obj, FieldNum, Payload(input, r))
                         \/ Field.kind = "repeated_bytearray" /\ obj = PushBack(Top.obj, FieldNum, Payload(input, r))
  <2>1. CASE GetByteArray
    <3>1. PICK r : /\ r = ParseByteArray(WireType, input, TagRead.ptr, Top.end)
                   /\ Complete(r, IF r.err = "none" THEN Assign(Top.obj, FieldNum, Payload(input, r)) ELSE Top.obj)
      BY <2>1 DEF GetByteArray
    <3>2. Field.kind = "bytearray"
      BY <2>1 DEF GetByteArray
    <3>3. r.err = "none" => (IF r.err = "none" THEN Assign(Top.obj, FieldNum, Payload(input, r)) ELSE Top.obj) =
                              Assign(Top.obj, FieldNum, Payload(input, r))
      OBVIOUS
    <3> QED BY <3>1, <3>2, <3>3, Zenon
  <2>2. CASE GetRepeatedByteArray
    <3>1. PICK r : /\ r = ParseByteArray(WireType, input, TagRead.ptr, Top.end)
                   /\ Complete(r, IF r.err = "none" THEN PushBack(Top.obj, FieldNum, Payload(input, r)) ELSE Top.obj)
      BY <2>2 DEF GetRepeatedByteArray
    <3>2. Field.kind = "repeated_bytearray"
      BY <2>2 DEF GetRepeatedByteArray
    <3>3. r.err = "none" => (IF r.err = "none" THEN PushBack(Top.obj, FieldNum, Payload(input, r)) ELSE Top.obj) =
                              PushBack(Top.obj, FieldNum, Payload(input, r))
      OBVIOUS
    <3> QED BY <3>1, <3>2, <3>3, Zenon
  <2> QED BY <2>1, <2>2
<1>2. Field.kind \in {"bytearray", "repeated_bytearray"}
  BY DEF GetByteArray, GetRepeatedByteArray
<1> DEFINE q == IF WireType = Delimited THEN Ok(PayloadOf(NextField)) ELSE Bad
<1>3. /\ r.err = "none" => /\ WireType = Delimited /\ NextLength # 0 /\ r.ptr = Top.ptr + NextLength
                           /\ PayloadOf(NextField) = Payload(input, r)
      /\ r.err # "none" => NextLength = 0 \/ WireType # Delimited
  BY <1>1, ArrayRead
<1>4. NextLength # 0 => q = CurrentResult(h[Len(stack)].read)
  BY <1>2, CurrentIs DEF FieldIs
<1>5. r.err = "none" => q = Ok(Payload(input, r))
  BY <1>3
<1>6. r.err # "none" => NextLength = 0 \/ q = Bad
  BY <1>3
<1> HIDE DEF q
<1>7. r.err = "none" => q.ok /\ q.val = Payload(input, r)
  BY <1>5, OkIs
<1>8. r.err # "none" => NextLength = 0 \/ ~q.ok
  BY <1>6, OkIs
<1>9. r.err = "none" => obj = Updated(Top.type, Top.obj, FieldNum, q.val)
  <2>1. Field.kind = "bytearray" => Updated(Top.type, Top.obj, FieldNum, Payload(input, r)) =
                                      Assign(Top.obj, FieldNum, Payload(input, r))
    BY TopUpdated
  <2>2. Field.kind = "repeated_bytearray" => Updated(Top.type, Top.obj, FieldNum, Payload(input, r)) =
                                               PushBack(Top.obj, FieldNum, Payload(input, r))
    BY TopUpdated
  <2> QED BY <1>1, <1>7, <2>1, <2>2
<1>10. Complete(r, obj)
  BY <1>1
<1> QED BY <1>3, <1>4, <1>7, <1>8, <1>9, <1>10, FieldEnds

LEMMA SkipTracked ==
  ASSUME IInv, AtField, TagOk, ~Known, Skip, NEW h, Tracked(h)
  PROVE  \E g : Tracked(g)'
<1> DEFINE r == SkipField(WireType, input, TagRead.ptr, Top.end)
           list == h[Len(stack)].read
<1>1. Complete(r, Top.obj)
  BY DEF Skip
<1>2. Slice(input, TagRead.ptr, Top.end)
  BY TagStep
<1>3. /\ ValueSize = 0 => r.err # "none"
      /\ ValueSize # 0 => r.err = "none" /\ r.ptr = TagRead.ptr + ValueSize
  BY <1>2, SkipRead DEF ValueSize, ValueBytes
<1>4. /\ ValueSize = 0 => NextLength = 0
      /\ ValueSize # 0 => NextLength # 0 /\ Top.ptr + NextLength = TagRead.ptr + ValueSize
  BY TagStep
<1>5. NextLength # 0 => DecodeFields(Top.type, Append(list, NextField)) = Ok(Top.obj)
  BY NextMakes
<1> HIDE DEF r, list
<1>6. CASE r.err = "none"
  <2>1. NextLength # 0 /\ r.ptr = Top.ptr + NextLength
    BY <1>3, <1>4, <1>6
  <2> QED BY <1>1, <1>5, <1>6, <2>1, FieldTaken DEF list
<1>7. CASE r.err # "none"
  <2>1. NextLength = 0
    BY <1>3, <1>4, <1>7
  <2> QED BY <1>1, <1>7, <2>1, FieldFails
<1> QED BY <1>6, <1>7

LEMMA BadTagTracked ==
  ASSUME IInv, BadTag, NEW h, Tracked(h)
  PROVE  \E g : Tracked(g)'
<1> DEFINE r == [TagRead EXCEPT !.err = IF @ = "none" THEN "invalid_fieldnum" ELSE @]
<1>1. AtField /\ ~TagOk /\ Complete(r, Top.obj)
  BY DEF BadTag
<1>2. NextLength = 0
  BY <1>1, TagStep
<1>3. r.err # "none"
  <2>1. Slice(input, Top.ptr, Top.end)
    BY <1>1, AtFieldFacts
  <2>2. Returns(TagRead, Top.ptr, Top.end)
    BY <2>1, ReadVarintReturns DEF TagRead
  <2>3. r.err = IF TagRead.err = "none" THEN "invalid_fieldnum" ELSE TagRead.err
    BY <2>2 DEF Returns
  <2> QED BY <2>3
<1> HIDE DEF r
<1> QED BY <1>1, <1>2, <1>3, FieldFails

-----------------------------------------------------------------------------
SliceKinds == {"repeated", "message", "repeated_message", "map"}

(* What earlier occurrences of a sub-message have made of it.              *)
ReadBefore(F, list, f) == IF F.kind = "message" THEN FieldList(Payloads(Occurrences(list, f))) ELSE <<>>
ItemsOf(F) == IF F.kind = "repeated" THEN F.type ELSE "field"

LEMMA NothingPrepended ==
  ASSUME NEW what \in {"field"} \cup NumericTypes, NEW bytes \in Seq(Byte)
  PROVE  Remaining(what, bytes, <<>>, bytes) /\ <<>> \in Seq(ItemSet(what))
<1> DEFINE items == Items[bytes][what]
<1>1. TypedItems(what, items)
  BY ItemsType
<1> HIDE DEF items
<1>2. items.list \in Seq(ItemSet(what)) /\ items = [ok |-> items.ok, list |-> items.list]
  BY <1>1 DEF TypedItems
<1>3. <<>> \o items.list = items.list
  BY <1>2
<1>4. Prepend(<<>>, items) = items
  BY <1>2, <1>3 DEF Prepend
<1> QED BY <1>4 DEF Remaining, items

SliceReading(F, list, made, f, x, o) ==
  LET whole == Source(F.kind, o, Len(o))
  IN  /\ ItemsOf(F) \in {"field"} \cup NumericTypes
      /\ whole \in Seq(Byte)
      /\ ReadBefore(F, list, f) \in Seq(ItemSet(ItemsOf(F)))
      /\ Remaining(ItemsOf(F), whole, ReadBefore(F, list, f), PayloadOf(x))
      /\ F.kind # "repeated" =>
           /\ F.type \in DOMAIN Schema
           /\ DecodeFields(F.type, ReadBefore(F, list, f)) =
                Ok(IF F.kind = "message" THEN made.val[f] ELSE Blank[F.type])

LEMMA SliceReads ==
  ASSUME NEW t \in DOMAIN Schema, NEW list \in Seq(Fields), NEW made, DecodeFields(t, list) = Ok(made),
         NEW f \in DOMAIN Schema[t], NEW x \in Fields, x.num = f, NEW F, F = Schema[t][f], F.kind \in SliceKinds,
         NEW o, o = Append(Occurrences(list, f), x)
  PROVE  SliceReading(F, list, made, f, x, o)
<1> DEFINE p == Occurrences(list, f)
           whole == Source(F.kind, o, Len(o))
<1>1. p \in Seq(Fields)
  BY PiecesType
<1>2. ValidField(F)
  BY FieldsValid
<1>3. ItemsOf(F) \in {"field"} \cup NumericTypes /\ (F.kind # "repeated" => F.type \in DOMAIN Schema)
  BY <1>2 DEF ItemsOf, ValidField, SliceKinds
<1>4. PayloadOf(x) \in Seq(Byte)
  BY PayloadType
<1> HIDE DEF p
<1>5. o \in Seq(Fields) /\ Len(o) = Len(p) + 1 /\ o[Len(o)] = x /\ Len(p) \in Nat
  <2>1. o = Append(p, x)
    BY DEF p
  <2>2. Append(p, x) \in Seq(Fields) /\ Len(Append(p, x)) = Len(p) + 1 /\ Append(p, x)[Len(p) + 1] = x /\ Len(p) \in Nat
    BY <1>1, AppendIs
  <2> QED BY <2>1, <2>2
<1>6. ASSUME F.kind # "message"
      PROVE  /\ whole \in Seq(Byte)
             /\ ReadBefore(F, list, f) \in Seq(ItemSet(ItemsOf(F)))
             /\ Remaining(ItemsOf(F), whole, ReadBefore(F, list, f), PayloadOf(x))
             /\ F.kind # "repeated" =>
                  DecodeFields(F.type, ReadBefore(F, list, f)) =
                    Ok(IF F.kind = "message" THEN made.val[f] ELSE Blank[F.type])
  <2>1. whole = PayloadOf(x) /\ ReadBefore(F, list, f) = <<>>
    BY <1>5, <1>6 DEF Source, ReadBefore
  <2>2. F.kind # "repeated" => DecodeFields(F.type, <<>>) = Ok(Blank[F.type])
    BY <1>3, ObjectEmpty
  <2> HIDE DEF whole
  <2>3. F.kind # "repeated" => DecodeFields(F.type, <<>>) = Ok(IF F.kind = "message" THEN made.val[f] ELSE Blank[F.type])
    BY <1>6, <2>2
  <2>4. Remaining(ItemsOf(F), PayloadOf(x), <<>>, PayloadOf(x)) /\ <<>> \in Seq(ItemSet(ItemsOf(F)))
    BY <1>3, <1>4, NothingPrepended
  <2> QED BY <1>4, <2>1, <2>3, <2>4
<1>7. ASSUME F.kind = "message"
      PROVE  /\ whole \in Seq(Byte)
             /\ ReadBefore(F, list, f) \in Seq(ItemSet(ItemsOf(F)))
             /\ Remaining(ItemsOf(F), whole, ReadBefore(F, list, f), PayloadOf(x))
             /\ F.kind # "repeated" =>
                  DecodeFields(F.type, ReadBefore(F, list, f)) =
                    Ok(IF F.kind = "message" THEN made.val[f] ELSE Blank[F.type])
  <2> DEFINE s == Payloads(p)
  <2>1. /\ s \in Seq(Byte) /\ F.type \in DOMAIN Schema
        /\ Items[s]["field"].ok
        /\ FieldList(s) \in Seq(Fields)
        /\ DecodeFields(F.type, FieldList(s)) = Ok(made.val[f])
    BY <1>7, MessageSoFar DEF p
  <2>2. ItemsOf(F) = "field" /\ ReadBefore(F, list, f) = FieldList(s)
    BY <1>7 DEF ItemsOf, ReadBefore, p
  <2>3. whole = s \o PayloadOf(x)
    <3>1. whole = PayloadsUpTo(o, Len(o))
      BY <1>7 DEF Source
    <3>2. PayloadsUpTo(o, Len(o)) = PayloadsUpTo(o, Len(o) - 1) \o PayloadOf(o[Len(o)])
      <4>1. Len(o) \in 1 .. Len(o)
        BY <1>5
      <4>2. \A i \in 1 .. Len(o) : PayloadsUpTo(o, i) = PayloadsUpTo(o, i - 1) \o PayloadOf(o[i])
        BY <1>5, PayloadsPlaced
      <4> QED BY <4>1, <4>2
    <3>3. PayloadsUpTo(o, Len(p)) = PayloadsUpTo(p, Len(p))
      <4>1. \A i \in 1 .. Len(p) : o[i] = p[i]
        BY <1>1, AppendIs DEF p
      <4>2. [i \in 1 .. Len(p) |-> PayloadOf(o[i])] = [i \in 1 .. Len(p) |-> PayloadOf(p[i])]
        BY <4>1
      <4> QED BY <4>2 DEF PayloadsUpTo
    <3> QED BY <1>5, <3>1, <3>2, <3>3 DEF Payloads
  <2> HIDE DEF s, whole
  <2>4. Items[whole]["field"] = Prepend(Items[s]["field"].list, Items[PayloadOf(x)]["field"])
    BY <1>4, <2>1, <2>3, FieldOrNumber, ItemsJoin
  <2>5. Remaining("field", whole, FieldList(s), PayloadOf(x))
    BY <2>4 DEF Remaining, FieldList
  <2>6. whole \in Seq(Byte)
    BY <1>4, <2>1, <2>3, Concatenated
  <2>7. Ok(IF F.kind = "message" THEN made.val[f] ELSE Blank[F.type]) = Ok(made.val[f])
    BY <1>7
  <2> QED BY <2>1, <2>2, <2>5, <2>6, <2>7, FieldOrNumber
<1> QED BY <1>3, <1>6, <1>7 DEF SliceReading

-----------------------------------------------------------------------------
LEMMA SliceFails ==
  ASSUME IInv, AtField, TagOk, Known, NEW h, Tracked(h), NEW r,
         r = ParseByteArray(WireType, input, TagRead.ptr, Top.end), r.err # "none", Complete(r, Top.obj),
         Field.kind \in SliceKinds, Field.kind = "repeated" => WireType = Delimited
  PROVE  \E g : Tracked(g)'
<1> DEFINE list == h[Len(stack)].read
           q == CurrentResult(list)
<1>1. NextLength = 0 \/ WireType # Delimited
  BY ArrayRead
<1>2. NextLength # 0 => q = Bad
  <2>1. NextLength # 0 => FieldIs(list)
    BY CurrentIs
  <2> HIDE DEF list
  <2>2. ASSUME NextLength # 0
        PROVE  q = Bad
    <3>1. WireType # Delimited /\ Field.kind \in {"message", "repeated_message", "map"}
      BY <1>1, <2>2 DEF SliceKinds
    <3> QED BY <2>1, <2>2, <3>1 DEF FieldIs
  <2> QED BY <2>2
<1>3. NextLength # 0 => DecodeFields(Top.type, Append(list, NextField)) =
                          IF q.ok THEN Ok(Updated(Top.type, Top.obj, FieldNum, q.val)) ELSE Bad
  BY NextMakes
<1> HIDE DEF list, q
<1>4. NextLength # 0 => DecodeFields(Top.type, Append(list, NextField)) = Bad
  BY <1>2, <1>3, OkIs
<1>5. NextLength = 0 \/ ~DecodeFields(Top.type, Append(list, NextField)).ok
  BY <1>4, OkIs
<1> QED BY <1>5, FieldFails DEF list

(* What an activation that begins is a decoding of.                        *)
Child(list) == [whole |-> Source(Field.kind, Current(list), Len(Current(list))),
                read |-> ReadBefore(Field, list, FieldNum), pend |-> 0]

LEMMA ChildStarts ==
  ASSUME IInv, AtField, TagOk, Known, NEW h, Tracked(h), NEW r,
         r = ParseByteArray(WireType, input, TagRead.ptr, Top.end), r.err = "none",
         Field.kind \in SliceKinds, NEW obj,
         Field.kind = "message" => obj = Top.obj.val[FieldNum],
         Field.kind \in {"repeated_message", "map"} => obj = Blank[Field.type],
         NEW d, d = Activation(r.ptr - r.val, r.ptr, Field.type, obj, RoleOf(Field.kind), FieldNum)
  PROVE  IsTop(d, Child(h[Len(stack)].read), "none", input)
<1> DEFINE list == h[Len(stack)].read
           o == Current(list)
           l == Child(list)
<1>1. Top.type \in DOMAIN Schema /\ list \in Seq(Fields) /\ DecodeFields(Top.type, list) = Ok(Top.obj)
  BY AtFieldFacts
<1>2. FieldNum \in DOMAIN Schema[Top.type]
  BY DEF Known
<1>3. NextLength # 0 /\ PayloadOf(NextField) = Between(input, r.ptr - r.val, r.ptr)
  BY ArrayRead
<1>4. NextField \in Fields /\ NextField.num = FieldNum
  BY <1>3, TagStep
<1> HIDE DEF list
<1>5. Field = Schema[Top.type][FieldNum] /\ o = Append(Occurrences(list, FieldNum), NextField)
  BY DEF Field, Current
<1> HIDE DEF o
<1>6. /\ ItemsOf(Field) \in {"field"} \cup NumericTypes
      /\ Source(Field.kind, o, Len(o)) \in Seq(Byte)
      /\ ReadBefore(Field, list, FieldNum) \in Seq(ItemSet(ItemsOf(Field)))
      /\ Remaining(ItemsOf(Field), Source(Field.kind, o, Len(o)), ReadBefore(Field, list, FieldNum), PayloadOf(NextField))
      /\ Field.kind # "repeated" =>
           DecodeFields(Field.type, ReadBefore(Field, list, FieldNum)) =
             Ok(IF Field.kind = "message" THEN Top.obj.val[FieldNum] ELSE Blank[Field.type])
  <2> DEFINE t == Top.type
             f == FieldNum
             F == Field
             x == NextField
             made == Top.obj
             whole == Source(F.kind, o, Len(o))
  <2> HIDE DEF t, f, F, x, made, whole
  <2>1. /\ t \in DOMAIN Schema /\ list \in Seq(Fields) /\ DecodeFields(t, list) = Ok(made)
        /\ f \in DOMAIN Schema[t] /\ x \in Fields /\ x.num = f /\ F = Schema[t][f] /\ F.kind \in SliceKinds
        /\ o = Append(Occurrences(list, f), x)
    BY <1>1, <1>2, <1>4, <1>5 DEF t, f, F, x, made
  <2>2. /\ ItemsOf(F) \in {"field"} \cup NumericTypes
        /\ whole \in Seq(Byte)
        /\ ReadBefore(F, list, f) \in Seq(ItemSet(ItemsOf(F)))
        /\ Remaining(ItemsOf(F), whole, ReadBefore(F, list, f), PayloadOf(x))
        /\ F.kind # "repeated" =>
             DecodeFields(F.type, ReadBefore(F, list, f)) = Ok(IF F.kind = "message" THEN made.val[f] ELSE Blank[F.type])
    <3>1. SliceReading(F, list, made, f, x, o)
      BY <2>1, SliceReads
    <3> QED BY <3>1 DEF SliceReading, whole
  <2> QED BY <2>2 DEF t, f, F, x, made, whole
<1>7. l.whole = Source(Field.kind, o, Len(o)) /\ l.read = ReadBefore(Field, list, FieldNum)
  BY DEF Child, o
<1>8. d.ptr = r.ptr - r.val /\ d.end = r.ptr /\ d.type = Field.type /\ d.obj = obj
      /\ d.role = RoleOf(Field.kind) /\ d.field = FieldNum
  BY Members
<1> HIDE DEF l
<1>9. d.role = "packed" <=> Field.kind = "repeated"
  BY <1>8 DEF RoleOf, SliceKinds
<1>10. What(d) = ItemsOf(Field)
  BY <1>8, <1>9 DEF What, ItemsOf
<1>11. d.role # "packed" => DecodeFields(d.type, l.read) = Ok(d.obj)
  <2>1. Field.kind = "message" \/ Field.kind \in {"repeated_message", "map"} \/ Field.kind = "repeated"
    BY DEF SliceKinds
  <2>2. Field.kind = "message" => DecodeFields(Field.type, ReadBefore(Field, list, FieldNum)) = Ok(obj)
    BY <1>6
  <2>3. Field.kind \in {"repeated_message", "map"} => DecodeFields(Field.type, ReadBefore(Field, list, FieldNum)) = Ok(obj)
    BY <1>6
  <2> QED BY <1>7, <1>8, <1>9, <2>1, <2>2, <2>3
<1>12. d.role # "packed" => Made(d, l) = d.obj
  BY <1>11, OkIs DEF Made
<1>13. Remaining(What(d), l.whole, l.read, Between(input, d.ptr, d.end))
  BY <1>3, <1>6, <1>7, <1>8, <1>10
<1>14. Sound(d, l)
  BY <1>6, <1>7, <1>10, <1>11, <1>12 DEF Sound
<1> QED BY <1>12, <1>13, <1>14 DEF IsTop, l, list

LEMMA CallerWaits ==
  ASSUME IInv, AtField, TagOk, Known, NEW h, Tracked(h), NEW r,
         r = ParseByteArray(WireType, input, TagRead.ptr, Top.end), r.err = "none",
         Field.kind \in SliceKinds, NEW k, k.whole = h[Len(stack)].whole, k.read = h[Len(stack)].read, k.pend = NextField,
         NEW d, d.field = FieldNum, d.type = Field.type, d.role = RoleOf(Field.kind)
  PROVE  IsLink(Moved(Top, r.ptr, Top.obj), k, d, Child(h[Len(stack)].read), "none", input)
<1> DEFINE list == h[Len(stack)].read
           l == Child(list)
           c == Moved(Top, r.ptr, Top.obj)
<1>1. /\ Top.type \in DOMAIN Schema /\ list \in Seq(Fields) /\ DecodeFields(Top.type, list) = Ok(Top.obj)
      /\ IsCursor(Top, input) /\ Top.role # "packed" /\ Slice(input, Top.ptr, Top.end)
      /\ h[Len(stack)].whole \in Seq(Byte)
      /\ Remaining("field", h[Len(stack)].whole, list, Between(input, Top.ptr, Top.end))
  BY AtFieldFacts
<1>2. FieldNum \in DOMAIN Schema[Top.type]
  BY DEF Known
<1>3. NextLength # 0 /\ WireType = Delimited /\ r.ptr = Top.ptr + NextLength
  BY ArrayRead
<1>4. NextField \in Fields /\ NextField.num = FieldNum /\ NextField.wire = Delimited
  BY <1>3, TagStep
<1>5. c.ptr = r.ptr /\ c.end = Top.end /\ c.obj = Top.obj /\ SameSlot(Top, c)
  BY <1>1, MovedMembers
<1>6. Remaining("field", k.whole, Append(list, NextField), Between(input, r.ptr, Top.end))
  <2> HIDE DEF list
  <2>1. Taking(input, Top.ptr, Top.end, "field", k.whole, list)
    BY <1>1, FieldOrNumber, TakeOne
  <2> QED BY <1>3, <2>1, FieldOrNumber DEF NextField, NextLength, Taking
<1>7. l.whole = Source(Field.kind, Current(list), Len(Current(list))) /\ l.read = ReadBefore(Field, list, FieldNum)
  BY DEF Child
<1>8. c.role # "packed" /\ c.type = Top.type /\ What(c) = "field" /\ Field = Schema[c.type][FieldNum]
  BY <1>1, <1>5 DEF SameSlot, What, Field
<1>9. k.read = list
  OBVIOUS
<1> HIDE DEF c, l, list
<1>10. Made(c, k) = Top.obj
  <2>1. DecodeFields(c.type, k.read) = Ok(Top.obj)
    BY <1>1, <1>8, <1>9
  <2> QED BY <2>1, OkIs DEF Made
<1>11. Sound(c, k)
  BY <1>1, <1>8, <1>9, <1>10, FieldOrNumber DEF Sound
<1>12. Object(Top.type, Top.obj)
  BY <1>1, ObjectMade
<1>13. Near(c.obj, Made(c, k), FieldNum)
  BY <1>5, <1>10, <1>12, NearItself
<1>14. c.obj.val[FieldNum] = IF d.role = "packed" THEN Made(c, k).val[FieldNum] \o l.read ELSE Made(c, k).val[FieldNum]
  <2>1. CASE d.role # "packed"
    BY <1>5, <1>10, <2>1
  <2>2. CASE d.role = "packed"
    <3>1. Field.kind = "repeated"
      BY <2>2 DEF RoleOf, SliceKinds
    <3>2. l.read = <<>> /\ Top.obj.val[FieldNum] \in Seq(Int)
      BY <1>2, <1>7, <1>12, <3>1 DEF ReadBefore, Object, Field
    <3>3. Top.obj.val[FieldNum] \o <<>> = Top.obj.val[FieldNum]
      BY <3>2
    <3> QED BY <1>5, <1>10, <2>2, <3>2, <3>3
  <2> QED BY <2>1, <2>2
<1>15. Append(Occurrences(k.read, d.field), k.pend) = Current(list)
  BY <1>9 DEF Current
<1>16. d.field = FieldNum /\ k.pend = NextField
  OBVIOUS
<1>17. /\ k.pend \in Fields /\ k.pend.num = d.field /\ k.pend.wire = Delimited
       /\ d.field \in DOMAIN Schema[c.type]
       /\ d.type = Schema[c.type][d.field].type /\ d.role = RoleOf(Schema[c.type][d.field].kind)
  BY <1>2, <1>4, <1>8, <1>16
<1>18. Remaining("field", k.whole, Append(k.read, k.pend), Between(input, c.ptr, c.end))
  BY <1>5, <1>6, <1>9, <1>16
<1>19. l.whole = Source(Schema[c.type][d.field].kind, Append(Occurrences(k.read, d.field), k.pend),
                        Len(Append(Occurrences(k.read, d.field), k.pend)))
  BY <1>7, <1>8, <1>15, <1>16
<1>20. Near(c.obj, Made(c, k), d.field) /\
       c.obj.val[d.field] = IF d.role = "packed" THEN Made(c, k).val[d.field] \o l.read ELSE Made(c, k).val[d.field]
  BY <1>13, <1>14, <1>16
<1>21. IsLink(c, k, d, l, "none", input)
  BY <1>8, <1>11, <1>17, <1>18, <1>19, <1>20 DEF IsLink
<1> QED BY <1>21 DEF c, l, list

-----------------------------------------------------------------------------
LEMMA OpenIs ==
  ASSUME IInv, AtField, NEW type, NEW obj, NEW role, OpenSlice(type, obj, role)
  PROVE  \E r : /\ r = ParseByteArray(WireType, input, TagRead.ptr, Top.end)
                /\ r.ptr \in Top.ptr .. Top.end
                /\ err' = r.err /\ input' = input /\ fed' = fed
                /\ r.err = "none" =>
                     stack' = Append(TopMoved(stack, r.ptr, Top.obj),
                                     Activation(r.ptr - r.val, r.ptr, type, obj, role, FieldNum))
                /\ r.err # "none" => Complete(r, Top.obj)
<1> DEFINE r == ParseByteArray(WireType, input, TagRead.ptr, Top.end)
           s == [stack EXCEPT ![Len(stack)].ptr = r.ptr]
           sub == Activation(r.ptr - r.val, r.ptr, type, obj, role, FieldNum)
<1>1. Nested(stack, input) /\ stack # <<>> /\ Top = stack[Len(stack)] /\ Last(stack) = Top
  BY TagFacts, TopFacts DEF IInv, Top
<1>2. Slice(input, TagRead.ptr, Top.end) /\ stack # <<>>
  BY TagFacts
<1>3. Returns(r, TagRead.ptr, Top.end)
  BY <1>2, ParseByteArrayReturns
<1>4. r.ptr \in Top.ptr .. Top.end
  BY <1>3, AfterTag
<1>5. /\ err' = r.err /\ input' = input /\ fed' = fed /\ object' = object
      /\ stack' = IF r.err = "none" THEN Append(s, sub) ELSE s
  BY DEF OpenSlice
<1> HIDE DEF r, s, sub
<1>6. s = TopMoved(stack, r.ptr, Top.obj) /\ Completed(stack, r.ptr, Top.obj) = s
  BY <1>1, TopMovedIs DEF s
<1>7. r.err # "none" => Complete(r, Top.obj)
  <2>1. ASSUME r.err # "none"
        PROVE  Complete(r, Top.obj)
    <3>1. stack' = Completed(stack, r.ptr, Top.obj)
      BY <1>5, <1>6, <2>1
    <3>2. stack' = [stack EXCEPT ![Len(stack)].ptr = r.ptr,
                                 ![Len(stack)].obj = IF r.err = "none" THEN Top.obj ELSE @]
      BY <1>1, <2>1, <3>1 DEF Completed
    <3> QED BY <1>5, <3>2 DEF Complete
  <2> QED BY <2>1
<1>8. r.err = "none" => stack' = Append(TopMoved(stack, r.ptr, Top.obj), sub)
  BY <1>5, <1>6
<1> QED BY <1>4, <1>5, <1>7, <1>8 DEF r, sub

(* A field that is read by an activation of its own.                       *)
LEMMA OpenTracked ==
  ASSUME IInv, AtField, TagOk, Known, NEW h, Tracked(h), NEW obj, Field.kind \in SliceKinds,
         Field.kind = "repeated" => WireType = Delimited,
         Field.kind = "message" => obj = Top.obj.val[FieldNum],
         Field.kind \in {"repeated_message", "map"} => obj = Blank[Field.type],
         OpenSlice(Field.type, obj, RoleOf(Field.kind))
  PROVE  \E g : Tracked(g)'
<1>1. PICK r : /\ r = ParseByteArray(WireType, input, TagRead.ptr, Top.end)
               /\ r.ptr \in Top.ptr .. Top.end
               /\ err' = r.err /\ input' = input /\ fed' = fed
               /\ r.err = "none" =>
                    stack' = Append(TopMoved(stack, r.ptr, Top.obj),
                                    Activation(r.ptr - r.val, r.ptr, Field.type, obj, RoleOf(Field.kind), FieldNum))
               /\ r.err # "none" => Complete(r, Top.obj)
  <2> DEFINE type == Field.type
             role == RoleOf(Field.kind)
  <2> HIDE DEF type, role
  <2>1. OpenSlice(type, obj, role)
    BY DEF type, role
  <2>2. \E r : /\ r = ParseByteArray(WireType, input, TagRead.ptr, Top.end)
               /\ r.ptr \in Top.ptr .. Top.end
               /\ err' = r.err /\ input' = input /\ fed' = fed
               /\ r.err = "none" =>
                    stack' = Append(TopMoved(stack, r.ptr, Top.obj),
                                    Activation(r.ptr - r.val, r.ptr, type, obj, role, FieldNum))
               /\ r.err # "none" => Complete(r, Top.obj)
    BY <2>1, OpenIs
  <2> QED BY <2>2 DEF type, role
<1>2. CASE r.err # "none"
  BY <1>1, <1>2, SliceFails
<1>3. CASE r.err = "none"
  <2> DEFINE k == [whole |-> h[Len(stack)].whole, read |-> h[Len(stack)].read, pend |-> NextField]
             d == Activation(r.ptr - r.val, r.ptr, Field.type, obj, RoleOf(Field.kind), FieldNum)
             l == Child(h[Len(stack)].read)
  <2>1. /\ stack # <<>> /\ err = "none" /\ Nested(stack, input) /\ Last(stack) = Top /\ Top.role # "packed"
    BY AtFieldFacts
  <2>2. IsTop(d, l, "none", input)
    BY <1>1, <1>3, ChildStarts
  <2>3. d.field = FieldNum /\ d.type = Field.type /\ d.role = RoleOf(Field.kind)
    BY Members
  <2>4. k.whole = h[Len(stack)].whole /\ k.read = h[Len(stack)].read /\ k.pend = NextField
    OBVIOUS
  <2> HIDE DEF k, d, l
  <2>5. IsLink(Moved(Top, r.ptr, Top.obj), k, d, l, "none", input)
    BY <1>1, <1>3, <2>3, <2>4, CallerWaits DEF l
  <2>6. Nested(TopMoved(stack, r.ptr, Top.obj), input)
    BY <1>1, <2>1, MoveKeepsNested
  <2>7. Tracks(stack, h, "none", input, FlattenSeq(fed))
    BY <2>1 DEF Tracked
  <2> DEFINE obj0 == Top.obj
             q0 == r.ptr
             all == FlattenSeq(fed)
  <2>8. \E g : Tracks(Append(TopMoved(stack, q0, obj0), d), g, "none", input, all)
    <3> HIDE DEF obj0, q0, all
    <3>1. IsLink(Moved(Last(stack), q0, obj0), k, d, l, "none", input)
      BY <2>1, <2>5 DEF q0, obj0
    <3>2. Nested(TopMoved(stack, q0, obj0), input)
      BY <2>6 DEF q0, obj0
    <3>3. Tracks(stack, h, "none", input, all)
      BY <2>7 DEF all
    <3>4. Last(stack).role # "packed" /\ k.whole = h[Len(stack)].whole
      BY <2>1, <2>4
    <3> QED BY <2>1, <2>2, <3>1, <3>2, <3>3, <3>4, PushStep, ZenonT(60)
  <2>9. stack' = Append(TopMoved(stack, q0, obj0), d) /\ err' = "none" /\ input' = input /\ fed' = fed
    BY <1>1, <1>3 DEF d
  <2> HIDE DEF q0, obj0
  <2> QED BY <2>8, <2>9 DEF Tracked
<1> QED BY <1>2, <1>3

(* Whatever kind of field is read.                                         *)
LEMMA GetFieldTracked ==
  ASSUME IInv, AtField, TagOk, Known, GetField, NEW h, Tracked(h)
  PROVE  \E g : Tracked(g)'
<1>1. CASE GetScalar
  BY <1>1, ScalarTracked
<1>2. CASE GetRepeatedUnpacked
  BY <1>2, UnpackedTracked
<1>3. CASE GetByteArray \/ GetRepeatedByteArray
  BY <1>3, ArrayTracked
<1>4. CASE GetPacked
  <2>1. Field.kind = "repeated" /\ WireType = Delimited /\ OpenSlice(Field.type, <<>>, "packed")
    BY <1>4 DEF GetPacked
  <2>2. RoleOf(Field.kind) = "packed"
    BY <2>1 DEF RoleOf
  <2>3. OpenSlice(Field.type, <<>>, RoleOf(Field.kind))
    BY <2>1, <2>2, Zenon
  <2> QED BY <2>1, <2>3, OpenTracked DEF SliceKinds
<1>5. CASE GetMessage
  <2>1. Field.kind = "message" /\ OpenSlice(Field.type, Top.obj.val[FieldNum], "message")
    BY <1>5 DEF GetMessage
  <2>2. RoleOf(Field.kind) = "message"
    BY <2>1 DEF RoleOf
  <2>3. OpenSlice(Field.type, Top.obj.val[FieldNum], RoleOf(Field.kind))
    BY <2>1, <2>2, Zenon
  <2> QED BY <2>1, <2>3, OpenTracked DEF SliceKinds
<1>6. CASE GetRepeatedMessage
  <2>1. Field.kind = "repeated_message" /\ OpenSlice(Field.type, Blank[Field.type], "repeated_message")
    BY <1>6 DEF GetRepeatedMessage
  <2>2. RoleOf(Field.kind) = "repeated_message"
    BY <2>1 DEF RoleOf
  <2>3. OpenSlice(Field.type, Blank[Field.type], RoleOf(Field.kind))
    BY <2>1, <2>2, Zenon
  <2> QED BY <2>1, <2>3, OpenTracked DEF SliceKinds
<1>7. CASE GetMapEntry
  <2>1. Field.kind = "map" /\ OpenSlice(Field.type, Blank[Field.type], "map")
    BY <1>7 DEF GetMapEntry
  <2>2. RoleOf(Field.kind) = "map"
    BY <2>1 DEF RoleOf
  <2>3. OpenSlice(Field.type, Blank[Field.type], RoleOf(Field.kind))
    BY <2>1, <2>2, Zenon
  <2> QED BY <2>1, <2>3, OpenTracked DEF SliceKinds
<1> QED BY <1>1, <1>2, <1>3, <1>4, <1>5, <1>6, <1>7 DEF GetField

-----------------------------------------------------------------------------
LEMMA ObjectReplaced ==
  ASSUME NEW s, NEW buf, Nested(s, buf), NEW k \in DOMAIN s, NEW x
  PROVE  LET t == [s EXCEPT ![k].obj = x]
         IN  /\ Nested(t, buf) /\ Len(t) = Len(s) /\ t[k] = Moved(s[k], s[k].ptr, x)
             /\ \A i \in DOMAIN s : i # k => t[i] = s[i]
<1> DEFINE c == s[k]
           d == Moved(c, c.ptr, x)
<1>1. IsCursor(c, buf)
  BY DEF Nested
<1>2. PICK p, end, type, o, role, field : c = Activation(p, end, type, o, role, field)
  BY <1>1 DEF IsCursor
<1>3. c.ptr = p /\ [c EXCEPT !.obj = x] = Activation(p, end, type, x, role, field)
  BY <1>2 DEF Activation
<1>4. [c EXCEPT !.obj = x] = d
  BY <1>2, <1>3, MovedIs
<1>5. [s EXCEPT ![k].obj = x] = Replaced(s, k, d)
  BY <1>4 DEF Replaced
<1>6. c.ptr \in c.ptr .. c.end
  BY <1>1 DEF IsCursor, Slice
<1>7. IsCursor(d, buf) /\ d.ptr = c.ptr /\ d.end = c.end
  <2> HIDE DEF c
  <2> QED BY <1>1, <1>6, CursorMoves
<1> HIDE DEF d
<1>8. LET t == Replaced(s, k, d)
      IN  /\ Nested(t, buf) /\ t # <<>> /\ Len(t) = Len(s) /\ t[k] = d
          /\ \A i \in DOMAIN s : i # k => t[i] = s[i]
  BY <1>7, ReplaceKeepsNested
<1> QED BY <1>5, <1>8 DEF d

(* Only the field that is being decoded changes.                           *)
LEMMA NearChanged ==
  ASSUME NEW obj, NEW made, NEW f, Near(obj, made, f), f \in DOMAIN made.val, NEW u
  PROVE  LET o == [obj EXCEPT !.val[f] = u]
         IN  Near(o, made, f) /\ o.val[f] = u
<1> DEFINE val == obj.val
           w == [val EXCEPT ![f] = u]
           o == [obj EXCEPT !.val[f] = u]
<1>1. obj = [has |-> made.has, val |-> val] /\ val = [g \in DOMAIN made.val |-> val[g]]
      /\ \A g \in DOMAIN made.val : g # f => val[g] = made.val[g]
  BY DEF Near
<1>2. o = [has |-> made.has, val |-> w]
  <2> HIDE DEF val
  <2>1. o = [[has |-> made.has, val |-> val] EXCEPT !.val[f] = u]
    BY <1>1
  <2> QED BY <2>1
<1>3. w[f] = u /\ w = [g \in DOMAIN made.val |-> w[g]] /\ \A g \in DOMAIN made.val : g # f => w[g] = made.val[g]
  <2> HIDE DEF val
  <2> QED BY <1>1
<1> HIDE DEF w, o
<1>4. o.has = made.has /\ o.val = w
  BY <1>2
<1> QED BY <1>2, <1>3, <1>4 DEF Near, o

LEMMA LinkMoves ==
  ASSUME NEW c, NEW k, NEW d, NEW l, NEW e, NEW buf, IsLink(c, k, d, l, e, buf),
         NEW c2, SameSlot(c, c2), c2.ptr = c.ptr, c2.end = c.end, Near(c2.obj, Made(c, k), d.field),
         NEW d2, SameSlot(d, d2), NEW l2, l2.whole = l.whole, NEW e2,
         e2 = "none" => c2.obj.val[d.field] = IF d.role = "packed" THEN Made(c, k).val[d.field] \o l2.read
                                              ELSE Made(c, k).val[d.field]
  PROVE  IsLink(c2, k, d2, l2, e2, buf)
<1>1. c2.role = c.role /\ c2.type = c.type /\ d2.role = d.role /\ d2.type = d.type /\ d2.field = d.field
  BY DEF SameSlot
<1>2. Made(c2, k) = Made(c, k)
  BY <1>1 DEF Made
<1>3. Sound(c2, k)
  <2>1. Sound(c, k)
    BY DEF IsLink
  <2> QED BY <1>1, <1>2, <2>1 DEF Sound, What
<1>4. /\ c2.role # "packed"
      /\ k.pend \in Fields /\ k.pend.num = d2.field /\ k.pend.wire = Delimited
      /\ d2.field \in DOMAIN Schema[c2.type]
      /\ d2.type = Schema[c2.type][d2.field].type /\ d2.role = RoleOf(Schema[c2.type][d2.field].kind)
      /\ Remaining("field", k.whole, Append(k.read, k.pend), Between(buf, c2.ptr, c2.end))
  BY <1>1 DEF IsLink
<1>5. l2.whole = Source(Schema[c2.type][d2.field].kind, Append(Occurrences(k.read, d2.field), k.pend),
                        Len(Append(Occurrences(k.read, d2.field), k.pend)))
  BY <1>1 DEF IsLink
<1>6. Near(c2.obj, Made(c2, k), d2.field)
  BY <1>1, <1>2
<1>7. e2 = "none" => c2.obj.val[d2.field] = IF d2.role = "packed" THEN Made(c2, k).val[d2.field] \o l2.read
                                            ELSE Made(c2, k).val[d2.field]
  BY <1>1, <1>2
<1> QED BY <1>3, <1>4, <1>5, <1>6, <1>7 DEF IsLink

(* The field that a caller waits for.                                      *)
LEMMA LinkFacts ==
  ASSUME NEW c, NEW k, NEW d, NEW l, NEW e, NEW buf, IsLink(c, k, d, l, e, buf), c.type \in DOMAIN Schema
  PROVE  LET F == Schema[c.type][d.field]
             made == Made(c, k)
         IN  /\ k.read \in Seq(Fields) /\ DecodeFields(c.type, k.read) = Ok(made)
             /\ d.field \in DOMAIN Schema[c.type] /\ d.field \in DOMAIN made.val
             /\ ValidField(F) /\ d.type = F.type /\ d.role = RoleOf(F.kind)
             /\ Object(c.type, made)
             /\ d.role = "packed" => F.kind = "repeated" /\ made.val[d.field] \in Seq(Int)
<1> DEFINE F == Schema[c.type][d.field]
           made == Made(c, k)
           t == c.type
           f == d.field
<1>1. Sound(c, k) /\ c.role # "packed" /\ f \in DOMAIN Schema[t] /\ d.type = F.type /\ d.role = RoleOf(F.kind)
  BY DEF IsLink
<1>2. k.read \in Seq(Fields) /\ DecodeFields(t, k.read) = Ok(made)
  BY <1>1, FieldOrNumber DEF Sound, What
<1>3. ValidField(F)
  BY <1>1, FieldsValid
<1> DEFINE read == k.read
<1> HIDE DEF made, t, read
<1>4. Object(t, made)
  <2>1. t \in DOMAIN Schema /\ read \in Seq(Fields) /\ DecodeFields(t, read) = Ok(made)
    BY <1>2 DEF t, read
  <2> QED BY <2>1, ObjectMade
<1>5. f \in DOMAIN made.val
  BY <1>1, <1>4 DEF Object
<1>6. d.role = "packed" => F.kind = "repeated"
  <2> HIDE DEF F
  <2> QED BY <1>1, <1>3 DEF RoleOf, ValidField, Kinds
<1>7. d.role = "packed" => made.val[f] \in Seq(Int)
  BY <1>1, <1>4, <1>6 DEF Object, t
<1> QED BY <1>1, <1>2, <1>3, <1>4, <1>5, <1>6, <1>7 DEF made, t, read

-----------------------------------------------------------------------------
(* The innermost activation, its caller and what they keep to.             *)
LEMMA CallerOfPacked ==
  ASSUME IInv, stack # <<>>, NEW h, Tracked(h)
  PROVE  /\ Top.role # "root" => Len(stack) > 1
         /\ Len(stack) > 1 =>
              LET n == Len(stack)
              IN  /\ n - 1 \in DOMAIN stack /\ n \in DOMAIN stack
                  /\ Parent = stack[n - 1] /\ IsCursor(Parent, input) /\ Parent.type \in DOMAIN Schema
                  /\ IsLink(Parent, h[n - 1], Top, h[n], err, input)
<1>1. Len(stack) \in Nat \ {0} /\ DOMAIN stack = 1 .. Len(stack) /\ Top = stack[Len(stack)]
  BY TopFacts
<1>2. stack[1].role = "root"
  BY DEF Tracked, Tracks
<1>3. Top.role # "root" => Len(stack) > 1
  <2>1. Len(stack) = 1 => Top.role = "root"
    BY <1>1, <1>2
  <2> QED BY <1>1, <2>1
<1>4. ASSUME Len(stack) > 1
      PROVE  LET n == Len(stack)
             IN  /\ n - 1 \in DOMAIN stack /\ n \in DOMAIN stack
                 /\ Parent = stack[n - 1] /\ IsCursor(Parent, input) /\ Parent.type \in DOMAIN Schema
                 /\ IsLink(Parent, h[n - 1], Top, h[n], err, input)
  <2> DEFINE n == Len(stack)
  <2>1. n - 1 \in 1 .. n - 1 /\ n - 1 \in DOMAIN stack /\ n \in DOMAIN stack /\ (n - 1) + 1 = n
    BY <1>1, <1>4
  <2>2. IsCursor(stack[n - 1], input)
    BY <2>1 DEF IInv, Nested
  <2>3. IsLink(stack[n - 1], h[n - 1], stack[n], h[n], err, input)
    <3>1. \A i \in 1 .. n - 1 : IsLink(stack[i], h[i], stack[i + 1], h[i + 1], err, input)
      BY DEF Tracked, Tracks
    <3> HIDE DEF n
    <3> QED BY <2>1, <3>1
  <2>4. stack[n - 1].role # "packed"
    BY <2>3 DEF IsLink
  <2> QED BY <1>1, <2>1, <2>2, <2>3, <2>4 DEF Parent, IsCursor
<1> QED BY <1>3, <1>4

LEMMA ElementStep ==
  ASSUME IInv, PackedElement, Len(stack) > 1
  PROVE  \E r : LET n == Len(stack)
                IN  /\ r = ReadElement(Top.type, input, Top.ptr, Top.end)
                    /\ err' = r.err /\ input' = input /\ fed' = fed
                    /\ Len(stack') = n
                    /\ stack'[n] = Moved(Top, r.ptr, Top.obj)
                    /\ stack'[n - 1] = Moved(Parent, Parent.ptr,
                                             IF r.err = "none" THEN PushBack(Parent.obj, Top.field, r.val) ELSE Parent.obj)
                    /\ \A i \in 1 .. n - 2 : stack'[i] = stack[i]
<1> DEFINE r == ReadElement(Top.type, input, Top.ptr, Top.end)
           n == Len(stack)
           t == TopMoved(stack, r.ptr, Top.obj)
           x == IF r.err = "none" THEN PushBack(Parent.obj, Top.field, r.val) ELSE Parent.obj
<1>1. Nested(stack, input) /\ stack # <<>> /\ n \in Nat \ {0} /\ DOMAIN stack = 1 .. n
      /\ Top = stack[n] /\ Last(stack) = Top /\ Parent = stack[n - 1]
  BY TopFacts DEF IInv, PackedElement, Running, Top, Parent
<1>2. IsCursor(Top, input) /\ Slice(input, Top.ptr, Top.end) /\ Top.type \in NumericTypes
  BY <1>1, TopFacts DEF IsCursor, PackedElement
<1>3. r.ptr \in Top.ptr .. Top.end
  <2>1. Returns(r, Top.ptr, Top.end)
    BY <1>2, ReadElementReturns
  <2> QED BY <2>1 DEF Returns
<1>4. err' = r.err /\ input' = input /\ fed' = fed
  BY DEF PackedElement
<1>5. stack' = [t EXCEPT ![n - 1].obj = x]
  <2>1. [stack EXCEPT ![n].ptr = r.ptr] = t
    BY <1>1, TopMovedIs DEF Top
  <2>2. stack' = [stack EXCEPT ![n].ptr = r.ptr, ![n - 1].obj = x]
    BY DEF PackedElement, Parent
  <2> HIDE DEF r, t, x
  <2>3. stack' = [[stack EXCEPT ![n].ptr = r.ptr] EXCEPT ![n - 1].obj = x]
    BY <2>2
  <2> QED BY <2>1, <2>3
<1>6. Nested(t, input) /\ Len(t) = n /\ t[n] = Moved(Top, r.ptr, Top.obj) /\ \A i \in 1 .. n - 1 : t[i] = stack[i]
  <2> HIDE DEF r
  <2>1. Nested(t, input)
    BY <1>1, <1>3, MoveKeepsNested
  <2> DEFINE q == r.ptr
             o == Top.obj
  <2> HIDE DEF q, o
  <2>2. LET s == TopMoved(stack, q, o)
        IN  /\ Len(s) = Len(stack) /\ s[Len(stack)] = Moved(Last(stack), q, o)
            /\ \A i \in 1 .. Len(stack) - 1 : s[i] = stack[i]
    BY <1>1, TopMovedParts
  <2> QED BY <1>1, <2>1, <2>2 DEF q, o
<1> HIDE DEF t, x, r
<1>7. n - 1 \in DOMAIN t /\ n \in DOMAIN t /\ DOMAIN t = 1 .. n
  <2>1. t # <<>>
    BY <1>1, <1>6
  <2>2. DOMAIN t = 1 .. Len(t)
    BY <1>6, <2>1, NestedTop
  <2> QED BY <1>1, <1>6, <2>2
<1>8. LET u == [t EXCEPT ![n - 1].obj = x]
      IN  /\ Nested(u, input) /\ Len(u) = Len(t) /\ u[n - 1] = Moved(t[n - 1], t[n - 1].ptr, x)
          /\ \A i \in DOMAIN t : i # n - 1 => u[i] = t[i]
  <2> DEFINE m == n - 1
  <2> HIDE DEF m
  <2>1. m \in DOMAIN t
    BY <1>7 DEF m
  <2>2. LET u == [t EXCEPT ![m].obj = x]
        IN  /\ Nested(u, input) /\ Len(u) = Len(t) /\ u[m] = Moved(t[m], t[m].ptr, x)
            /\ \A i \in DOMAIN t : i # m => u[i] = t[i]
    BY <1>6, <2>1, ObjectReplaced
  <2> QED BY <2>2 DEF m
<1>9. t[n - 1] = Parent
  BY <1>1, <1>6
<1>10. stack'[n - 1] = Moved(Parent, Parent.ptr, x) /\ Len(stack') = n
  BY <1>5, <1>6, <1>8, <1>9
<1>11. stack'[n] = Moved(Top, r.ptr, Top.obj)
  <2>1. n # n - 1
    <3>1. n \in Nat
      BY <1>1
    <3> HIDE DEF n
    <3> QED BY <3>1
  <2> QED BY <1>5, <1>6, <1>7, <1>8, <2>1
<1>12. \A i \in 1 .. n - 2 : stack'[i] = stack[i]
  <2> TAKE i \in 1 .. n - 2
  <2>1. i \in DOMAIN t /\ i # n - 1 /\ i \in 1 .. n - 1
    <3>1. n \in Nat /\ DOMAIN t = 1 .. n /\ i \in 1 .. n - 2
      BY <1>1, <1>7
    <3> HIDE DEF n
    <3> QED BY <3>1
  <2> QED BY <1>5, <1>6, <1>8, <2>1
<1> QED BY <1>4, <1>10, <1>11, <1>12 DEF r, x

-----------------------------------------------------------------------------
(* The innermost activation hands something to its caller and goes on.     *)
LEMMA PairStep ==
  ASSUME NEW s, NEW h, NEW e, NEW buf, NEW all, Tracks(s, h, e, buf, all), NEW n \in Nat, n > 1, Len(s) = n,
         NEW t, Len(t) = n, \A i \in 1 .. n - 2 : t[i] = s[i], SameSlot(s[n - 1], t[n - 1]),
         NEW l, NEW e2, e2 = "none" => e = "none",
         IsTop(t[n], l, e2, buf), IsLink(t[n - 1], h[n - 1], t[n], l, e2, buf)
  PROVE  \E g : Tracks(t, g, e2, buf, all)
<1> DEFINE p == n - 1
           g == [i \in 1 .. n |-> IF i = n THEN l ELSE h[i]]
<1>1. p \in 1 .. Len(s) /\ p <= Len(t) /\ p .. Len(t) - 1 = {p} /\ p + 1 = n /\ p - 1 = n - 2
  OBVIOUS
<1>2. g[n] = l /\ \A i \in 1 .. p : g[i] = h[i]
  OBVIOUS
<1> HIDE DEF g
<1>3. s[p].role # "packed"
  <2>1. IsLink(s[p], h[p], s[p + 1], h[p + 1], e, buf)
    BY <1>1 DEF Tracks
  <2> QED BY <2>1 DEF IsLink
<1>4. SameSlot(s[p], t[p]) /\ IsLink(t[p], h[p], t[p + 1], l, e2, buf) /\ \A i \in 1 .. p - 1 : t[i] = s[i]
  BY <1>1
<1> HIDE DEF p
<1>5. g[p] = h[p] /\ \A i \in 1 .. p - 1 : g[i] = h[i]
  BY <1>1, <1>2
<1>6. IsTop(t[Len(t)], g[Len(t)], e2, buf)
  BY <1>2
<1>7. \A i \in p .. Len(t) - 1 : IsLink(t[i], g[i], t[i + 1], g[i + 1], e2, buf)
  <2>1. IsLink(t[p], g[p], t[p + 1], g[p + 1], e2, buf)
    BY <1>1, <1>2, <1>4, <1>5
  <2> QED BY <1>1, <2>1
<1>8. \A i \in 1 .. p - 1 : t[i] = s[i] /\ g[i] = h[i]
  BY <1>4, <1>5
<1>9. SameSlot(s[p], t[p]) /\ g[p].whole = h[p].whole /\ (s[p].role = "packed" => g[p].read = h[p].read)
  BY <1>3, <1>4, <1>5
<1>10. Tracks(t, g, e2, buf, all)
  <2>1. Len(s) \in Nat /\ Len(t) \in Nat
    OBVIOUS
  <2>2. e2 = "none" => e = "none"
    OBVIOUS
  <2>3. Tracks(s, h, e, buf, all)
    OBVIOUS
  <2>4. p \in 1 .. Len(s) /\ p <= Len(t)
    BY <1>1
  <2> QED BY <1>6, <1>7, <1>8, <1>9, <2>1, <2>2, <2>3, <2>4, Retracked, SMTT(30)
<1> QED BY <1>10

(* What PackedElement makes of the caller and the callee.                  *)
LEMMA ElementKept ==
  ASSUME NEW c, NEW k, NEW d, NEW l, NEW buf, IsLink(c, k, d, l, "none", buf), IsTop(d, l, "none", buf),
         IsCursor(c, buf), c.type \in DOMAIN Schema, IsCursor(d, buf), d.role = "packed", d.ptr < d.end,
         NEW r, r = ReadElement(d.type, buf, d.ptr, d.end),
         NEW d2, d2 = Moved(d, r.ptr, d.obj),
         NEW c2, c2 = Moved(c, c.ptr, IF r.err = "none" THEN PushBack(c.obj, d.field, r.val) ELSE c.obj)
  PROVE  \E l2 : IsTop(d2, l2, r.err, buf) /\ IsLink(c2, k, d2, l2, r.err, buf)
<1> DEFINE type == d.type
           b == Between(buf, d.ptr, d.end)
           m == HeadLength(type, b)
           x == Item(type, SubSeq(b, 1, m))
           f == d.field
           made == Made(c, k)
           obj == IF r.err = "none" THEN PushBack(c.obj, f, r.val) ELSE c.obj
<1>1. type \in NumericTypes /\ Slice(buf, d.ptr, d.end)
  BY DEF IsCursor
<1>2. type # "field" /\ type \in {"field"} \cup NumericTypes /\ ItemSet(type) = Int
  BY <1>1, FieldOrNumber
<1>3. /\ l.whole \in Seq(Byte) /\ l.read \in Seq(Int) /\ Remaining(type, l.whole, l.read, b)
  BY <1>2 DEF IsTop, Sound, What
<1>4. d2.ptr = r.ptr /\ d2.end = d.end /\ SameSlot(d, d2)
  BY MovedMembers
<1>5. c2.ptr = c.ptr /\ c2.end = c.end /\ SameSlot(c, c2) /\ c2.obj = obj
  <2> HIDE DEF obj
  <2>1. c2 = Moved(c, c.ptr, obj)
    BY DEF obj
  <2> QED BY <2>1, MovedMembers
<1>6. d2.role = "packed" /\ d2.type = type /\ What(d2) = type
  BY <1>4 DEF SameSlot, What
<1>7. Taking(buf, d.ptr, d.end, type, l.whole, l.read)
  BY <1>1, <1>2, <1>3, TakeOne
<1>8. /\ m = 0 => r.err # "none"
      /\ m # 0 => m \in 1 .. d.end - d.ptr /\ r = Read(x, d.ptr + m)
  <2>1. m = ValueLength(WireTypeFor(type), b) /\ x = ElementIn(type, SubSeq(b, 1, m))
    BY <1>2 DEF HeadLength, Item
  <2> HIDE DEF m, x
  <2>2. /\ ValueLength(WireTypeFor(type), b) = 0 => r.err # "none"
        /\ ValueLength(WireTypeFor(type), b) # 0 =>
             /\ ValueLength(WireTypeFor(type), b) \in 1 .. d.end - d.ptr
             /\ r = Read(ElementIn(type, SubSeq(b, 1, ValueLength(WireTypeFor(type), b))),
                         d.ptr + ValueLength(WireTypeFor(type), b))
    BY <1>1, ElementRead
  <2> QED BY <2>1, <2>2
<1>9. /\ Near(c.obj, made, f) /\ c.obj.val[f] = made.val[f] \o l.read
  BY DEF IsLink
<1>10. f \in DOMAIN made.val /\ made.val[f] \in Seq(Int)
  BY LinkFacts
<1>11. CASE m = 0
  <2>1. r.err # "none" /\ c2.obj = c.obj
    BY <1>5, <1>8, <1>11
  <2>2. Items[l.whole][type] = [ok |-> FALSE, list |-> l.read]
    <3>1. d.ptr # d.end
      BY <1>1 DEF Slice
    <3> QED BY <1>7, <1>11, <3>1 DEF Taking
  <2>3. Doomed(d2, l)
    <3>1. Items[l.whole][type].ok = FALSE
      BY <2>2
    <3> QED BY <1>6, <3>1 DEF Doomed
  <2>4. IsTop(d2, l, r.err, buf)
    BY <1>2, <1>3, <1>6, <2>1, <2>3 DEF IsTop, Sound
  <2> HIDE DEF made, f, obj
  <2>5. IsLink(c2, k, d2, l, r.err, buf)
    BY <1>4, <1>5, <1>9, <2>1, LinkMoves DEF made, f
  <2> QED BY <2>4, <2>5
<1>12. CASE m # 0
  <2> DEFINE l2 == [whole |-> l.whole, read |-> Append(l.read, x), pend |-> 0]
  <2> HIDE DEF x, m, b
  <2>1. r.err = "none" /\ r.val = x /\ r.ptr = d.ptr + m
    BY <1>8, <1>12 DEF Read
  <2>2. x \in Int /\ Append(l.read, x) \in Seq(Int)
        /\ Remaining(type, l.whole, Append(l.read, x), Between(buf, d.ptr + m, d.end))
    BY <1>2, <1>7, <1>12 DEF Taking, x, m, b
  <2>3. l2.whole = l.whole /\ l2.read = Append(l.read, x)
    OBVIOUS
  <2> HIDE DEF l2
  <2>4. IsTop(d2, l2, r.err, buf)
    BY <1>2, <1>3, <1>4, <1>6, <2>1, <2>2, <2>3 DEF IsTop, Sound
  <2> DEFINE u == Append(c.obj.val[f], x)
  <2>5. c2.obj = [c.obj EXCEPT !.val[f] = u]
    BY <1>5, <2>1 DEF PushBack
  <2> HIDE DEF u, made, f, obj
  <2>6. Near(c2.obj, made, f) /\ c2.obj.val[f] = u
    <3> DEFINE o == c.obj
    <3> HIDE DEF o
    <3>1. Near(o, made, f) /\ f \in DOMAIN made.val
      BY <1>9, <1>10 DEF o
    <3>2. LET w == [o EXCEPT !.val[f] = u] IN Near(w, made, f) /\ w.val[f] = u
      BY <3>1, NearChanged
    <3> QED BY <2>5, <3>2 DEF o
  <2>7. u = made.val[f] \o l2.read
    <3>1. u = Append(made.val[f] \o l.read, x)
      BY <1>9 DEF u
    <3>2. made.val[f] \o Append(l.read, x) = Append(made.val[f] \o l.read, x)
      <4> DEFINE w == made.val[f]
                 v == l.read
      <4> HIDE DEF w, v
      <4>1. w \in Seq(Int) /\ v \in Seq(Int) /\ x \in Int
        BY <1>3, <1>10, <2>2 DEF w, v
      <4>2. w \o Append(v, x) = Append(w \o v, x)
        BY <4>1, AppendToJoined
      <4> QED BY <4>2 DEF w, v
    <3> QED BY <2>3, <3>1, <3>2
  <2>8. IsLink(c2, k, d2, l2, r.err, buf)
    BY <1>4, <1>5, <2>3, <2>6, <2>7, LinkMoves DEF made, f
  <2> QED BY <2>4, <2>8
<1> QED BY <1>11, <1>12

LEMMA PackedTracked ==
  ASSUME IInv, PackedElement, NEW h, Tracked(h)
  PROVE  \E g : Tracked(g)'
<1> DEFINE n == Len(stack)
<1>1. stack # <<>> /\ err = "none" /\ Top.role = "packed" /\ Top.ptr < Top.end
  BY DEF PackedElement, Running
<1>2. n > 1 /\ IsCursor(Parent, input) /\ Parent.type \in DOMAIN Schema /\ Parent = stack[n - 1]
      /\ IsLink(Parent, h[n - 1], Top, h[n], "none", input)
  BY <1>1, CallerOfPacked
<1>3. n \in Nat /\ Top = stack[n] /\ IsCursor(Top, input)
  BY <1>1, TopFacts
<1>4. Tracks(stack, h, "none", input, FlattenSeq(fed))
  BY <1>1 DEF Tracked
<1>5. IsTop(Top, h[n], "none", input)
  BY <1>3, <1>4 DEF Tracks
<1>6. PICK r : /\ r = ReadElement(Top.type, input, Top.ptr, Top.end)
               /\ err' = r.err /\ input' = input /\ fed' = fed
               /\ Len(stack') = n
               /\ stack'[n] = Moved(Top, r.ptr, Top.obj)
               /\ stack'[n - 1] = Moved(Parent, Parent.ptr,
                                        IF r.err = "none" THEN PushBack(Parent.obj, Top.field, r.val) ELSE Parent.obj)
               /\ \A i \in 1 .. n - 2 : stack'[i] = stack[i]
  BY <1>2, ElementStep
<1>7. PICK l2 : IsTop(stack'[n], l2, r.err, input) /\ IsLink(stack'[n - 1], h[n - 1], stack'[n], l2, r.err, input)
  <2> DEFINE c == Parent
             d == Top
             k == h[n - 1]
             l == h[n]
             c2 == stack'[n - 1]
             d2 == stack'[n]
  <2>1. /\ IsLink(c, k, d, l, "none", input) /\ IsTop(d, l, "none", input)
        /\ IsCursor(c, input) /\ c.type \in DOMAIN Schema /\ IsCursor(d, input) /\ d.role = "packed" /\ d.ptr < d.end
        /\ r = ReadElement(d.type, input, d.ptr, d.end)
        /\ d2 = Moved(d, r.ptr, d.obj)
        /\ c2 = Moved(c, c.ptr, IF r.err = "none" THEN PushBack(c.obj, d.field, r.val) ELSE c.obj)
    BY <1>1, <1>2, <1>3, <1>5, <1>6
  <2> HIDE DEF c, d, k, l, c2, d2
  <2>2. \E l2 : IsTop(d2, l2, r.err, input) /\ IsLink(c2, k, d2, l2, r.err, input)
    BY <2>1, ElementKept
  <2> QED BY <2>2 DEF k, c2, d2
<1>8. SameSlot(stack[n - 1], stack'[n - 1])
  BY <1>2, <1>6, MovedMembers
<1>9. \E g : Tracks(stack', g, r.err, input, FlattenSeq(fed))
  <2> DEFINE all == FlattenSeq(fed)
             t == stack'
             e2 == r.err
  <2>1. /\ Tracks(stack, h, "none", input, all) /\ n \in Nat /\ n > 1 /\ Len(stack) = n
        /\ Len(t) = n /\ (\A i \in 1 .. n - 2 : t[i] = stack[i]) /\ SameSlot(stack[n - 1], t[n - 1])
        /\ IsTop(t[n], l2, e2, input) /\ IsLink(t[n - 1], h[n - 1], t[n], l2, e2, input)
    BY <1>2, <1>3, <1>4, <1>6, <1>7, <1>8
  <2> HIDE DEF all, t, e2, n
  <2>2. e2 = "none" => "none" = "none"
    OBVIOUS
  <2>3. \E g : Tracks(t, g, e2, input, all)
    BY <2>1, <2>2, PairStep, ZenonT(60)
  <2> QED BY <2>3 DEF all, t, e2
<1> QED BY <1>6, <1>9 DEF Tracked

-----------------------------------------------------------------------------
(* What an activation is a decoding of is an occurrence of a field of its  *)
(* caller's message.                                                       *)
Contribution(d, l) ==
  IF d.role = "packed"
  THEN IF Items[l.whole][d.type].ok THEN Ok(Items[l.whole][d.type].list) ELSE Bad
  ELSE Decode[l.whole][d.type]

LEMMA LinkOccurrence ==
  ASSUME NEW c, NEW k, NEW d, NEW l, NEW e, NEW buf, IsLink(c, k, d, l, e, buf), c.type \in DOMAIN Schema,
         d.role \in Roles
  PROVE  LET r == Contribution(d, l)
         IN  /\ d.role # "packed" => Schema[c.type][d.field].kind = d.role /\ d.role \in {"message", "repeated_message", "map"}
             /\ DecodeFields(c.type, Append(k.read, k.pend)) =
                  IF r.ok THEN Ok(Updated(c.type, Made(c, k), d.field, r.val)) ELSE Bad
<1> DEFINE t == c.type
           f == d.field
           F == Schema[t][f]
           made == Made(c, k)
           read == k.read
           x == k.pend
           o == Append(Occurrences(read, f), x)
           r == Occurrence(Decode, F, o, Len(o))
<1>1. read \in Seq(Fields) /\ DecodeFields(t, read) = Ok(made) /\ f \in DOMAIN Schema[t]
      /\ ValidField(F) /\ d.type = F.type /\ d.role = RoleOf(F.kind)
      /\ (d.role = "packed" => F.kind = "repeated")
  BY LinkFacts
<1>2. x \in Fields /\ x.num = f /\ x.wire = Delimited /\ l.whole = Source(F.kind, o, Len(o)) /\ t \in DOMAIN Schema
  BY DEF IsLink
<1> HIDE DEF t, f, made, read, x
<1>3. DecodeFields(t, Append(read, x)) =
        IF r.ok THEN Ok([ has |-> IF f \in Flagged(t) THEN made.has \cup {f} ELSE made.has,
                          val |-> [made.val EXCEPT ![f] = Extended(F.kind, made.val[f], r.val)] ])
        ELSE Bad
  BY <1>1, <1>2, ObjectAppend, SMTT(30)
<1>4. DecodeFields(t, Append(read, x)) = IF r.ok THEN Ok(Updated(t, made, f, r.val)) ELSE Bad
  BY <1>3 DEF Updated
<1>5. Len(o) \in DOMAIN o /\ o[Len(o)] = x /\ o \in Seq(Fields)
  <2> DEFINE p == Occurrences(read, f)
  <2>1. p \in Seq(Fields)
    BY <1>1, PiecesType
  <2> HIDE DEF p
  <2>2. Append(p, x) \in Seq(Fields) /\ Len(Append(p, x)) = Len(p) + 1 /\ Append(p, x)[Len(p) + 1] = x
    BY <1>2, <2>1, AppendIs
  <2> QED BY <2>1, <2>2 DEF p
<1> HIDE DEF o, F, r
<1>6. d.role # "packed" => F.kind = d.role /\ d.role \in {"message", "repeated_message", "map"}
  BY <1>1 DEF RoleOf, ValidField, Kinds, Roles
<1>7. r = Contribution(d, l)
  <2>1. CASE d.role # "packed"
    <3>1. r = Decode[l.whole][d.type]
      <4>1. r = Occurrence(Decode, F, o, Len(o))
        BY DEF r
      <4>2. F.kind \in {"message", "repeated_message", "map"}
        BY <1>6, <2>1
      <4>3. Occurrence(Decode, F, o, Len(o)) =
              IF o[Len(o)].wire = Delimited THEN Decode[Source(F.kind, o, Len(o))][F.type] ELSE Bad
        BY <4>2, OccurrenceIs
      <4> QED BY <1>1, <1>2, <1>5, <4>1, <4>3
    <3> QED BY <2>1, <3>1 DEF Contribution
  <2>2. CASE d.role = "packed"
    <3>1. r = Numbers(F.type, x)
      <4>1. r = Occurrence(Decode, F, o, Len(o)) /\ F.kind = "repeated"
        BY <1>1, <2>2 DEF r
      <4> QED BY <1>5, <4>1, OccurrenceIs
    <3>2. l.whole = PayloadOf(x)
      BY <1>1, <1>2, <1>5, <2>2 DEF Source
    <3>3. r = IF Items[l.whole][d.type].ok THEN Ok(Items[l.whole][d.type].list) ELSE Bad
      BY <1>1, <1>2, <3>1, <3>2 DEF Numbers
    <3> QED BY <2>2, <3>3 DEF Contribution
  <2> QED BY <2>1, <2>2
<1> QED BY <1>4, <1>6, <1>7 DEF t, f, F, made, read, x

(* The bytes of an activation are used up.                                 *)
LEMMA EndReached ==
  ASSUME NEW d, NEW l, NEW buf, IsCursor(d, buf), IsTop(d, l, "none", buf), d.ptr >= d.end
  PROVE  /\ d.role = "packed" => Items[l.whole][d.type] = [ok |-> TRUE, list |-> l.read]
         /\ d.role # "packed" =>
              /\ Items[l.whole]["field"].ok /\ FieldList(l.whole) = l.read
              /\ l.whole \in Seq(Byte) /\ l.read \in Seq(Fields)
              /\ d.type \in DOMAIN Schema
              /\ DecodeFields(d.type, l.read) = Ok(d.obj)
              /\ Decode[l.whole][d.type] = IF Required(d.type) \subseteq d.obj.has THEN Ok(d.obj) ELSE Bad
<1> DEFINE what == What(d)
           m == HeadLength(what, Between(buf, d.ptr, d.end))
<1>1. Slice(buf, d.ptr, d.end) /\ (d.role # "packed" => d.type \in DOMAIN Schema)
      /\ what \in {"field"} \cup NumericTypes
  BY FieldOrNumber DEF IsCursor, What
<1>2. l.whole \in Seq(Byte) /\ l.read \in Seq(ItemSet(what))
      /\ Remaining(what, l.whole, l.read, Between(buf, d.ptr, d.end))
      /\ (d.role # "packed" => d.obj = Made(d, l) /\ DecodeFields(d.type, l.read) = Ok(Made(d, l)))
  BY DEF IsTop, Sound
<1> HIDE DEF what
<1>3. Taking(buf, d.ptr, d.end, what, l.whole, l.read)
  BY <1>1, <1>2, TakeOne
<1>4. Items[l.whole][what] = [ok |-> TRUE, list |-> l.read]
  <2>1. d.ptr = d.end /\ d.end - d.ptr = 0
    BY <1>1 DEF Slice
  <2>2. m \in 0 .. d.end - d.ptr
    BY <1>3 DEF Taking
  <2>3. m = 0
    <3> HIDE DEF m
    <3> QED BY <2>1, <2>2
  <2> QED BY <1>3, <2>1, <2>3 DEF Taking
<1>5. ASSUME d.role # "packed"
      PROVE  /\ Items[l.whole]["field"].ok /\ FieldList(l.whole) = l.read
             /\ l.whole \in Seq(Byte) /\ l.read \in Seq(Fields)
             /\ d.type \in DOMAIN Schema
             /\ DecodeFields(d.type, l.read) = Ok(d.obj)
             /\ Decode[l.whole][d.type] = IF Required(d.type) \subseteq d.obj.has THEN Ok(d.obj) ELSE Bad
  <2>1. what = "field"
    BY <1>5 DEF what, What
  <2>2. Items[l.whole]["field"].ok /\ FieldList(l.whole) = l.read
    BY <1>4, <2>1 DEF FieldList
  <2>3. DecodeFields(d.type, l.read) = Ok(d.obj)
    BY <1>2, <1>5
  <2>4. \A v : Items[l.whole]["field"].ok /\ DecodeFields(d.type, FieldList(l.whole)) = Ok(v) =>
                 Decode[l.whole][d.type] = IF Required(d.type) \subseteq v.has THEN Ok(v) ELSE Bad
    BY <1>1, <1>2, <1>5, DecodeMade
  <2> QED BY <1>1, <1>2, <1>5, <2>1, <2>2, <2>3, <2>4, FieldOrNumber
<1>6. d.role = "packed" => what = d.type
  BY DEF what, What
<1> QED BY <1>4, <1>5, <1>6

-----------------------------------------------------------------------------
(* The value of the field goes to the caller.                              *)
Handed(obj, d) ==
  CASE d.role = "message"          -> Assign(obj, d.field, d.obj)
    [] d.role = "repeated_message" -> PushBack(obj, d.field, d.obj)
    [] d.role = "map" /\ {1, 2} \subseteq d.obj.has ->
         InsertEntry(obj, d.field, d.obj.val[1], d.obj.val[2])
    [] OTHER -> obj

LEMMA HandedIs ==
  ASSUME NEW obj, NEW d
  PROVE  /\ d.role = "message" => Handed(obj, d) = Assign(obj, d.field, d.obj)
         /\ d.role = "repeated_message" => Handed(obj, d) = PushBack(obj, d.field, d.obj)
         /\ d.role = "map" => Handed(obj, d) = IF {1, 2} \subseteq d.obj.has
                                               THEN InsertEntry(obj, d.field, d.obj.val[1], d.obj.val[2]) ELSE obj
         /\ d.role = "packed" => Handed(obj, d) = obj
<1>1. ASSUME d.role = "message"
      PROVE  Handed(obj, d) = Assign(obj, d.field, d.obj)
  BY <1>1 DEF Handed
<1>2. ASSUME d.role = "repeated_message"
      PROVE  Handed(obj, d) = PushBack(obj, d.field, d.obj)
  BY <1>2 DEF Handed
<1>3. ASSUME d.role = "map"
      PROVE  Handed(obj, d) = IF {1, 2} \subseteq d.obj.has
                              THEN InsertEntry(obj, d.field, d.obj.val[1], d.obj.val[2]) ELSE obj
  <2>1. CASE {1, 2} \subseteq d.obj.has
    BY <1>3, <2>1 DEF Handed
  <2>2. CASE ~({1, 2} \subseteq d.obj.has)
    BY <1>3, <2>2 DEF Handed
  <2> QED BY <2>1, <2>2
<1>4. ASSUME d.role = "packed"
      PROVE  Handed(obj, d) = obj
  BY <1>4 DEF Handed
<1> QED BY <1>1, <1>2, <1>3, <1>4

LEMMA UpdatedMap ==
  ASSUME NEW t \in DOMAIN Schema, NEW o, Object(t, o), NEW f \in DOMAIN Schema[t], NEW v, Schema[t][f].kind = "map"
  PROVE  Updated(t, o, f, v) = IF {1, 2} \subseteq v.has THEN InsertEntry(o, f, v.val[1], v.val[2]) ELSE o
<1>1. Updating(t, o, f, v)
  BY UpdatedIs
<1> QED BY <1>1 DEF Updating

LEMMA UpdatedPacked ==
  ASSUME NEW t \in DOMAIN Schema, NEW o, Object(t, o), NEW f \in DOMAIN Schema[t], NEW v, Schema[t][f].kind = "repeated"
  PROVE  Updated(t, o, f, v) = [has |-> o.has, val |-> [o.val EXCEPT ![f] = o.val[f] \o v]]
<1>1. Updating(t, o, f, v)
  BY UpdatedIs
<1> QED BY <1>1 DEF Updating

LEMMA UpdatedOne ==
  ASSUME NEW t \in DOMAIN Schema, NEW o, Object(t, o), NEW f \in DOMAIN Schema[t], NEW v
  PROVE  /\ Schema[t][f].kind = "message" => Updated(t, o, f, v) = Assign(o, f, v)
         /\ Schema[t][f].kind = "repeated_message" => Updated(t, o, f, v) = PushBack(o, f, v)
<1>1. Updating(t, o, f, v)
  BY UpdatedIs
<1> QED BY <1>1 DEF Updating

(* Nothing but the field that the caller waits for differs.                *)
LEMMA NearBut ==
  ASSUME NEW t, NEW obj, NEW made, Object(t, made), NEW f, f \in DOMAIN made.val, Near(obj, made, f), NEW u, obj.val[f] = u
  PROVE  obj = [has |-> made.has, val |-> [made.val EXCEPT ![f] = u]]
<1> DEFINE val == obj.val
           mv == made.val
           D == DOMAIN made.val
<1>1. val = [g \in D |-> val[g]] /\ (\A g \in D : g # f => val[g] = mv[g]) /\ obj = [has |-> made.has, val |-> val]
  BY DEF Near
<1>2. mv = [g \in D |-> mv[g]]
  BY DEF Object
<1>3. val = [mv EXCEPT ![f] = u]
  <2>1. f \in D /\ val[f] = u
    OBVIOUS
  <2> HIDE DEF val, mv, D
  <2> QED BY <1>1, <1>2, <2>1
<1> QED BY <1>1, <1>3

LEMMA ObjectIsItself ==
  ASSUME NEW t, NEW o, Object(t, o), NEW f
  PROVE  o = [has |-> o.has, val |-> [o.val EXCEPT ![f] = o.val[f]]]
<1> DEFINE val == o.val
<1>1. o = [has |-> o.has, val |-> val] /\ val = [g \in DOMAIN Schema[t] |-> val[g]]
  BY DEF Object
<1>2. [val EXCEPT ![f] = val[f]] = val
  <2> HIDE DEF val
  <2> QED BY <1>1
<1> QED BY <1>1, <1>2

LEMMA LinkReturns ==
  ASSUME NEW c, NEW k, NEW d, NEW l, NEW buf, IsLink(c, k, d, l, "none", buf), c.type \in DOMAIN Schema,
         d.role \in Roles, IsCursor(d, buf), IsTop(d, l, "none", buf), d.ptr >= d.end,
         d.role \in {"message", "repeated_message"} => Required(d.type) \subseteq d.obj.has
  PROVE  DecodeFields(c.type, Append(k.read, k.pend)) = Ok(Handed(c.obj, d))
<1> DEFINE t == c.type
           f == d.field
           F == Schema[t][f]
           made == Made(c, k)
           r == Contribution(d, l)
           w == Append(k.read, k.pend)
<1>1. Object(t, made) /\ f \in DOMAIN Schema[t] /\ f \in DOMAIN made.val /\ d.type = F.type
      /\ (d.role = "packed" => F.kind = "repeated" /\ made.val[f] \in Seq(Int))
  BY LinkFacts
<1>2. /\ d.role # "packed" => F.kind = d.role /\ d.role \in {"message", "repeated_message", "map"}
      /\ DecodeFields(t, w) = IF r.ok THEN Ok(Updated(t, made, f, r.val)) ELSE Bad
  BY LinkOccurrence
<1>3. /\ Near(c.obj, made, f)
      /\ c.obj.val[f] = IF d.role = "packed" THEN made.val[f] \o l.read ELSE made.val[f]
  BY DEF IsLink
<1>4. CASE d.role # "packed"
  <2>1. Required(d.type) \subseteq d.obj.has
    <3>1. d.role = "map" => Required(F.type) = {}
      <4> HIDE DEF F
      <4>1. \A g \in DOMAIN Schema[t] : Schema[t][g].kind = "map" => Required(Schema[t][g].type) = {}
        BY EntryAssumption
      <4> QED BY <1>1, <1>2, <4>1 DEF F
    <3> HIDE DEF F
    <3>2. d.role = "map" => Required(d.type) = {}
      BY <1>1, <3>1
    <3> QED BY <1>2, <1>4, <3>2
  <2>2. r = Ok(d.obj)
    <3>1. Decode[l.whole][d.type] = IF Required(d.type) \subseteq d.obj.has THEN Ok(d.obj) ELSE Bad
      BY <1>4, EndReached
    <3> QED BY <1>4, <2>1, <3>1 DEF Contribution
  <2> HIDE DEF r, made, F, w
  <2>3. r.ok /\ r.val = d.obj
    BY <2>2, OkIs
  <2>4. c.obj = made
    <3>1. c.obj.val[f] = made.val[f]
      BY <1>3, <1>4
    <3>2. c.obj = [has |-> made.has, val |-> [made.val EXCEPT ![f] = made.val[f]]]
      <4> DEFINE obj == c.obj
                 u == made.val[f]
      <4> HIDE DEF obj, u, t, f
      <4>1. Object(t, made) /\ f \in DOMAIN made.val /\ Near(obj, made, f) /\ obj.val[f] = u
        BY <1>1, <1>3, <3>1 DEF obj, u
      <4>2. obj = [has |-> made.has, val |-> [made.val EXCEPT ![f] = u]]
        BY <4>1, NearBut
      <4> QED BY <4>2 DEF obj, u
    <3>3. made = [has |-> made.has, val |-> [made.val EXCEPT ![f] = made.val[f]]]
      BY <1>1, ObjectIsItself
    <3> QED BY <3>2, <3>3
  <2>5. DecodeFields(t, w) = Ok(Updated(t, made, f, d.obj))
    BY <1>2, <2>3
  <2>6. Updated(t, made, f, d.obj) = Handed(made, d)
    <3> DEFINE v == d.obj
    <3> HIDE DEF v, t
    <3>1. t \in DOMAIN Schema /\ Object(t, made) /\ f \in DOMAIN Schema[t] /\ F = Schema[t][f]
      BY <1>1 DEF t, F
    <3> HIDE DEF f
    <3>3. F.kind = d.role /\ d.role \in {"message", "repeated_message", "map"}
      BY <1>2, <1>4
    <3>4. CASE d.role = "message"
      <4>1. Handed(made, d) = Assign(made, f, v)
        BY <3>4, HandedIs DEF f, v
      <4>2. Updated(t, made, f, v) = Assign(made, f, v)
        BY <3>1, <3>3, <3>4, UpdatedOne
      <4> QED BY <4>1, <4>2 DEF v
    <3>5. CASE d.role = "repeated_message"
      <4>1. Handed(made, d) = PushBack(made, f, v)
        BY <3>5, HandedIs DEF f, v
      <4>2. Updated(t, made, f, v) = PushBack(made, f, v)
        BY <3>1, <3>3, <3>5, UpdatedOne
      <4> QED BY <4>1, <4>2 DEF v
    <3>6. CASE d.role = "map"
      <4>1. Handed(made, d) = IF {1, 2} \subseteq v.has THEN InsertEntry(made, f, v.val[1], v.val[2]) ELSE made
        BY <3>6, HandedIs DEF f, v
      <4>2. Schema[t][f].kind = "map"
        BY <3>1, <3>3, <3>6
      <4>3. Updated(t, made, f, v) = IF {1, 2} \subseteq v.has THEN InsertEntry(made, f, v.val[1], v.val[2]) ELSE made
        BY <3>1, <4>2, UpdatedMap
      <4> QED BY <4>1, <4>3 DEF v
    <3> QED BY <3>3, <3>4, <3>5, <3>6
  <2> QED BY <2>4, <2>5, <2>6 DEF w
<1>5. CASE d.role = "packed"
  <2>1. Items[l.whole][d.type] = [ok |-> TRUE, list |-> l.read]
    BY <1>5, EndReached
  <2>2. r = Ok(l.read)
    BY <1>5, <2>1 DEF Contribution
  <2> HIDE DEF r, made, F, w
  <2>3. r.ok /\ r.val = l.read
    BY <2>2, OkIs
  <2>4. DecodeFields(t, w) = Ok(Updated(t, made, f, l.read))
    BY <1>2, <2>3
  <2>5. Updated(t, made, f, l.read) = [has |-> made.has, val |-> [made.val EXCEPT ![f] = made.val[f] \o l.read]]
    <3> DEFINE v == l.read
    <3> HIDE DEF v, t, f
    <3>1. t \in DOMAIN Schema /\ Object(t, made) /\ f \in DOMAIN Schema[t] /\ Schema[t][f].kind = "repeated"
      BY <1>1, <1>5 DEF t, F, f
    <3>2. Updated(t, made, f, v) = [has |-> made.has, val |-> [made.val EXCEPT ![f] = made.val[f] \o v]]
      BY <3>1, UpdatedPacked
    <3> QED BY <3>2 DEF v
  <2>6. c.obj = [has |-> made.has, val |-> [made.val EXCEPT ![f] = made.val[f] \o l.read]]
    <3>1. c.obj.val[f] = made.val[f] \o l.read
      BY <1>3, <1>5
    <3> DEFINE u == made.val[f] \o l.read
    <3> HIDE DEF u
    <3>2. c.obj.val[f] = u
      BY <3>1 DEF u
    <3>3. c.obj = [has |-> made.has, val |-> [made.val EXCEPT ![f] = u]]
      <4> DEFINE obj == c.obj
      <4> HIDE DEF obj, t, f
      <4>1. Object(t, made) /\ f \in DOMAIN made.val /\ Near(obj, made, f) /\ obj.val[f] = u
        BY <1>1, <1>3, <3>2 DEF obj
      <4>2. obj = [has |-> made.has, val |-> [made.val EXCEPT ![f] = u]]
        BY <4>1, NearBut
      <4> QED BY <4>2 DEF obj
    <3> QED BY <3>3 DEF u
  <2>7. Handed(c.obj, d) = c.obj
    BY <1>5, HandedIs
  <2> QED BY <2>4, <2>5, <2>6, <2>7 DEF w
<1> QED BY <1>4, <1>5

-----------------------------------------------------------------------------
(* A missing field is a fault that the rules find as well.                 *)
LEMMA MissingTracked ==
  ASSUME IInv, MissingRequired, NEW h, Tracked(h)
  PROVE  \E g : Tracked(g)'
<1> DEFINE n == Len(stack)
           l == h[n]
           d == Top
           e2 == "missing_required_field"
<1>1. stack # <<>> /\ err = "none" /\ d.ptr >= d.end /\ d.role # "packed" /\ ~(Required(d.type) \subseteq d.obj.has)
  BY DEF MissingRequired, AtEnd, Running, Missing
<1>2. err' = e2 /\ stack' = stack /\ input' = input /\ fed' = fed
  BY DEF MissingRequired
<1>3. n \in Nat \ {0} /\ d = stack[n] /\ IsCursor(d, input)
  BY <1>1, TopFacts
<1>4. Tracks(stack, h, "none", input, FlattenSeq(fed))
  BY <1>1 DEF Tracked
<1>5. IsTop(d, l, "none", input)
  BY <1>3, <1>4 DEF Tracks
<1>6. Sound(d, l) /\ d.obj = Made(d, l)
  BY <1>1, <1>5 DEF IsTop
<1> HIDE DEF l, d
<1>7. /\ FieldList(l.whole) = l.read /\ l.read \in Seq(Fields) /\ d.type \in DOMAIN Schema
      /\ DecodeFields(d.type, l.read) = Ok(d.obj)
      /\ Decode[l.whole][d.type] = IF Required(d.type) \subseteq d.obj.has THEN Ok(d.obj) ELSE Bad
  BY <1>1, <1>3, <1>5, EndReached
<1>8. Decode[l.whole][d.type] = Bad
  BY <1>1, <1>7
<1>9. Doomed(d, l)
  <2>1. ~Decode[l.whole][d.type].ok
    BY <1>8, OkIs
  <2>2. DoomedMessage(d.type, l.whole, l.read)
    BY <1>7, <2>1 DEF DoomedMessage, Stuck
  <2> QED BY <1>1, <2>2 DEF Doomed
<1>10. Near(d.obj, Made(d, l), 0)
  <2> DEFINE t == d.type
             o == d.obj
             read == l.read
  <2> HIDE DEF t, o, read
  <2>1. t \in DOMAIN Schema /\ read \in Seq(Fields) /\ DecodeFields(t, read) = Ok(o)
    BY <1>7 DEF t, o, read
  <2>2. Near(o, o, 0)
    BY <2>1, ObjectMade, NearItself
  <2> QED BY <1>6, <2>2 DEF o
<1>11. IsTop(d, l, e2, input)
  BY <1>6, <1>9, <1>10 DEF IsTop
<1>12. Tracks(stack, h, e2, input, FlattenSeq(fed))
  <2> DEFINE all == FlattenSeq(fed)
  <2>1. SameSlot(stack[n], stack[n])
    BY DEF SameSlot
  <2>2. IsTop(stack[n], h[n], e2, input)
    BY <1>3, <1>11 DEF l
  <2>3. \A i \in 1 .. n - 1 : IsLink(stack[i], h[i], stack[i + 1], h[i + 1], "none", input)
    BY <1>4 DEF Tracks
  <2>4. ASSUME NEW i \in 1 .. n - 1
        PROVE  IsLink(stack[i], h[i], stack[i + 1], h[i + 1], e2, input)
    <3>1. IsLink(stack[i], h[i], stack[i + 1], h[i + 1], "none", input)
      BY <2>3
    <3> QED BY <3>1 DEF IsLink
  <2>5. stack[1].role = "root" /\ stack[1].type = Root /\ h[1].whole = all
    BY <1>4 DEF Tracks
  <2> QED BY <2>2, <2>4, <2>5 DEF Tracks
<1> QED BY <1>2, <1>12 DEF Tracked

LEMMA PoppedIs ==
  ASSUME IInv, stack # <<>>, Len(stack) # 1, NEW x
  PROVE  LET n == Len(stack)
             t == [Front(stack) EXCEPT ![n - 1].obj = x]
         IN  /\ n \in Nat /\ n > 1
             /\ Len(Front(stack)) = n - 1 /\ Front(stack)[n - 1] = Parent
             /\ \A i \in 1 .. n - 2 : Front(stack)[i] = stack[i]
             /\ Len(t) = n - 1 /\ t[n - 1] = Moved(Parent, Parent.ptr, x)
             /\ \A i \in 1 .. n - 2 : t[i] = stack[i]
<1> DEFINE n == Len(stack)
           s == Front(stack)
           t == [s EXCEPT ![n - 1].obj = x]
<1>1. Nested(stack, input) /\ n \in Nat \ {0}
  BY TopFacts DEF IInv
<1>2. Nested(s, input) /\ DOMAIN s = 1 .. n - 1 /\ \A i \in 1 .. n - 1 : s[i] = stack[i]
  BY <1>1, PopKeepsNested
<1>3. n > 1 /\ n - 1 \in 1 .. n - 1 /\ \A i \in 1 .. n - 2 : i \in 1 .. n - 1 /\ i # n - 1
  <2>1. n \in Nat \ {0} /\ n # 1
    BY <1>1
  <2> HIDE DEF n
  <2> QED BY <2>1
<1> HIDE DEF s
<1>4. s[n - 1] = Parent
  BY <1>2, <1>3 DEF Parent
<1>5. Len(s) = n - 1
  <2>1. s # <<>>
    <3>1. n - 1 \in DOMAIN s
      BY <1>2, <1>3
    <3> QED BY <3>1
  <2>2. Len(s) \in Nat /\ DOMAIN s = 1 .. Len(s)
    BY <1>2, <2>1, NestedTop
  <2>3. 1 .. n - 1 = 1 .. Len(s) /\ n - 1 \in Nat
    BY <1>2, <1>3, <2>2
  <2> HIDE DEF n
  <2> QED BY <1>3, <2>2, <2>3
<1>6. /\ Len(t) = Len(s) /\ t[n - 1] = Moved(s[n - 1], s[n - 1].ptr, x)
      /\ \A i \in DOMAIN s : i # n - 1 => t[i] = s[i]
  <2> DEFINE m == n - 1
  <2> HIDE DEF m
  <2>1. m \in DOMAIN s
    BY <1>2, <1>3 DEF m
  <2>2. LET u == [s EXCEPT ![m].obj = x]
        IN  /\ Nested(u, input) /\ Len(u) = Len(s) /\ u[m] = Moved(s[m], s[m].ptr, x)
            /\ \A i \in DOMAIN s : i # m => u[i] = s[i]
    BY <1>2, <2>1, ObjectReplaced
  <2> QED BY <2>2 DEF m
<1> HIDE DEF t, n
<1>7. \A i \in 1 .. n - 2 : s[i] = stack[i] /\ t[i] = stack[i]
  BY <1>2, <1>3, <1>6
<1> QED BY <1>1, <1>3, <1>4, <1>5, <1>6, <1>7 DEF s, t, n

-----------------------------------------------------------------------------
(* What a finished activation hands over is the occurrence of the field.   *)
LEMMA ReturnTracked ==
  ASSUME IInv, Return, Len(stack) # 1, NEW h, Tracked(h)
  PROVE  \E g : Tracked(g)'
<1> DEFINE n == Len(stack)
           c == Parent
           k == h[n - 1]
           d == Top
           l == h[n]
           x == Delivered
           t == [Front(stack) EXCEPT ![n - 1].obj = x]
           all == FlattenSeq(fed)
<1>1. stack # <<>> /\ err = "none" /\ d.ptr >= d.end /\ ~Missing
  BY DEF Return, AtEnd, Running
<1>2. err' = "none" /\ input' = input /\ fed' = fed /\ stack' = t
  BY <1>1 DEF Return
<1>3. n \in Nat \ {0} /\ d = stack[n] /\ IsCursor(d, input)
  BY <1>1, TopFacts
<1>4. Tracks(stack, h, "none", input, all)
  BY <1>1 DEF Tracked
<1>5. IsTop(d, l, "none", input)
  BY <1>3, <1>4 DEF Tracks
<1>6. n > 1 /\ n \in Nat /\ Len(t) = n - 1 /\ t[n - 1] = Moved(Parent, Parent.ptr, x)
      /\ \A i \in 1 .. n - 2 : t[i] = stack[i]
  <2> HIDE DEF x
  <2> QED BY <1>1, PoppedIs
<1>7. /\ IsCursor(c, input) /\ c.type \in DOMAIN Schema /\ c = stack[n - 1]
      /\ IsLink(c, k, d, l, "none", input)
  BY <1>1, <1>6, CallerOfPacked
<1>8. d.role \in Roles /\ (d.role \in {"message", "repeated_message"} => Required(d.type) \subseteq d.obj.has)
  BY <1>1, <1>3 DEF IsCursor, Missing
<1>9. x = Handed(c.obj, d)
  BY Zenon DEF Delivered, Handed
<1> DEFINE c2 == Moved(c, c.ptr, x)
           w == Append(k.read, k.pend)
           k2 == [whole |-> k.whole, read |-> w, pend |-> 0]
<1>10. c2.ptr = c.ptr /\ c2.end = c.end /\ c2.obj = x /\ SameSlot(c, c2)
  <2> HIDE DEF x, c
  <2> QED BY <1>7, MovedMembers
<1> HIDE DEF c, d, k, l, x
<1>11. DecodeFields(c.type, w) = Ok(x)
  BY <1>1, <1>3, <1>5, <1>7, <1>8, <1>9, LinkReturns
<1>12. k.whole \in Seq(Byte) /\ w \in Seq(Fields) /\ c.role # "packed"
       /\ Remaining("field", k.whole, w, Between(input, c.ptr, c.end))
  <2>1. Sound(c, k) /\ c.role # "packed" /\ k.pend \in Fields
    BY <1>7 DEF IsLink
  <2>2. k.read \in Seq(Fields)
    BY <2>1, FieldOrNumber DEF Sound, What
  <2> DEFINE r == k.read
             y == k.pend
  <2> HIDE DEF r, y
  <2>3. r \in Seq(Fields) /\ y \in Fields
    BY <2>1, <2>2 DEF r, y
  <2>4. Append(r, y) \in Seq(Fields)
    BY <2>3, AppendIs
  <2>5. Remaining("field", k.whole, w, Between(input, c.ptr, c.end))
    BY <1>7 DEF IsLink
  <2> QED BY <2>1, <2>4, <2>5 DEF Sound, r, y
<1>13. k2.whole = k.whole /\ k2.read = w
  OBVIOUS
<1> HIDE DEF c2, w, k2
<1>14. c2.role # "packed" /\ c2.type = c.type /\ What(c2) = "field"
  BY <1>10, <1>12 DEF SameSlot, What
<1>15. Made(c2, k2) = x
  <2>1. DecodeFields(c2.type, k2.read) = Ok(x)
    BY <1>11, <1>13, <1>14
  <2> QED BY <2>1, OkIs DEF Made
<1>16. IsTop(c2, k2, "none", input)
  BY <1>10, <1>11, <1>12, <1>13, <1>14, <1>15, FieldOrNumber DEF IsTop, Sound
<1>17. t[n - 1] = c2
  BY <1>6 DEF c, c2
<1>18. \E g : Tracks(t, g, "none", input, all)
  <2> HIDE DEF t, n, all
  <2>1. Len(stack) \in Nat /\ Len(stack) > 1 /\ Tracks(stack, h, "none", input, all)
    BY <1>4, <1>6 DEF n
  <2>2. Len(t) = Len(stack) - 1 /\ \A i \in 1 .. Len(stack) - 2 : t[i] = stack[i]
    BY <1>6 DEF n
  <2>3. SameSlot(stack[Len(stack) - 1], t[Len(stack) - 1])
    BY <1>7, <1>10, <1>17 DEF n
  <2>4. k2.whole = h[Len(stack) - 1].whole
    BY <1>13 DEF k, n
  <2>5. IsTop(t[Len(stack) - 1], k2, "none", input)
    BY <1>16, <1>17 DEF n
  <2> QED BY <2>1, <2>2, <2>3, <2>4, <2>5, PopStep, ZenonT(60)
<1> QED BY <1>2, <1>18 DEF Tracked

LEMMA ReturnSettles ==
  ASSUME IInv, Return, Len(stack) = 1, NEW h, Tracked(h)
  PROVE  Settled(err, object', FlattenSeq(fed), TRUE) /\ stack' = <<>> /\ err' = err /\ fed' = fed
<1> DEFINE d == Top
           l == h[1]
           all == FlattenSeq(fed)
<1>1. stack # <<>> /\ err = "none" /\ d.ptr >= d.end /\ ~Missing
  BY DEF Return, AtEnd, Running
<1>2. stack' = <<>> /\ object' = d.obj /\ err' = err /\ fed' = fed
  BY DEF Return
<1>3. d = stack[1] /\ IsCursor(d, input)
  BY <1>1, TopFacts
<1>4. IsTop(d, l, "none", input) /\ d.role = "root" /\ d.type = Root /\ l.whole = all
  BY <1>1, <1>3 DEF Tracked, Tracks
<1>5. Required(d.type) \subseteq d.obj.has
  BY <1>1, <1>4 DEF Missing
<1> HIDE DEF d, l, all
<1>6. Items[l.whole]["field"].ok /\ FieldList(l.whole) = l.read /\ DecodeFields(d.type, l.read) = Ok(d.obj)
  BY <1>1, <1>3, <1>4, EndReached
<1>7. Settled(err, object', all, TRUE)
  BY <1>1, <1>2, <1>4, <1>5, <1>6 DEF Settled
<1> QED BY <1>2, <1>7 DEF all

-----------------------------------------------------------------------------
(* The field that an activation decodes in vain is at fault.               *)
LEMMA LinkFails ==
  ASSUME NEW c, NEW k, NEW d, NEW l, NEW e, NEW buf, IsLink(c, k, d, l, e, buf), c.type \in DOMAIN Schema,
         IsCursor(c, buf), d.role \in Roles, Doomed(d, l)
  PROVE  DoomedMessage(c.type, k.whole, k.read)
<1> DEFINE r == Contribution(d, l)
           t == c.type
           read == k.read
           x == k.pend
           whole == k.whole
           b == Between(buf, c.ptr, c.end)
           m == FieldList(b)
<1>1. DecodeFields(t, Append(read, x)) = IF r.ok THEN Ok(Updated(t, Made(c, k), d.field, r.val)) ELSE Bad
  BY LinkOccurrence
<1>2. ~r.ok
  <2>1. CASE d.role = "packed"
    <3>1. r = Bad
      BY <2>1 DEF Doomed, Contribution
    <3> QED BY <3>1, OkIs
  <2>2. CASE d.role # "packed"
    BY <2>2 DEF Doomed, Contribution, DoomedMessage
  <2> QED BY <2>1, <2>2
<1> HIDE DEF r
<1>3. ~DecodeFields(t, Append(read, x)).ok
  BY <1>1, <1>2, OkIs
<1>4. Sound(c, k) /\ c.role # "packed" /\ x \in Fields /\ Remaining("field", whole, Append(read, x), b)
  BY DEF IsLink
<1>5. whole \in Seq(Byte) /\ read \in Seq(Fields)
  BY <1>4, FieldOrNumber DEF Sound, What
<1>6. b \in Seq(Byte)
  BY BetweenIs DEF IsCursor
<1> HIDE DEF t, read, x, whole, b
<1>7. m \in Seq(Fields)
  BY <1>6, FieldListType
<1>8. FieldList(whole) = Append(read, x) \o m
  <2> DEFINE items == Items[b]["field"]
             w == Append(read, x)
             o == items.ok
             v == w \o items.list
  <2>1. Items[whole]["field"] = [ok |-> o, list |-> v]
    BY <1>4 DEF Remaining, Prepend
  <2> HIDE DEF v, o
  <2>2. FieldList(whole) = v
    BY <2>1 DEF FieldList
  <2> QED BY <2>2 DEF v, FieldList
<1> HIDE DEF m
<1>9. t \in DOMAIN Schema
  BY DEF t
<1>10. DoomedMessage(t, whole, read)
  BY <1>3, <1>4, <1>5, <1>7, <1>8, <1>9, FaultyNext
<1> QED BY <1>10 DEF t, whole, read

LEMMA UnwindTracked ==
  ASSUME IInv, Unwind, Len(stack) # 1, NEW h, Tracked(h)
  PROVE  \E g : Tracked(g)'
<1> DEFINE n == Len(stack)
           c == Parent
           k == h[n - 1]
           d == Top
           l == h[n]
           all == FlattenSeq(fed)
           t == stack'
<1>1. stack # <<>> /\ err # "none" /\ err' = err /\ input' = input /\ fed' = fed
  BY DEF Unwind
<1>2. n \in Nat \ {0} /\ d = stack[n] /\ IsCursor(d, input)
  BY <1>1, TopFacts
<1>3. Tracks(stack, h, err, input, all)
  BY DEF Tracked
<1>4. IsTop(d, l, err, input)
  BY <1>2, <1>3 DEF Tracks
<1>5. \A x : LET u == [Front(stack) EXCEPT ![n - 1].obj = x]
             IN  /\ n \in Nat /\ n > 1
                 /\ Len(Front(stack)) = n - 1 /\ Front(stack)[n - 1] = Parent
                 /\ \A i \in 1 .. n - 2 : Front(stack)[i] = stack[i]
                 /\ Len(u) = n - 1 /\ u[n - 1] = Moved(Parent, Parent.ptr, x)
                 /\ \A i \in 1 .. n - 2 : u[i] = stack[i]
  BY <1>1, PoppedIs
<1>6. /\ IsCursor(c, input) /\ c.type \in DOMAIN Schema /\ c = stack[n - 1]
      /\ IsLink(c, k, d, l, err, input)
  <2>1. n > 1
    BY <1>5
  <2> QED BY <1>1, <2>1, CallerOfPacked
<1>7. \/ t = Front(stack)
      \/ t = [Front(stack) EXCEPT ![n - 1].obj = [c.obj EXCEPT !.val[d.field] = d.obj]]
  <2>1. CASE d.role # "message"
    BY <1>1, <2>1 DEF Unwind
  <2>2. CASE d.role = "message"
    <3> DEFINE s == Front(stack)
               m == n - 1
    <3>1. t = [s EXCEPT ![m].obj.val[d.field] = d.obj]
      BY <1>1, <2>2 DEF Unwind
    <3>2. s[m] = c
      BY <1>5
    <3> HIDE DEF s, m, t, d, c
    <3>3. t = [s EXCEPT ![m].obj = [s[m].obj EXCEPT !.val[d.field] = d.obj]]
      BY <3>1
    <3> QED BY <3>2, <3>3 DEF s, m
  <2> QED BY <2>1, <2>2
<1>8. Near(c.obj, Made(c, k), d.field) /\ d.field \in DOMAIN Made(c, k).val
  <2> HIDE DEF c, d, k, l
  <2>1. Near(c.obj, Made(c, k), d.field)
    BY <1>6 DEF IsLink
  <2>2. d.field \in DOMAIN Made(c, k).val
    BY <1>6, LinkFacts
  <2> QED BY <2>1, <2>2
<1>9. /\ n > 1 /\ Len(t) = n - 1 /\ \A i \in 1 .. n - 2 : t[i] = stack[i]
      /\ SameSlot(c, t[n - 1]) /\ t[n - 1].ptr = c.ptr /\ t[n - 1].end = c.end
      /\ Near(t[n - 1].obj, Made(c, k), d.field)
  <2>1. CASE t = Front(stack)
    <3>1. n > 1 /\ Len(t) = n - 1 /\ (\A i \in 1 .. n - 2 : t[i] = stack[i]) /\ t[n - 1] = c
      BY <1>5, <2>1
    <3> QED BY <1>8, <3>1 DEF SameSlot
  <2>2. CASE t = [Front(stack) EXCEPT ![n - 1].obj = [c.obj EXCEPT !.val[d.field] = d.obj]]
    <3> DEFINE x == [c.obj EXCEPT !.val[d.field] = d.obj]
    <3>1. Near(x, Made(c, k), d.field)
      <4> DEFINE o == c.obj
                 made == Made(c, k)
                 f == d.field
                 u == d.obj
      <4> HIDE DEF o, made, f, u
      <4>1. Near(o, made, f) /\ f \in DOMAIN made.val
        BY <1>8 DEF o, made, f
      <4>2. LET w == [o EXCEPT !.val[f] = u] IN Near(w, made, f) /\ w.val[f] = u
        BY <4>1, NearChanged
      <4> QED BY <4>2 DEF o, made, f, u
    <3> HIDE DEF x
    <3>2. t = [Front(stack) EXCEPT ![n - 1].obj = x]
      BY <2>2 DEF x
    <3> HIDE DEF t
    <3>3. n > 1 /\ Len(t) = n - 1 /\ (\A i \in 1 .. n - 2 : t[i] = stack[i]) /\ t[n - 1] = Moved(Parent, Parent.ptr, x)
      BY <1>5, <3>2
    <3>4. t[n - 1] = Moved(c, c.ptr, x)
      BY <3>3
    <3> HIDE DEF c
    <3>5. SameSlot(c, t[n - 1]) /\ t[n - 1].ptr = c.ptr /\ t[n - 1].end = c.end /\ t[n - 1].obj = x
      BY <1>6, <3>4, MovedMembers
    <3> QED BY <3>1, <3>3, <3>5
  <2> QED BY <1>7, <2>1, <2>2
<1> DEFINE c2 == t[n - 1]
<1> HIDE DEF c, d, k, l, t
<1>10. DoomedMessage(c.type, k.whole, k.read)
  <2>1. d.role \in Roles
    BY <1>2 DEF IsCursor
  <2>2. Doomed(d, l)
    BY <1>1, <1>4 DEF IsTop
  <2> QED BY <1>6, <2>1, <2>2, LinkFails
<1>11. Sound(c, k) /\ c.role # "packed"
  BY <1>6 DEF IsLink
<1>12. c2.role # "packed" /\ c2.type = c.type /\ c2.role = c.role
  BY <1>9, <1>11 DEF SameSlot
<1>13. SameSlot(c, c2) /\ Near(c2.obj, Made(c, k), d.field)
  BY <1>9
<1> HIDE DEF c2
<1>14. Made(c2, k) = Made(c, k) /\ Sound(c2, k) /\ Doomed(c2, k)
  <2>1. Made(c2, k) = Made(c, k) /\ What(c2) = What(c)
    BY <1>12 DEF Made, What
  <2>2. Sound(c2, k)
    BY <1>11, <1>12, <2>1 DEF Sound
  <2> QED BY <1>10, <1>12, <2>1, <2>2 DEF Doomed
<1>15. IsTop(c2, k, err, input)
  BY <1>1, <1>13, <1>14 DEF IsTop
<1>16. \E g : Tracks(t, g, err, input, all)
  <2> HIDE DEF all
  <2>1. Len(stack) \in Nat /\ Len(stack) > 1 /\ Tracks(stack, h, err, input, all)
    BY <1>3, <1>2, <1>9
  <2>2. Len(t) = Len(stack) - 1 /\ \A i \in 1 .. Len(stack) - 2 : t[i] = stack[i]
    BY <1>9
  <2>3. SameSlot(stack[Len(stack) - 1], t[Len(stack) - 1])
    BY <1>6, <1>9
  <2>4. k.whole = h[Len(stack) - 1].whole
    BY DEF k
  <2>5. IsTop(t[Len(stack) - 1], k, err, input)
    BY <1>15 DEF c2
  <2> HIDE DEF n
  <2> QED BY <2>1, <2>2, <2>3, <2>4, <2>5, PopStep, ZenonT(60)
<1> QED BY <1>1, <1>16 DEF Tracked, t

LEMMA UnwindSettles ==
  ASSUME IInv, Unwind, Len(stack) = 1, NEW h, Tracked(h)
  PROVE  Settled(err, object', FlattenSeq(fed), TRUE) /\ stack' = <<>> /\ err' = err /\ fed' = fed
<1> DEFINE d == Top
           l == h[1]
           all == FlattenSeq(fed)
<1>1. stack # <<>> /\ err # "none"
  BY DEF Unwind
<1>2. stack' = <<>> /\ object' = d.obj /\ err' = err /\ fed' = fed
  BY DEF Unwind
<1>3. d = stack[1]
  BY <1>1, TopFacts
<1>4. IsTop(d, l, err, input) /\ d.role = "root" /\ d.type = Root /\ l.whole = all
  BY <1>3 DEF Tracked, Tracks
<1> HIDE DEF d, l, all
<1>5. Sound(d, l) /\ Doomed(d, l) /\ \E f : Near(d.obj, Made(d, l), f)
  BY <1>1, <1>4 DEF IsTop
<1>6. l.read \in Seq(Fields) /\ DecodeFields(Root, l.read) = Ok(Made(d, l)) /\ DoomedMessage(Root, all, l.read)
  BY <1>4, <1>5, FieldOrNumber DEF Sound, Doomed, What
<1>7. Made(d, l) = DecodeFields(Root, l.read).val
  BY <1>4 DEF Made
<1>8. Settled(err, object', all, TRUE)
  BY <1>1, <1>2, <1>5, <1>6, <1>7 DEF Settled
<1> QED BY <1>2, <1>8 DEF all

-----------------------------------------------------------------------------
LEMMA FedBytes ==
  ASSUME NEW s \in Seq(Seq(Byte)), NEW b \in Seq(Byte)
  PROVE  /\ FlattenSeq(s) \in Seq(Byte)
         /\ FlattenSeq(Append(s, b)) = FlattenSeq(s) \o b
         /\ FlattenSeq(<<>>) = <<>>
BY FlattenAppend, FlattenType, FlattenEmpty

LEMMA LongerNotEmpty ==
  ASSUME NEW A, NEW s \in Seq(A), NEW x \in A
  PROVE  Append(s, x) # <<>>
<1>1. Len(Append(s, x)) = Len(s) + 1 /\ Len(s) \in Nat
  OBVIOUS
<1> QED BY <1>1

LEMMA SettledAnyway ==
  ASSUME NEW e, NEW obj, NEW all, Settled(e, obj, all, TRUE), NEW any
  PROVE  Settled(e, obj, all, any)
BY DEF Settled

(* A call adds its buffer to the bytes that the object is decoded from.    *)
LEMMA CallTracked ==
  ASSUME BuffersAreBytes, DInv, Call
  PROVE  fed' # <<>> /\ \E g : Tracked(g)'
<1> DEFINE all == FlattenSeq(fed)
<1>1. stack = <<>> /\ err = "none" /\ err' = "none" /\ fed \in Seq(Seq(Byte))
  BY DEF Call, DInv, IInv
<1>2. PICK buffer \in Inputs(fed) :
        /\ input' = buffer /\ fed' = Append(fed, buffer)
        /\ stack' = <<Activation(0, Len(buffer), Root, object, "root", 0)>>
  BY DEF Call
<1>3. buffer \in Seq(Byte)
  BY DEF BuffersAreBytes
<1>4. all \in Seq(Byte) /\ FlattenSeq(fed') = all \o buffer /\ fed' # <<>>
  <2>1. all \in Seq(Byte) /\ FlattenSeq(Append(fed, buffer)) = all \o buffer
    BY <1>1, <1>3, FedBytes
  <2>2. Append(fed, buffer) # <<>>
    BY <1>1, <1>3, LongerNotEmpty
  <2> QED BY <1>2, <2>1, <2>2
<1>5. Items[all]["field"].ok /\ DecodeFields(Root, FieldList(all)) = Ok(object)
  BY <1>1 DEF DInv, Settled
<1> HIDE DEF all
<1> DEFINE d == Activation(0, Len(buffer), Root, object, "root", 0)
           k == [whole |-> all \o buffer, read |-> FieldList(all), pend |-> 0]
           h == [i \in {1} |-> k]
           s == <<d>>
<1>6. d.ptr = 0 /\ d.end = Len(buffer) /\ d.type = Root /\ d.obj = object /\ d.role = "root"
  BY Members
<1>7. k.whole = all \o buffer /\ k.read = FieldList(all) /\ h[1] = k
  OBVIOUS
<1>8. Len(s) = 1 /\ s[1] = d
  OBVIOUS
<1>9. stack' = s
  BY <1>2
<1> HIDE DEF d, k, h, s
<1>10. Between(buffer, 0, Len(buffer)) = buffer
  BY <1>3 DEF Between
<1>11. Remaining("field", all \o buffer, FieldList(all), buffer)
  BY <1>3, <1>4, <1>5, FieldOrNumber, ItemsJoin DEF Remaining, FieldList
<1>12. all \o buffer \in Seq(Byte) /\ FieldList(all) \in Seq(Fields)
  BY <1>3, <1>4, Concatenated, FieldListType
<1>13. d.role # "packed" /\ What(d) = "field"
  BY <1>6 DEF What
<1>14. Made(d, k) = object
  <2>1. DecodeFields(d.type, k.read) = Ok(object)
    BY <1>5, <1>6, <1>7
  <2> QED BY <2>1, OkIs DEF Made
<1>15. Sound(d, k)
  BY <1>5, <1>6, <1>7, <1>12, <1>13, <1>14, FieldOrNumber DEF Sound
<1>16. IsTop(d, k, "none", buffer)
  BY <1>6, <1>7, <1>10, <1>11, <1>13, <1>14, <1>15 DEF IsTop
<1>17. Tracks(s, h, "none", buffer, all \o buffer)
  <2>1. 1 .. Len(s) - 1 = {}
    BY <1>8
  <2> QED BY <1>6, <1>7, <1>8, <1>16, <2>1 DEF Tracks
<1>18. Tracks(stack', h, err', input', FlattenSeq(fed'))
  BY <1>1, <1>2, <1>4, <1>9, <1>17
<1> QED BY <1>4, <1>18 DEF Tracked

LEMMA WorkTracked ==
  ASSUME IInv, Work, ~(Return \/ Unwind) \/ Len(stack) # 1, NEW h, Tracked(h)
  PROVE  \E g : Tracked(g)'
<1>1. CASE BadTag
  BY <1>1, BadTagTracked
<1>2. CASE AtField /\ TagOk /\ Known /\ GetField
  BY <1>2, GetFieldTracked
<1>3. CASE AtField /\ TagOk /\ ~Known /\ Skip
  BY <1>3, SkipTracked
<1>4. CASE PackedElement
  BY <1>4, PackedTracked
<1>5. CASE MissingRequired
  BY <1>5, MissingTracked
<1>6. CASE Return /\ Len(stack) # 1
  BY <1>6, ReturnTracked
<1>7. CASE Unwind /\ Len(stack) # 1
  BY <1>7, UnwindTracked
<1> QED BY <1>1, <1>2, <1>3, <1>4, <1>5, <1>6, <1>7 DEF Work

LEMMA WorkKeepsFed ==
  ASSUME Work
  PROVE  fed' = fed
BY DEF Work, BadTag, Complete, GetField, GetScalar, GetByteArray, GetRepeatedUnpacked, GetRepeatedByteArray,
       GetPacked, GetMessage, GetRepeatedMessage, GetMapEntry, OpenSlice, Skip, PackedElement,
       MissingRequired, Return, Unwind

-----------------------------------------------------------------------------
LEMMA NotEmpty ==
  ASSUME NEW t, DOMAIN t # {}
  PROVE  t # <<>>
<1>1. DOMAIN <<>> = {}
  OBVIOUS
<1> QED BY <1>1

LEMMA WorkGoesOn ==
  ASSUME IInv, Work, stack # <<>>, ~(Return \/ Unwind) \/ Len(stack) # 1
  PROVE  stack' # <<>>
<1> DEFINE n == Len(stack)
<1>1. DOMAIN stack # {} /\ n \in Nat \ {0} /\ Nested(stack, input)
  <2>1. n \in DOMAIN stack /\ n \in Nat \ {0}
    BY TopFacts
  <2> QED BY <2>1 DEF IInv
<1>2. ASSUME NEW r, NEW obj, Complete(r, obj) PROVE stack' # <<>>
  <2>1. DOMAIN stack' = DOMAIN stack
    BY <1>2 DEF Complete
  <2> QED BY <1>1, <2>1, NotEmpty
<1>3. ASSUME NEW type, NEW obj, NEW role, OpenSlice(type, obj, role) PROVE stack' # <<>>
  <2> DEFINE P == ParseByteArray(WireType, input, TagRead.ptr, Top.end)
             s == [stack EXCEPT ![Len(stack)].ptr = P.ptr]
             sub == Activation(P.ptr - P.val, P.ptr, type, obj, role, FieldNum)
  <2>1. stack' = IF P.err = "none" THEN Append(s, sub) ELSE s
    BY <1>3 DEF OpenSlice
  <2>2. s = TopMoved(stack, P.ptr, Last(stack).obj)
    <3> HIDE DEF P
    <3> QED BY <1>1, TopMovedIs
  <2>3. DOMAIN s = 1 .. Len(stack) /\ s # <<>>
    <3>1. DOMAIN s = DOMAIN stack
      OBVIOUS
    <3> HIDE DEF s
    <3> QED BY <1>1, <3>1, NotEmpty, TopFacts
  <2> HIDE DEF s, sub, P
  <2>4. Append(s, sub) # <<>>
    <3>1. s = [i \in 1 .. Len(stack) |-> s[i]]
      BY <2>2, <2>3 DEF TopMoved
    <3>2. s \in Seq({s[i] : i \in 1 .. Len(stack)} \cup {sub})
      BY <1>1, <3>1
    <3> QED BY <3>2, LongerNotEmpty
  <2> QED BY <2>1, <2>3, <2>4
<1>4. CASE BadTag
  BY <1>2, <1>4 DEF BadTag
<1>5. CASE GetField
  <2>1. CASE GetScalar
    BY <1>2, <2>1 DEF GetScalar
  <2>2. CASE GetByteArray
    BY <1>2, <2>2 DEF GetByteArray
  <2>3. CASE GetRepeatedUnpacked
    BY <1>2, <2>3 DEF GetRepeatedUnpacked
  <2>4. CASE GetRepeatedByteArray
    BY <1>2, <2>4 DEF GetRepeatedByteArray
  <2>5. CASE GetPacked
    BY <1>3, <2>5 DEF GetPacked
  <2>6. CASE GetMessage
    BY <1>3, <2>6 DEF GetMessage
  <2>7. CASE GetRepeatedMessage
    BY <1>3, <2>7 DEF GetRepeatedMessage
  <2>8. CASE GetMapEntry
    BY <1>3, <2>8 DEF GetMapEntry
  <2> QED BY <1>5, <2>1, <2>2, <2>3, <2>4, <2>5, <2>6, <2>7, <2>8 DEF GetField
<1>6. CASE Skip
  BY <1>2, <1>6 DEF Skip
<1>7. CASE PackedElement
  <2>1. DOMAIN stack' = DOMAIN stack
    BY <1>7 DEF PackedElement
  <2> QED BY <1>1, <2>1, NotEmpty
<1>8. CASE MissingRequired
  BY <1>8 DEF MissingRequired
<1>9. CASE (Return \/ Unwind) /\ n # 1
  <2>1. DOMAIN Front(stack) = 1 .. n - 1
    BY <1>1, PopKeepsNested
  <2> HIDE DEF n
  <2>2. 1 \in 1 .. n - 1
    BY <1>1, <1>9
  <2> USE DEF n
  <2>3. DOMAIN stack' = DOMAIN Front(stack)
    <3>1. CASE Return
      BY <1>9, <3>1 DEF Return
    <3>2. CASE Unwind
      BY <1>9, <3>2 DEF Unwind
    <3> QED BY <1>9, <3>1, <3>2
  <2> QED BY <2>1, <2>2, <2>3, NotEmpty
<1> QED BY <1>4, <1>5, <1>6, <1>7, <1>8, <1>9 DEF Work

LEMMA InitTracked == Init => DInv
<1> SUFFICES ASSUME Init PROVE DInv
  OBVIOUS
<1>1. IInv
  BY InitIInv
<1>2. stack = <<>> /\ err = "none" /\ object = Blank[Root] /\ fed = <<>>
  BY DEF Init
<1>3. Items[<<>>]["field"] = [ok |-> TRUE, list |-> <<>>]
  BY ItemsEmpty
<1>4. DecodeFields(Root, <<>>) = Ok(Blank[Root])
  BY RootAssumption, ObjectEmpty
<1>5. FlattenSeq(fed) = <<>>
  BY <1>2, FlattenEmpty
<1>6. Items[<<>>]["field"].ok /\ FieldList(<<>>) = <<>>
  BY <1>3 DEF FieldList
<1>7. Settled(err, object, FlattenSeq(fed), fed # <<>>)
  <2>1. Settled("none", Blank[Root], <<>>, FALSE)
    BY <1>4, <1>6 DEF Settled
  <2> QED BY <1>2, <1>5, <2>1
<1> QED BY <1>1, <1>2, <1>7 DEF DInv

LEMMA StepTracked ==
  ASSUME BuffersAreBytes
  PROVE  DInv /\ [Next]_vars => DInv'
<1> SUFFICES ASSUME DInv, [Next]_vars PROVE DInv'
  OBVIOUS
<1>1. IInv /\ IInv'
  BY StepIInv DEF DInv
<1>2. CASE Call
  <2>1. fed' # <<>> /\ \E g : Tracked(g)'
    BY <1>2, CallTracked
  <2>2. stack' # <<>>
    <3>1. PICK buffer \in Inputs(fed) : stack' = <<Activation(0, Len(buffer), Root, object, "root", 0)>>
      BY <1>2 DEF Call
    <3> QED BY <3>1
  <2> QED BY <1>1, <2>1, <2>2 DEF DInv, Tracked
<1>3. CASE Work
  <2>1. stack # <<>>
    BY <1>3 DEF Work, BadTag, AtField, Running, PackedElement, MissingRequired, AtEnd, Return, Unwind
  <2>2. PICK h : Tracked(h)
    BY <2>1 DEF DInv, Tracked
  <2>3. fed # <<>> /\ fed' = fed
    BY <1>3, <2>1, WorkKeepsFed DEF DInv
  <2>4. CASE ~(Return \/ Unwind) \/ Len(stack) # 1
    <3>1. stack' # <<>>
      BY <1>1, <1>3, <2>1, <2>4, WorkGoesOn
    <3>2. \E g : Tracked(g)'
      BY <1>1, <1>3, <2>1, <2>2, <2>4, WorkTracked
    <3> QED BY <1>1, <2>3, <3>1, <3>2 DEF DInv, Tracked
  <2>5. CASE (Return \/ Unwind) /\ Len(stack) = 1
    <3>1. Settled(err, object', FlattenSeq(fed), TRUE) /\ stack' = <<>> /\ err' = err
      BY <1>1, <2>2, <2>5, ReturnSettles, UnwindSettles
    <3>2. (fed # <<>>) = TRUE
      BY <2>3
    <3>3. Settled(err', object', FlattenSeq(fed'), fed' # <<>>)
      BY <2>3, <3>1, <3>2
    <3> QED BY <1>1, <3>1, <3>3 DEF DInv
  <2> QED BY <2>4, <2>5
<1>4. CASE UNCHANGED vars
  BY <1>4, <1>1 DEF vars, DInv
<1> QED BY <1>2, <1>3, <1>4 DEF Next

-----------------------------------------------------------------------------
(* Decoding is tracked by histories at every step.                         *)
THEOREM ResultsTracked ==
  ASSUME BuffersAreBytes
  PROVE  Spec => []DInv
<1>1. DInv /\ [Next]_vars => DInv'
  BY StepTracked
<1> QED BY InitTracked, <1>1, PTL DEF Spec

LEMMA FedIsBytes ==
  ASSUME DInv
  PROVE  Fed \in Seq(Byte)
BY FedBytes DEF DInv, IInv, Fed

(* What is settled is what the rules say of all bytes.                     *)
LEMMA SettledAgrees ==
  ASSUME DInv
  PROVE  DecodesAsSpecified
<1> SUFFICES ASSUME AtRest
             PROVE  Agrees(Decode[Fed][Root])
  BY DEF DecodesAsSpecified
<1> DEFINE r == Decode[Fed][Root]
<1>1. Fed \in Seq(Byte) /\ Root \in DOMAIN Schema
  BY FedIsBytes, RootAssumption
<1>2. Settled(err, object, Fed, TRUE)
  <2>1. (fed # <<>>) = TRUE /\ stack = <<>>
    BY DEF AtRest
  <2>2. Settled(err, object, FlattenSeq(fed), fed # <<>>)
    BY <2>1 DEF DInv
  <2> QED BY <2>1, <2>2 DEF Fed
<1>3. CASE err = "none"
  <2>1. Items[Fed]["field"].ok /\ DecodeFields(Root, FieldList(Fed)) = Ok(object) /\ Required(Root) \subseteq object.has
    BY <1>2, <1>3 DEF Settled
  <2>2. r = Ok(object)
    BY <1>1, <2>1, DecodeMade
  <2> HIDE DEF r
  <2>3. r.ok = TRUE /\ r.val = object
    BY <2>2, OkIs
  <2> QED BY <1>3, <2>3 DEF Agrees, r
<1>4. CASE err # "none"
  <2>1. ~r.ok
    BY <1>2, <1>4 DEF Settled, DoomedMessage
  <2>2. Result(r)
    BY <1>1, DecodeResult
  <2> HIDE DEF r
  <2>3. r.ok = FALSE
    BY <2>1, <2>2, ResultIs
  <2> QED BY <1>4, <2>3 DEF Agrees, r
<1> QED BY <1>3, <1>4

LEMMA SplitAnywhere ==
  ASSUME NEW A, NEW s \in Seq(A), NEW k \in 0 .. Len(s)
  PROVE  /\ s = SubSeq(s, 1, k) \o SubSeq(s, k + 1, Len(s))
         /\ SubSeq(s, 1, k) \in Seq(A) /\ SubSeq(s, k + 1, Len(s)) \in Seq(A)
<1> DEFINE x == SubSeq(s, 1, k)
           y == SubSeq(s, k + 1, Len(s))
           d == x \o y
<1>1. k \in Nat /\ Len(s) \in Nat /\ k <= Len(s) /\ Len(s) - k \in Nat
  OBVIOUS
<1>2. x \in Seq(A) /\ Len(x) = k /\ \A i \in 1 .. k : x[i] = s[i]
  OBVIOUS
<1>3. y \in Seq(A) /\ Len(y) = Len(s) - k /\ \A i \in 1 .. Len(s) - k : y[i] = s[k + i]
  BY <1>1
<1> HIDE DEF x, y
<1>4. d \in Seq(A) /\ Len(d) = k + (Len(s) - k)
      /\ (\A i \in 1 .. k : d[i] = x[i]) /\ \A i \in 1 .. Len(s) - k : d[k + i] = y[i]
  BY <1>2, <1>3, JoinedTexts
<1> HIDE DEF d
<1>5. Len(d) = Len(s)
  BY <1>1, <1>4
<1>6. ASSUME NEW i \in 1 .. Len(s)
      PROVE  d[i] = s[i]
  <2>1. CASE i <= k
    BY <1>1, <1>2, <1>4, <2>1
  <2>2. CASE i > k
    <3>1. i - k \in 1 .. Len(s) - k /\ k + (i - k) = i
      BY <1>1, <2>2
    <3> QED BY <1>3, <1>4, <3>1
  <2> QED BY <1>1, <2>1, <2>2
<1>7. d = s
  BY <1>4, <1>5, <1>6
<1> QED BY <1>2, <1>3, <1>7 DEF d, x, y

(* The fields that were read are those before the fault.                   *)
LEMMA StuckAtTheFault ==
  ASSUME NEW whole \in Seq(Byte), NEW read \in Seq(Fields), Stuck(Root, whole, read),
         DecodeFields(Root, read).ok
  PROVE  SoundPrefix(FieldList(whole)) = read
<1> DEFINE list == FieldList(whole)
           M == {n \in 0 .. Len(list) : DecodeFields(Root, SubSeq(list, 1, n)).ok}
           r == Len(read)
<1>1. list \in Seq(Fields) /\ Root \in DOMAIN Schema /\ r \in Nat
  BY FieldListType, RootAssumption
<1>2. SubSeq(read, 1, r) = read
  OBVIOUS
<1>3. ASSUME r \in M, M \subseteq 0 .. r, SubSeq(list, 1, r) = read
      PROVE  SoundPrefix(list) = read
  <2>1. SoundPrefix(list) = SubSeq(list, 1, Max(M))
    BY DEF SoundPrefix
  <2> HIDE DEF M, list
  <2>2. Max(M) = r
    BY <1>1, <1>3, LastIsGreatest
  <2> QED BY <1>3, <2>1, <2>2
<1>4. CASE list = read
  <2> HIDE DEF list
  <2>1. M \subseteq 0 .. r
    BY <1>4
  <2>2. SubSeq(list, 1, r) = read
    BY <1>2, <1>4
  <2>3. r \in 0 .. Len(list)
    BY <1>1, <1>4
  <2>4. r \in M
    BY <2>2, <2>3
  <2> QED BY <1>3, <2>1, <2>2, <2>4 DEF list
<1>5. CASE list # read
  <2>1. PICK x \in Fields, m \in Seq(Fields) :
          list = Append(read, x) \o m /\ ~DecodeFields(Root, Append(read, x)).ok
    BY <1>5 DEF Stuck
  <2> DEFINE a == Append(read, x)
  <2>2. a \in Seq(Fields) /\ Len(a) = r + 1 /\ a = read \o <<x>>
    BY AppendIs
  <2>3. list = a \o m /\ ~DecodeFields(Root, a).ok
    BY <2>1
  <2> HIDE DEF a, list
  <2>4. r \in 0 .. Len(a) /\ Len(list) = Len(a) + Len(m)
    BY <1>1, <2>2, <2>3
  <2>5. SubSeq(list, 1, r) = SubSeq(a, 1, r)
    BY <2>2, <2>3, <2>4, PartsJoin
  <2>6. SubSeq(a, 1, r) = read
    <3>1. <<x>> \in Seq(Fields) /\ r \in 0 .. Len(read)
      BY <1>1
    <3>2. SubSeq(read \o <<x>>, 1, r) = SubSeq(read, 1, r)
      BY <3>1, PartsJoin
    <3> QED BY <1>2, <2>2, <3>2
  <2>7. r \in M
    <3>1. Len(list) \in Nat /\ Len(m) \in Nat /\ r \in 0 .. Len(list)
      BY <1>1, <2>2, <2>4
    <3>2. SubSeq(list, 1, r) = read
      BY <2>5, <2>6
    <3> QED BY <3>1, <3>2
  <2>8. ASSUME NEW n \in M
        PROVE  n \in 0 .. r
    <3>1. n \in 0 .. Len(list) /\ DecodeFields(Root, SubSeq(list, 1, n)).ok
      OBVIOUS
    <3> HIDE DEF M
    <3>2. CASE n > r
      <4>1. n \in Nat /\ n >= Len(a) /\ n <= Len(list) /\ Len(a) \in 0 .. n
        BY <1>1, <2>2, <2>4, <3>1, <3>2
      <4> DEFINE p == SubSeq(list, 1, n)
                 q == SubSeq(p, Len(a) + 1, n)
      <4>2. p \in Seq(Fields) /\ Len(p) = n
        <5> HIDE DEF list
        <5> QED BY <1>1, <3>1
      <4>3. p = SubSeq(p, 1, Len(a)) \o q /\ q \in Seq(Fields)
        <5> HIDE DEF p
        <5> QED BY <4>1, <4>2, SplitAnywhere
      <4>4. SubSeq(p, 1, Len(a)) = a
        <5>1. SubSeq(list, 1, Len(a)) = a
          BY <2>2, <2>3, PartsJoin
        <5>2. SubSeq(p, 1, Len(a)) = SubSeq(list, 1, Len(a))
          BY <1>1, <4>1, <4>2
        <5> QED BY <5>1, <5>2
      <4> HIDE DEF p, q
      <4>5. DecodeFields(Root, a \o q).ok
        BY <3>1, <4>3, <4>4 DEF p
      <4>6. DecodeFields(Root, a).ok
        BY <1>1, <2>2, <4>3, <4>5, ObjectShortens
      <4> QED BY <2>3, <4>6
    <3>3. CASE n <= r
      BY <1>1, <2>4, <3>1, <3>3
    <3> QED BY <1>1, <3>1, <3>2, <3>3
  <2> QED BY <1>3, <2>5, <2>6, <2>7, <2>8 DEF list
<1> QED BY <1>4, <1>5

LEMMA SettledLocally ==
  ASSUME DInv
  PROVE  FailureIsLocal
<1> SUFFICES ASSUME AtRest, err # "none"
             PROVE  DiffersInOneField(DecodeFields(Root, SoundPrefix(FieldsOf(Fed))).val)
  BY DEF FailureIsLocal
<1>1. Fed \in Seq(Byte)
  BY FedIsBytes
<1>2. Settled(err, object, Fed, fed # <<>>)
  BY DEF DInv, AtRest, Fed
<1>a. PICK read \in Seq(Fields) : \E f :
         /\ DecodeFields(Root, read) = Ok(DecodeFields(Root, read).val)
         /\ DoomedMessage(Root, Fed, read)
         /\ Near(object, DecodeFields(Root, read).val, f)
  BY <1>2 DEF Settled
<1>3. PICK f :
         /\ DecodeFields(Root, read) = Ok(DecodeFields(Root, read).val)
         /\ DoomedMessage(Root, Fed, read)
         /\ Near(object, DecodeFields(Root, read).val, f)
  BY <1>a
<1> DEFINE obj == DecodeFields(Root, read)
           made == obj.val
<1>4. obj.ok = TRUE
  <2>1. obj = Ok(made)
    BY <1>3
  <2> HIDE DEF obj
  <2> QED BY <2>1, OkIs
<1>5. SoundPrefix(FieldList(Fed)) = read
  BY <1>1, <1>3, <1>4, StuckAtTheFault DEF DoomedMessage
<1>6. SoundPrefix(FieldsOf(Fed)) = read
  BY <1>5 DEF FieldsOf, FieldList
<1>7. Near(object, made, f)
  BY <1>3
<1> HIDE DEF made, obj
<1> DEFINE x == object
           v == object.val
<1> HIDE DEF x, v
<1>8. /\ x.has = made.has
      /\ DOMAIN v = DOMAIN made.val
      /\ \A g \in DOMAIN made.val : g # f => v[g] = made.val[g]
  <2>1. /\ x = [has |-> made.has, val |-> v]
        /\ v = [g \in DOMAIN made.val |-> v[g]]
        /\ \A g \in DOMAIN made.val : g # f => v[g] = made.val[g]
    BY <1>7 DEF Near, x, v
  <2>2. x.has = made.has
    BY <2>1
  <2>3. DOMAIN v = DOMAIN made.val
    BY <2>1
  <2> QED BY <2>1, <2>2, <2>3
<1>9. DiffersInOneField(made)
  BY <1>8 DEF DiffersInOneField, x, v
<1> QED BY <1>6, <1>9 DEF made, obj

(* decode() accepts what the ProtoBuf rules accept, and makes of it what   *)
(* they do: for every schema, every nesting of messages, every width and   *)
(* every sequence of buffers that are decoded into one object.             *)
THEOREM DecodesBySpecification ==
  ASSUME BuffersAreBytes
  PROVE  Spec => []DecodesAsSpecified
<1>1. DInv => DecodesAsSpecified
  BY SettledAgrees
<1> QED BY <1>1, ResultsTracked, PTL

(* An exception leaves an object that holds every field before the fault,  *)
(* with its flag, and differs from that in the field at fault at most,     *)
(* however deep in it the fault is.                                        *)
THEOREM FailuresAreLocal ==
  ASSUME BuffersAreBytes
  PROVE  Spec => []FailureIsLocal
<1>1. DInv => FailureIsLocal
  BY SettledLocally
<1> QED BY <1>1, ResultsTracked, PTL
=============================================================================
