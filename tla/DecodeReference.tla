-------------------------- MODULE DecodeReference --------------------------
(***************************************************************************)
(* What the ProtoBuf rules make of a buffer, field by field and without a  *)
(* cursor: the last occurrence of a scalar counts, repeated fields gather  *)
(* all occurrences, map entries replace earlier ones of their key, and a   *)
(* sub-message is the decoding of all its occurrences joined together.     *)
(* It is the specification that runs of Decoder are compared with.         *)
(***************************************************************************)
EXTENDS MessageTypes

Ok(v) == [ok |-> TRUE, val |-> v]
Bad == [ok |-> FALSE, val |-> 0]

(* The length of the varint at the head of a string; 0 if there is none.   *)
VarintLength(bytes) ==
    LET ends == {n \in 1 .. Len(bytes) : n <= MAX_VARINT_SIZE /\ bytes[n] < Base}
    IN  IF ends = {} THEN 0 ELSE Min(ends)

HeadVarint(bytes) == ValueOf(bytes, 0, VarintLength(bytes))
AfterVarint(bytes) == SubSeq(bytes, VarintLength(bytes) + 1, Len(bytes))

(* What a value of the wire type takes, as far as its head tells.          *)
Extent(wire_type, bytes) ==
    CASE wire_type = Fixed32 -> SIZE32
      [] wire_type = Fixed64 -> SIZE64
      [] wire_type = Varint -> VarintLength(bytes)
      [] wire_type = Delimited /\ VarintLength(bytes) > 0 /\ HeadVarint(bytes) <= INT32_MAX ->
           VarintLength(bytes) + HeadVarint(bytes)
      [] OTHER -> 0

(* The length of the value at the head of a string; 0 if there is none.    *)
ValueLength(wire_type, bytes) ==
    IF Extent(wire_type, bytes) <= Len(bytes) THEN Extent(wire_type, bytes) ELSE 0

FieldLength(bytes) ==
    LET value == ValueLength(HeadVarint(bytes) % FIELDNUM_SCALE, AfterVarint(bytes))
    IN  IF VarintLength(bytes) = 0 \/ HeadVarint(bytes) >= U32 \/ value = 0 THEN 0
        ELSE VarintLength(bytes) + value

FieldIn(bytes) ==
    [ num  |-> HeadVarint(bytes) \div FIELDNUM_SCALE,
      wire |-> HeadVarint(bytes) % FIELDNUM_SCALE,
      body |-> AfterVarint(bytes) ]

ElementIn(type, bytes) == ReadElement(type, bytes, 0, Len(bytes)).val

(* A buffer is made of fields, or of the elements of a packed field.       *)
HeadLength(what, bytes) ==
    IF what = "field" THEN FieldLength(bytes) ELSE ValueLength(WireTypeFor(what), bytes)

Item(what, bytes) == IF what = "field" THEN FieldIn(bytes) ELSE ElementIn(what, bytes)

Before(item, items) == [ok |-> items.ok, list |-> <<item>> \o items.list]

(* The items of a buffer up to its end, or to the first that is malformed. *)
Items[bytes \in Seq(Byte)] ==
    [what \in {"field"} \cup NumericTypes |->
        LET n == HeadLength(what, bytes)
        IN  IF n = 0 THEN [ok |-> bytes = <<>>, list |-> <<>>]
            ELSE Before(Item(what, SubSeq(bytes, 1, n)), Items[SubSeq(bytes, n + 1, Len(bytes))][what])]

PayloadOf(field) == AfterVarint(field.body)

-----------------------------------------------------------------------------
(* What the occurrences of a field contribute.                             *)

Number(type, field) ==
    LET r == ParseScalar(type, field.wire, field.body, 0, Len(field.body))
    IN  IF r.err = "none" THEN Ok(r.val) ELSE Bad

Numbers(type, field) ==
    LET elements == Items[PayloadOf(field)][type]
    IN  IF field.wire = Delimited THEN IF elements.ok THEN Ok(elements.list) ELSE Bad
        ELSE IF Number(type, field).ok THEN Ok(<<Number(type, field).val>>) ELSE Bad

Occurrences(list, f) == FlattenSeq([i \in DOMAIN list |-> IF list[i].num = f THEN <<list[i]>> ELSE <<>>])

PayloadsUpTo(list, n) == FlattenSeq([i \in 1 .. n |-> PayloadOf(list[i])])

(* The bytes that occurrence i of a sub-message or a map is decoded from.  *)
Source(kind, list, i) == IF kind = "message" THEN PayloadsUpTo(list, i) ELSE PayloadOf(list[i])

Occurrence(decode, F, list, i) ==
    CASE F.kind = "scalar"   -> Number(F.type, list[i])
      [] F.kind = "repeated" -> Numbers(F.type, list[i])
      [] F.kind \notin {"scalar", "repeated"} /\ list[i].wire # Delimited -> Bad
      [] F.kind \in {"bytearray", "repeated_bytearray"} /\ list[i].wire = Delimited ->
           Ok(PayloadOf(list[i]))
      [] F.kind \in {"message", "repeated_message", "map"} /\ list[i].wire = Delimited ->
           decode[Source(F.kind, list, i)][F.type]

(* The map of the entries that have both a key and a value.                *)
Latest(entries) ==
    LET whole == {i \in DOMAIN entries : {1, 2} \subseteq entries[i].has}
    IN  [k \in {entries[i].val[1] : i \in whole} |->
           entries[Max({i \in whole : entries[i].val[1] = k})].val[2]]

Gathered(kind, default, vals) ==
    CASE kind = "repeated" -> FlattenSeq(vals)
      [] kind \in {"repeated_bytearray", "repeated_message"} -> vals
      [] kind = "map" -> Latest(vals)
      [] kind \in {"scalar", "bytearray", "message"} -> IF vals = <<>> THEN default ELSE Last(vals)

(* No value if an occurrence is at fault.                                 *)
Collected(kind, default, result) ==
    IF \A i \in DOMAIN result : result[i].ok
    THEN Ok(Gathered(kind, default, [i \in DOMAIN result |-> result[i].val])) ELSE Bad

(* The value of a field from its occurrences, in the order of the buffer.  *)
FieldValue(decode, F, default, list) ==
    Collected(F.kind, default, [i \in DOMAIN list |-> Occurrence(decode, F, list, i)])

Flagged(t) == {f \in DOMAIN Schema[t] : Schema[t][f].kind \in {"scalar", "bytearray", "message"}}

(* No object if a field is at fault.                                       *)
Assembled(t, list, value) ==
    IF \A f \in DOMAIN Schema[t] : value[f].ok
    THEN Ok([ has |-> {f \in Flagged(t) : Occurrences(list, f) # <<>>},
              val |-> [f \in DOMAIN Schema[t] |-> value[f].val] ])
    ELSE Bad

(* The object that the fields of a message make.                           *)
ObjectOf(decode, t, list) ==
    Assembled(t, list, [f \in DOMAIN Schema[t] |->
        FieldValue(decode, Schema[t][f], Blank[t].val[f], Occurrences(list, f))])

(* A message is sound if every field is and no required one is missing.    *)
Accepted(t, fields, obj) ==
    IF fields.ok /\ obj.ok /\ Required(t) \subseteq obj.val.has THEN obj ELSE Bad

(* What each message type makes of a string.                               *)
Decode[bytes \in Seq(Byte)] ==
    [t \in DOMAIN Schema |->
        LET fields == Items[bytes]["field"]
        IN  Accepted(t, fields, ObjectOf(Decode, t, fields.list))]

(* The fields of a buffer as far as it can be read, and what they make.    *)
FieldsOf(bytes) == Items[bytes]["field"].list
DecodeFields(t, list) == ObjectOf(Decode, t, list)
=============================================================================
