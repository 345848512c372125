---------------------------- MODULE VersionRules ----------------------------
(***************************************************************************)
(* What becomes of a message when one version writes it and another reads  *)
(* it, without bytes.  The content of a message is a function from field   *)
(* numbers to the items written under them, in order; a reader takes of    *)
(* them what its own fields can hold, and writes that.                     *)
(*                                                                         *)
(* An item is a record of one field: an int, bytes, or the content of a    *)
(* message.  A field of type bytes may hold a message: the item stays what *)
(* it is.  It is the specification that runs of Codec are compared with.   *)
(***************************************************************************)
EXTENDS Integers, SequencesExt

CONSTANT Fields     \* type -> field number -> [kind, type, required]

Singular == {"scalar", "bytearray", "message"}
OfMessages == {"message", "repeated_message", "map"}
OfByteArrays == {"bytearray", "repeated_bytearray"}

RECURSIVE Content(_, _), AsRead(_, _), Whole(_, _), Agrees(_, _)

-----------------------------------------------------------------------------
(* The content of an object.                                               *)
ItemOf(F, x) ==
    CASE F.kind \in OfMessages   -> [message |-> Content(F.type, x)]
      [] F.kind \in OfByteArrays -> [bytes |-> x]
      [] OTHER                   -> [int |-> x]

EntryOf(F, key, x) ==
    [message |-> [i \in 1..2 |-> <<ItemOf(Fields[F.type][i], <<key, x>>[i])>>]]

ItemsOf(F, x) ==
    CASE F.kind \in Singular -> <<ItemOf(F, x)>>
      [] F.kind = "map"      -> LET keys == SetToSortSeq(DOMAIN x, <)
                                IN  [i \in DOMAIN keys |-> EntryOf(F, keys[i], x[keys[i]])]
      [] OTHER               -> [i \in DOMAIN x |-> ItemOf(F, x[i])]

Content(type, obj) == [n \in DOMAIN Fields[type] |-> ItemsOf(Fields[type][n], obj.val[n])]

-----------------------------------------------------------------------------
(* What a version of the given type has when it has read the content.      *)
(* The only string of its own that a field of type bytes holds in place of *)
(* a message is the empty one, which is a message without fields.          *)
MessageOf(item) == IF "bytes" \in DOMAIN item THEN <<>> ELSE item.message

ItemsUnder(content, n) == IF n \in DOMAIN content THEN content[n] ELSE <<>>

Default(F) ==
    CASE F.kind = "scalar"    -> [int |-> 0]
      [] F.kind = "bytearray" -> [bytes |-> <<>>]

(* The first k occurrences of a message count as one.                      *)
Joined(items, k) ==
    [n \in UNION {DOMAIN MessageOf(items[i]) : i \in 1..k} |->
        FlattenSeq([i \in 1..k |-> ItemsUnder(MessageOf(items[i]), n)])]

KeyOf(entry) == Last(MessageOf(entry)[1]).int
IsEntry(item) == {n \in {1, 2} : ItemsUnder(MessageOf(item), n) # <<>>} = {1, 2}

(* The last entry of each key, by key.                                     *)
Latest(items) ==
    LET entries == SelectSeq(items, IsEntry)
        keys == SetToSortSeq({KeyOf(entries[i]) : i \in DOMAIN entries}, <)
    IN  [k \in DOMAIN keys |-> entries[SelectLastInSeq(entries, LAMBDA entry : KeyOf(entry) = keys[k])]]

ReadItems(F, items) ==
    CASE F.kind = "message" ->
           <<[message |-> AsRead(F.type, Joined(items, Len(items)))]>>
      [] F.kind \in Singular ->
           <<IF items = <<>> THEN Default(F) ELSE Last(items)>>
      [] F.kind = "repeated_message" ->
           [i \in DOMAIN items |-> [message |-> AsRead(F.type, MessageOf(items[i]))]]
      [] F.kind = "map" ->
           [i \in DOMAIN Latest(items) |-> [message |-> AsRead(F.type, MessageOf(Latest(items)[i]))]]
      [] OTHER -> items

AsRead(type, content) ==
    [n \in DOMAIN Fields[type] |-> ReadItems(Fields[type][n], ItemsUnder(content, n))]

(* No required field is missing, at any level that the version looks into. *)
WholeItems(F, items) ==
    CASE F.kind = "message" -> \A k \in DOMAIN items : Whole(F.type, Joined(items, k))
      [] F.kind = "repeated_message" -> \A k \in DOMAIN items : Whole(F.type, MessageOf(items[k]))
      [] OTHER -> TRUE

Whole(type, content) ==
    \A n \in DOMAIN Fields[type] :
        LET items == ItemsUnder(content, n)
        IN  /\ Fields[type][n].required => items # <<>>
            /\ WholeItems(Fields[type][n], items)

-----------------------------------------------------------------------------
(* Does the content of an object agree with what it is meant to be; it may *)
(* hold as bytes what is meant as a message.                               *)
Carries(item, meant) ==
    CASE "message" \in DOMAIN item /\ "message" \in DOMAIN meant -> Agrees(item.message, meant.message)
      [] "bytes" \in DOMAIN item /\ "message" \in DOMAIN meant -> TRUE
      [] OTHER -> item = meant

Agrees(content, meant) ==
    /\ DOMAIN content = DOMAIN meant
    /\ \A n \in DOMAIN content :
         /\ Len(content[n]) = Len(meant[n])
         /\ \A i \in DOMAIN content[n] : Carries(content[n][i], meant[n][i])
=============================================================================
