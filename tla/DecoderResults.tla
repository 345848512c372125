--------------------------- MODULE DecoderResults ---------------------------
(***************************************************************************)
(* What decode() promises: the object that the rules of DecodeReference    *)
(* make of all bytes that were fed into it, or an exception that leaves    *)
(* all but one field of the object alone.                                  *)
(***************************************************************************)
EXTENDS Decoder, DecodeReference

AtRest == stack = <<>> /\ fed # <<>>
Fed == FlattenSeq(fed)

Agrees(r) ==
    /\ r.ok <=> err = "none"
    /\ r.ok => object = r.val

(* A message decodes to what the ProtoBuf rules say of all that was fed    *)
(* into it, in one call or several, and is rejected only if they reject it.*)
DecodesAsSpecified == AtRest => Agrees(Decode[Fed][Root])

(* The longest prefix of the fields that decodes without a fault.          *)
SoundPrefix(list) ==
    SubSeq(list, 1, Max({n \in 0 .. Len(list) : DecodeFields(Root, SubSeq(list, 1, n)).ok}))

DiffersInOneField(before) ==
    /\ object.has = before.has
    /\ DOMAIN object.val = DOMAIN before.val
    /\ \A f, g \in DOMAIN object.val :
         object.val[f] # before.val[f] /\ object.val[g] # before.val[g] => f = g

(* After an exception the object holds every field that came before the    *)
(* fault, flagged as present and with its value; only the one field at     *)
(* fault may have changed besides, and its flag has not.                   *)
FailureIsLocal ==
    AtRest /\ err # "none" => DiffersInOneField(DecodeFields(Root, SoundPrefix(FieldsOf(Fed))).val)

(* The README's claim for get_map_*_*: every entry that is read is in the  *)
(* map afterwards.                                                         *)
MapEntriesInserted ==
    AtRest /\ err = "none" =>
        \A f \in DOMAIN Schema[Root] :
            Schema[Root][f].kind = "map" =>
                \A entry \in ToSet(Occurrences(FieldsOf(Fed), f)) :
                    Decode[PayloadOf(entry)][Schema[Root][f].type].val.val[1] \in DOMAIN object.val[f]
=============================================================================
