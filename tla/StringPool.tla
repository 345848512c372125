----------------------------- MODULE StringPool -----------------------------
(***************************************************************************)
(* The arena that owns every string of a parsed .proto file, and the       *)
(* descriptor tree whose str_views point into it (StringPool, ParsedProto  *)
(* and the life of a ParsedProto in parse_proto).                          *)
(*                                                                         *)
(* Strings are stored one after another in blocks that never move, each    *)
(* behind the last and followed by a NUL; a view stays good until clear(). *)
(* One ParsedProto may be filled again and again, as the parser benchmark  *)
(* does, and is left as it is when a parse fails half way.                 *)
(***************************************************************************)
EXTENDS Integers, Sequences, FiniteSets

CONSTANTS
    FirstBlock,      \* 4096: capacity of the first block
    MaxBlock,        \* 1048576: capacity beyond which blocks stop doubling
    Texts,           \* the strings a parse saves
    Char,            \* what they consist of
    NUL,             \* the terminator
    Junk,            \* what new char[] holds before it is written
    MaxViews         \* bound: strings saved by one parse

ASSUME PoolAssumption ==
    /\ FirstBlock \in Nat \ {0}
    /\ MaxBlock \in Nat \ {0}
    /\ Texts \subseteq Seq(Char)
    /\ MaxViews \in Nat

VARIABLES
    blocks,          \* blocks_, capacities_ and used_: per block its memory and use
    views,           \* the str_views of the descriptor tree, with what was saved
    parsing          \* is a parse running

poolVars == <<blocks, views, parsing>>

Capacity(b) == Len(b.mem)

Back == blocks[Len(blocks)]

(* Mutant of NeedsBlock: the terminator is not counted.                    *)
NeedsBlockForText(text) ==
    blocks = <<>> \/ Capacity(Back) - Back.used < Len(text)

NeedsBlock(text) ==
    blocks = <<>> \/ Capacity(Back) - Back.used < Len(text) + 1

AtMost(n, limit) == IF n > limit THEN limit ELSE n
AtLeast(n, limit) == IF n < limit THEN limit ELSE n

(* Mutant of NewCapacity: the limit on doubling is applied last.           *)
NewCapacityCappedLast(text) ==
    AtMost(AtLeast(IF blocks = <<>> THEN FirstBlock ELSE 2 * Capacity(Back),
                   Len(text) + 1), MaxBlock)

NewCapacity(text) ==
    AtLeast(AtMost(IF blocks = <<>> THEN FirstBlock ELSE 2 * Capacity(Back), MaxBlock),
            Len(text) + 1)

NewBlock(text) == [mem |-> [i \in 1 .. NewCapacity(text) |-> Junk], used |-> 0]

(* Mutant of Room: the new block takes the place of the full one.          *)
RoomReplacing(text) ==
    IF blocks = <<>> THEN <<NewBlock(text)>>
    ELSE IF NeedsBlock(text) THEN [blocks EXCEPT ![Len(blocks)] = NewBlock(text)] ELSE blocks

(* The blocks once there is room for text in the last of them.             *)
Room(text) == IF NeedsBlock(text) THEN Append(blocks, NewBlock(text)) ELSE blocks

(* Mutant of Destination: taken when the use has been advanced.            *)
DestinationBackwards(b, text) == b.used - Len(text) - 1

(* Offset of the copy in its block.                                        *)
Destination(b, text) == b.used

(* Mutant of Store: use grows by the text without its terminator.          *)
StoreOverTerminator(b, text) ==
    [mem  |-> [i \in 1 .. Capacity(b) |->
                 IF i \in b.used + 1 .. b.used + Len(text) THEN text[i - b.used]
                 ELSE IF i = b.used + Len(text) + 1 THEN NUL ELSE b.mem[i]],
     used |-> b.used + Len(text)]

(* The copy, its terminator, and the advance past both.                    *)
Store(b, text) ==
    [mem  |-> [i \in 1 .. Capacity(b) |->
                 IF i \in b.used + 1 .. b.used + Len(text) THEN text[i - b.used]
                 ELSE IF i = b.used + Len(text) + 1 THEN NUL ELSE b.mem[i]],
     used |-> b.used + Len(text) + 1]

-----------------------------------------------------------------------------
PoolInit ==
    /\ blocks = <<>>
    /\ views = {}
    /\ parsing = FALSE

(* Mutant of ClearedTree: the tree survives the strings it points to.      *)
KeptTree == views

(* file = FileDescriptorProto() in ParsedProto::clear.                     *)
ClearedTree == {}

(* parse_proto on this ParsedProto: clear() the tree, then the pool.       *)
BeginParse ==
    /\ ~parsing
    /\ views' = ClearedTree
    /\ blocks' = <<>>
    /\ parsing' = TRUE

(* A string token, name or default that the parser puts into the tree.     *)
Save(text) ==
    /\ parsing
    /\ Cardinality(views) < MaxViews
    /\ LET room == Room(text)
           n == Len(room)
           view == [block |-> n, at |-> Destination(room[n], text), text |-> text]
       IN  /\ blocks' = [room EXCEPT ![n] = Store(@, text)]
           /\ views' = views \cup {view}
    /\ UNCHANGED parsing

(* The parse is complete, or an exception left the tree half built.        *)
EndParse ==
    /\ parsing
    /\ parsing' = FALSE
    /\ UNCHANGED <<blocks, views>>

PoolNext ==
    \/ BeginParse
    \/ \E text \in Texts : Save(text)
    \/ EndParse

PoolSpec == PoolInit /\ [][PoolNext]_poolVars

-----------------------------------------------------------------------------
Cell == Char \cup {NUL, Junk}
View == [block : Nat, at : Nat, text : Seq(Char)]

(* Every variable has its type.                                            *)
TypeOK ==
    /\ blocks \in Seq([mem : Seq(Cell), used : Nat])
    /\ views \subseteq View
    /\ parsing \in BOOLEAN

(* No block is filled beyond its capacity.                                 *)
UsedWithinCapacity ==
    \A b \in DOMAIN blocks : blocks[b].used <= Capacity(blocks[b])

(* The characters a view covers, its terminator included.                  *)
Span(v) == v.at + 1 .. v.at + Len(v.text) + 1

(* Every view in the tree reads exactly the string that was saved, NUL     *)
(* terminated, however many strings and blocks followed it and whether or  *)
(* not the parse that built the tree succeeded.                            *)
ViewsIntact ==
    \A v \in views :
        /\ v.block \in DOMAIN blocks
        /\ v.at + Len(v.text) + 1 <= blocks[v.block].used
        /\ \A i \in DOMAIN v.text : blocks[v.block].mem[v.at + i] = v.text[i]
        /\ blocks[v.block].mem[v.at + Len(v.text) + 1] = NUL

(* No two strings of the tree share a character.                           *)
ViewsDisjoint ==
    \A v, w \in views : v # w /\ v.block = w.block => Span(v) \cap Span(w) = {}

(* While a parse runs, nothing that was stored changes or moves.           *)
StoredStays ==
    [][parsing =>
         /\ views \subseteq views'
         /\ \A b \in DOMAIN blocks :
              /\ b \in DOMAIN blocks'
              /\ \A i \in 1 .. blocks[b].used : blocks'[b].mem[i] = blocks[b].mem[i]]_poolVars
=============================================================================
