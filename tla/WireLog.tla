------------------------------- MODULE WireLog ------------------------------
(***************************************************************************)
(* What an Encoder promises, without a buffer: a stack of payloads, the    *)
(* top-level message first and the innermost open sub-message last.        *)
(* Everything written goes to the innermost payload; closing a payload     *)
(* appends it to its parent behind a prefix that a reader decodes to       *)
(* exactly its length; the finished message is the bottom payload.         *)
(***************************************************************************)
EXTENDS Wire, SequencesExt

CONSTANTS
    Chunks,        \* the complete encodings that one write may append
    Tags,          \* the encoded tags that may open a sub-message
    Oversized      \* may the caller pass a byte array that is too long

VARIABLES
    open,          \* the open payloads, outermost first
    failed,        \* has a length_too_long left this message unfinished
    out            \* the message the last step returned, <<>> if none

logVars == <<open, failed, out>>

Innermost == Last(open)
Extend(bytes) == [open EXCEPT ![Len(open)] = @ \o bytes]

Init ==
    /\ open = << <<>> >>
    /\ failed = FALSE
    /\ out = <<>>

Write(c) ==
    /\ ~failed
    /\ open' = Extend(c)
    /\ out' = <<>>
    /\ UNCHANGED failed

Begin(t) ==
    /\ ~failed
    /\ open' = Append(Extend(t), <<>>)
    /\ out' = <<>>
    /\ UNCHANGED failed

(* A prefix is whatever MAX_LENGTH_CODE_SIZE bytes a reader takes for n.   *)
ReadsAs(prefix, n) ==
    ReadVarint(prefix, 0, Len(prefix)) = Read(n, MAX_LENGTH_CODE_SIZE)

End ==
    /\ ~failed
    /\ Len(open) > 1
    /\ \E prefix \in [1 .. MAX_LENGTH_CODE_SIZE -> Byte] :
         /\ ReadsAs(prefix, Len(Innermost))
         /\ open' = LET parent == open[Len(open) - 1]
                    IN  Append(SubSeq(open, 1, Len(open) - 2), parent \o prefix \o Innermost)
    /\ out' = <<>>
    /\ UNCHANGED failed

(* Only a length that its code cannot hold may fail the message.           *)
Fail ==
    /\ ~failed
    /\ Oversized \/ (Len(open) > 1 /\ Len(Innermost) >= Base ^ MAX_LENGTH_CODE_SIZE)
    /\ failed' = TRUE
    /\ open' = <<>>
    /\ out' = <<>>

Finish ==
    /\ ~failed
    /\ Len(open) = 1
    /\ out' = Innermost
    /\ open' = << <<>> >>
    /\ UNCHANGED failed

(* After a failure the caller gets whatever bytes there were, and an       *)
(* encoder that is as new.                                                 *)
Recover ==
    /\ failed
    /\ out' \in Seq(Byte)
    /\ open' = << <<>> >>
    /\ failed' = FALSE

Next ==
    \/ \E c \in Chunks : Write(c)
    \/ \E t \in Tags : Begin(t)
    \/ End
    \/ Fail
    \/ Finish
    \/ Recover

Spec == Init /\ [][Next]_logVars
=============================================================================
