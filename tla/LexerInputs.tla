----------------------------- MODULE LexerInputs ----------------------------
(***************************************************************************)
(* Short source texts: all texts over the characters that matter for       *)
(* numbers, for comments and line ends, and for string literals, and       *)
(* Unicode escapes at the borders of their ranges.                         *)
(***************************************************************************)
EXTENDS Naturals, Sequences

TextsOver(chars, n) == UNION { [1..k -> chars] : k \in 0..n }
Joined(first, texts) == { first \o text : text \in texts }

Unicode ==
    { <<"'", "\\", "u", a, b, c, d, "'">> :
        a \in {"0", "d"}, b \in {"0", "7", "8", "f"}, c \in {"0", "7", "8", "f"}, d \in {"0", "1", "f"} }
LongUnicode ==
    { <<"'", "\\", "U", "0", "0", a, b, c, "f", "f", d>> \o close :
        a \in {"0", "1"}, b \in {"0", "1"}, c \in {"0", "d", "f"}, d \in {"0", "f"}, close \in {<<"'">>, <<>>} }

(* Bounds: the lengths of the texts.                                       *)
ShortTexts ==
    TextsOver({"0", "9", "x", "e", "_", ".", "+"}, 5)
    \cup TextsOver({"/", "*", "\r", "\n", "a"}, 6)
    \cup TextsOver({"2", "5", "6"}, 3)
    \cup Joined(<<"'">>, TextsOver({"\\", "'", "\"", "4", "0", "x", "n"}, 5))
    \cup Joined(<<"'", "\\", "0">>, TextsOver({"'", "0", "4"}, 4))
    \cup TextsOver({"'", "\"", " ", "\\", "\n", "{", "#"}, 4)
    \cup Unicode \cup LongUnicode
=============================================================================
