---------------------------- MODULE LexicalGrammar --------------------------
(***************************************************************************)
(* What the lexer must produce, from the rules of grammar/easypb-parser.peg*)
(* instead of a cursor: a token is the longest text from its first         *)
(* character on that one of the rules derives; its line and column are     *)
(* counted in the text before it; and the bytes stored for a default are   *)
(* those of the literal.                                                   *)
(***************************************************************************)
EXTENDS Lexer

Text(i, j) == SubSeq(source, i, j)
AllIn(text, chars) == ToSet(text) \subseteq chars

-----------------------------------------------------------------------------
(* The rules of the grammar.                                               *)
IsIdentifier(s) == s # <<>> /\ Head(s) \in Alpha \cup {"_"} /\ AllIn(s, Word)
IsDigits(s) == s # <<>> /\ AllIn(s, Digit)
IsHexInteger(s) == Len(s) > 2 /\ s[1] = "0" /\ s[2] \in {"x", "X"} /\ AllIn(SubSeq(s, 3, Len(s)), Hex)
IsExponent(s) ==
    /\ Len(s) > 1 /\ Head(s) \in {"e", "E"}
    /\ \/ IsDigits(Tail(s))
       \/ s[2] \in {"+", "-"} /\ IsDigits(SubSeq(s, 3, Len(s)))
IsMantissa(s) ==
    \E p \in DOMAIN s : s[p] = "." /\ Len(s) > 1 /\ AllIn(RemoveAt(s, p), Digit)
IsFloat(s) ==
    \/ IsMantissa(s)
    \/ \E k \in 1..Len(s) - 1 :
        /\ IsMantissa(SubSeq(s, 1, k)) \/ IsDigits(SubSeq(s, 1, k))
        /\ IsExponent(SubSeq(s, k + 1, Len(s)))

(* Escapes, by their text without the backslash.                           *)
IsCharEscape(s) == Len(s) = 1 /\ s[1] \in DOMAIN CharEscape
IsOctalEscape(s) == Len(s) \in 1..3 /\ AllIn(s, Octal)
IsHexEscape(s) == Len(s) \in 2..3 /\ s[1] = "x" /\ AllIn(Tail(s), Hex)
IsUnicodeEscape(s) ==
    s # <<>> /\ AllIn(Tail(s), Hex) /\ <<s[1], Len(s)>> \in {<<"u", 5>>, <<"U", 9>>}
IsEscape(s) == IsCharEscape(s) \/ IsOctalEscape(s) \/ IsHexEscape(s) \/ IsUnicodeEscape(s)
IsElement(s, quote) ==
    \/ Len(s) = 1 /\ s[1] \notin {quote, "\\", Nul} \cup Newline
    \/ Len(s) > 1 /\ s[1] = "\\" /\ IsEscape(Tail(s))

(* The bytes of an element, and <<>> if it stands for none.  A code point  *)
(* is encoded in the shortest way: its bits are spread over n bytes.       *)
Encoded(p) ==
    LET n == CHOOSE n \in 1..4 : p < <<128, 2048, 65536, 2097152>>[n] /\ \A m \in 1..n - 1 : p >= <<128, 2048, 65536>>[m]
        Bits(k) == p \div <<1, 64, 4096, 262144>>[k + 1]
    IN  [i \in 1..n |-> IF i = 1 THEN <<0, 192, 224, 240>>[n] + Bits(n - 1) ELSE 128 + (Bits(n - i) % 64)]

IsCodePoint(p) == p < 55296 \/ (p > 57343 /\ p < 1114112)

ElementBytes(s) ==
    CASE Len(s) = 1 -> <<Byte[s[1]]>>
      [] IsCharEscape(Tail(s)) -> <<CharEscape[s[2]]>>
      [] IsOctalEscape(Tail(s)) -> IF Numeral(8, Tail(s)) < 256 THEN <<Numeral(8, Tail(s))>> ELSE <<>>
      [] IsHexEscape(Tail(s)) -> <<Numeral(16, SubSeq(s, 3, Len(s)))>>
      [] OTHER -> LET p == Numeral(16, SubSeq(s, 3, Len(s)))
                  IN  IF IsCodePoint(p) THEN Encoded(p) ELSE <<>>

(* The bytes of the literal that begins at first in the text s, with the   *)
(* offset of its closing quote, or None.  Its elements are each the        *)
(* longest there is.                                                       *)
None == [bytes |-> <<>>, close |-> 0]
ElementEnd(s, i, quote) ==
    Max({0} \cup {j \in i..Min({Len(s), i + 9}) : IsElement(SubSeq(s, i, j), quote)})

LiteralAt(s, first) ==
    LET quote == s[first]
        with(element, rest) ==
            IF element = <<>> \/ rest = None THEN None ELSE [rest EXCEPT !.bytes = element \o @]
        from[i \in first + 1..Len(s) + 1] ==
            IF i <= Len(s) /\ s[i] = quote THEN [bytes |-> <<>>, close |-> i]
            ELSE IF i > Len(s) \/ ElementEnd(s, i, quote) = 0 THEN None
            ELSE with(ElementBytes(SubSeq(s, i, ElementEnd(s, i, quote))), from[ElementEnd(s, i, quote) + 1])
    IN  from[first + 1]

-----------------------------------------------------------------------------
(* What may begin at offset i: the kinds of token and where they end.      *)
NextIsWord(j) == j < Len(source) /\ source[j + 1] \in Alpha \cup {"_"}

Kinds(s) ==
    {kind \in {"identifier", "integer", "float", "symbol"} :
        CASE kind = "identifier" -> IsIdentifier(s)
          [] kind = "integer" -> IsDigits(s) \/ IsHexInteger(s)
          [] kind = "float" -> IsFloat(s)
          [] kind = "symbol" -> Len(s) = 1 /\ s[1] \in Punctuation}

LongestEnd(i) == Max({i - 1} \cup {j \in i..Len(source) : Kinds(Text(i, j)) # {}})

IsToken(t) ==
    LET i == t.location.offset
    IN  IF source[i] \in Quote THEN t.kind = "string" /\ LiteralAt(source, i) = [bytes |-> t.text, close |-> t.last]
        ELSE /\ t.last = LongestEnd(i)
             /\ Kinds(Text(i, t.last)) = {t.kind}
             /\ t.text = Text(i, t.last)
             /\ t.kind \in {"integer", "float"} => ~NextIsWord(t.last)

NoToken(i) ==
    CASE i > Len(source) -> TRUE
      [] i <= Len(source) /\ source[i] \in Quote -> LiteralAt(source, i) = None
      [] OTHER -> \/ LongestEnd(i) = i - 1
                  \/ Kinds(Text(i, LongestEnd(i))) \cap {"integer", "float"} # {} /\ NextIsWord(LongestEnd(i))

(* White space and comments: what may stand between two tokens.            *)
IsLineComment(s) == Len(s) > 1 /\ s[1] = "/" /\ s[2] = "/" /\ ~\E k \in DOMAIN s : s[k] \in Newline
IsBlockComment(s) ==
    /\ Len(s) > 3 /\ s[1] = "/" /\ s[2] = "*"
    /\ {k \in 3..Len(s) - 1 : s[k] = "*" /\ s[k + 1] = "/"} = {Len(s) - 1}
IsBlank(i, j) ==
    LET ok[k \in i..j + 1] ==
            \/ k = j + 1
            \/ source[k] \in Space /\ ok[k + 1]
            \/ \E e \in k + 1..j :
                /\ \/ IsBlockComment(Text(k, e))
                   \/ IsLineComment(Text(k, e)) /\ (e = Len(source) \/ source[e + 1] \in Newline)
                /\ ok[e + 1]
    IN  ok[i]

LineEnds(i) ==
    {k \in 1..i - 1 : source[k] \in Newline /\ ~(source[k] = "\r" /\ k < Len(source) /\ source[k + 1] = "\n")}

IsLocation(p) ==
    /\ p.line = 1 + Cardinality(LineEnds(p.offset))
    /\ p.column = p.offset - Max({0} \cup LineEnds(p.offset))

-----------------------------------------------------------------------------
(* PROPERTIES                                                              *)

(* The lexer cuts the text as the grammar does: tokens, separated by blank *)
(* text only, up to the end or to a place where there is no token, as the  *)
(* longest-match decisions of its loops should come out (proto_parser.cpp: *)
(* 298-478).  Sources have no NUL character, where the two differ.         *)
LexesByTheGrammar ==
    LET after(n) == IF n = 0 THEN 1 ELSE tokens[n].last + 1
    IN  /\ \A n \in DOMAIN tokens :
             /\ IsToken(tokens[n])
             /\ IsBlank(after(n - 1), tokens[n].location.offset - 1)
        /\ outcome = "end" => IsBlank(after(Len(tokens)), Len(source))
        /\ outcome = "failed" =>
             IF comment # Nowhere
             THEN ~\E e \in comment.offset..Len(source) : IsBlockComment(Text(comment.offset, e))
             ELSE at.offset <= Len(source) /\ IsBlank(after(Len(tokens)), at.offset - 1) /\ NoToken(at.offset)

(* Diagnostics name the line and column of a character, whichever way      *)
(* lines end and whatever was skipped before it (proto_parser.cpp:286).    *)
LocationsExact ==
    /\ IsLocation(at)
    /\ \A n \in DOMAIN tokens : IsLocation(tokens[n].location)
    /\ comment # Nowhere => IsLocation(comment)

(* An integer token is read as the number it spells, in its base, or       *)
(* refused: when a digit is not of the base, and when the number, with its *)
(* sign, is not of the type (the overflow test at proto_parser.cpp:504 and *)
(* the one more negative number at 522).                                   *)
Spelled(text) ==
    LET hex == Len(text) > 1 /\ text[2] \in {"x", "X"}
        base == IF hex THEN 16 ELSE IF Len(text) > 1 /\ text[1] = "0" THEN 8 ELSE 10
        digits == IF hex THEN SubSeq(text, 3, Len(text)) ELSE text
    IN  IF \A i \in DOMAIN digits : HexValue[digits[i]] < base THEN {Numeral(base, digits)} ELSE {}

IntegersExact ==
    \A n \in DOMAIN tokens : tokens[n].kind = "integer" =>
        LET text == tokens[n].text
            spelled == Spelled(text)
        IN  /\ ParseUnsignedInteger(text) = spelled \cap 0..UINT64_MAX
            /\ ParseSigned("", text, INT32_MAX) = spelled \cap 0..INT32_MAX
            /\ ParseSigned("-", text, INT32_MAX) = {-v : v \in spelled} \cap (-INT32_MAX - 1)..0

(* The text stored for a default of type bytes, read as a literal, gives   *)
(* the bytes back, whatever digit follows an escape (proto_parser.cpp:633).*)
BytesReadBack ==
    \A n \in DOMAIN tokens : tokens[n].kind = "string" =>
        LET literal == Quoted(EscapeBytes(tokens[n].text))
        IN  LiteralAt(literal, 1) = [bytes |-> tokens[n].text, close |-> Len(literal)]
=============================================================================
