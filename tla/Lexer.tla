-------------------------------- MODULE Lexer -------------------------------
(***************************************************************************)
(* The lexer of the schema parser (class Lexer): source text is cut into   *)
(* tokens, comments and white space are passed over, string literals are   *)
(* decoded to bytes, and every token knows its line and column.  The       *)
(* functions that turn the text of integer tokens into numbers, and bytes  *)
(* into the text stored for a default, are here too.                       *)
(*                                                                         *)
(* Text is a sequence of characters, which are strings of one character,   *)
(* or NUL; a decoded literal is a sequence of bytes.  Offsets count from 1.*)
(***************************************************************************)
EXTENDS NumberRanges, Sequences, SequencesExt, FiniteSets, FiniteSetsExt

CONSTANTS
    Sources,        \* texts to be lexed
    UINT64_MAX

(* A 64-bit number exceeds every 32-bit one.                               *)
ASSUME LimitsAssumption ==
    INT32_MAX \in Nat /\ UINT64_MAX \in Nat /\ INT32_MAX < UINT64_MAX

VARIABLES
    source,         \* the text
    at,             \* offset_, line_ and column_
    comment,        \* where the block comment that is open began, or Nowhere
    tokens,         \* tokens so far
    outcome         \* "lexing", "end", "failed"

lexerVars == <<source, at, comment, tokens, outcome>>

Nul == "NUL"
Nowhere == [offset |-> 0, line |-> 0, column |-> 0]

-----------------------------------------------------------------------------
(* Characters.                                                             *)

(* ASCII from 32 to 126; a character that TLA+ has no string for has a name.*)
Printable ==
    << " ", "!", "\"", "#", "$", "%", "&", "'", "(", ")", "*", "+", ",", "-", ".", "/",
       "0", "1", "2", "3", "4", "5", "6", "7", "8", "9", ":", ";", "<", "=", ">", "?", "@",
       "A", "B", "C", "D", "E", "F", "G", "H", "I", "J", "K", "L", "M",
       "N", "O", "P", "Q", "R", "S", "T", "U", "V", "W", "X", "Y", "Z",
       "[", "\\", "]", "^", "_", "BACKQUOTE",
       "a", "b", "c", "d", "e", "f", "g", "h", "i", "j", "k", "l", "m",
       "n", "o", "p", "q", "r", "s", "t", "u", "v", "w", "x", "y", "z",
       "{", "|", "}", "~" >>

Byte ==
    [c \in ToSet(Printable) \cup {"\t", "VT", "\f"} |->
        CASE c = "\t" -> 9 [] c = "VT" -> 11 [] c = "\f" -> 12
          [] OTHER -> 31 + CHOOSE i \in DOMAIN Printable : Printable[i] = c]

Digit == {Printable[b - 31] : b \in 48..57}
Alpha == {Printable[b - 31] : b \in (65..90) \cup (97..122)}
Word == Alpha \cup Digit \cup {"_"}
HexValue ==
    [c \in Digit \cup {"a", "b", "c", "d", "e", "f", "A", "B", "C", "D", "E", "F"} |->
        IF c \in Digit THEN Byte[c] - 48 ELSE IF Byte[c] >= 97 THEN Byte[c] - 87 ELSE Byte[c] - 55]
Hex == DOMAIN HexValue
Octal == Digit \ {"8", "9"}
Newline == {"\r", "\n"}
Space == {" ", "\t", "\f", "VT"} \cup Newline
Quote == {"'", "\""}
Punctuation == {"{", "}", "[", "]", "(", ")", "<", ">", "=", ";", ",", ".", "+", "-", ":"}

CharEscape ==
    [c \in {"a", "b", "f", "n", "r", "t", "v", "\\", "'", "\"", "?"} |->
        CASE c = "a" -> 7 [] c = "b" -> 8 [] c = "f" -> 12 [] c = "n" -> 10 [] c = "r" -> 13
          [] c = "t" -> 9 [] c = "v" -> 11 [] OTHER -> Byte[c]]

(* Sources are texts in ASCII.                                             *)
Character == DOMAIN Byte \cup Newline
ASSUME SourcesAssumption == Sources \subseteq Seq(Character)

Numeral(base, digits) ==
    LET upto[n \in 0..Len(digits)] ==
            IF n = 0 THEN 0 ELSE upto[n - 1] * base + HexValue[digits[n]]
    IN  upto[Len(digits)]

-----------------------------------------------------------------------------
(* The cursor.                                                             *)

CharAt(i) == IF i <= Len(source) THEN source[i] ELSE Nul
Peek(ahead) == CharAt(at.offset + ahead)

(* Mutant of Advance: each half of a CR LF ends a line.                    *)
AdvanceOneChar(p) ==
    IF CharAt(p.offset) \in Newline
    THEN [offset |-> p.offset + 1, line |-> p.line + 1, column |-> 1]
    ELSE [p EXCEPT !.offset = @ + 1, !.column = @ + 1]

Advance(p) ==
    IF CharAt(p.offset) \in Newline
    THEN [ offset |-> p.offset + IF CharAt(p.offset) = "\r" /\ CharAt(p.offset + 1) = "\n" THEN 2 ELSE 1,
           line |-> p.line + 1, column |-> 1 ]
    ELSE [p EXCEPT !.offset = @ + 1, !.column = @ + 1]

(* Advancing n times where no line ends.                                   *)
Forward(p, n) == [p EXCEPT !.offset = @ + n, !.column = @ + n]

(* The first offset from i on whose character is not one of chars.         *)
EndOfRun(i, chars) ==
    Min({j \in i..Len(source) + 1 : j > Len(source) \/ source[j] \notin chars})

LexerInitWith(texts) ==
    /\ source \in texts
    /\ at = [offset |-> 1, line |-> 1, column |-> 1]
    /\ comment = Nowhere
    /\ tokens = <<>>
    /\ outcome = "lexing"

LexerInit == LexerInitWith(Sources)

Between == outcome = "lexing" /\ comment = Nowhere

Fail ==
    /\ outcome' = "failed"
    /\ UNCHANGED <<source, at, comment, tokens>>

-----------------------------------------------------------------------------
(* White space and comments.                                               *)

SkipSpace ==
    /\ Between /\ Peek(0) \in Space
    /\ at' = Advance(at)
    /\ UNCHANGED <<source, comment, tokens, outcome>>

SkipLineComment ==
    /\ Between /\ Peek(0) = "/" /\ Peek(1) = "/"
    /\ LET end == Min({j \in at.offset..Len(source) + 1 : CharAt(j) \in Newline \cup {Nul}})
       IN  at' = Forward(at, end - at.offset)
    /\ UNCHANGED <<source, comment, tokens, outcome>>

OpenBlockComment ==
    /\ Between /\ Peek(0) = "/" /\ Peek(1) = "*"
    /\ comment' = at
    /\ at' = Forward(at, 2)
    /\ UNCHANGED <<source, tokens, outcome>>

InBlockComment ==
    /\ outcome = "lexing" /\ comment # Nowhere
    /\ Peek(0) # Nul /\ ~(Peek(0) = "*" /\ Peek(1) = "/")
    /\ at' = Advance(at)
    /\ UNCHANGED <<source, comment, tokens, outcome>>

CloseBlockComment ==
    /\ outcome = "lexing" /\ comment # Nowhere
    /\ Peek(0) = "*" /\ Peek(1) = "/"
    /\ comment' = Nowhere
    /\ at' = Forward(at, 2)
    /\ UNCHANGED <<source, tokens, outcome>>

UnterminatedComment ==
    /\ outcome = "lexing" /\ comment # Nowhere
    /\ Peek(0) = Nul
    /\ Fail

-----------------------------------------------------------------------------
(* Tokens.                                                                 *)

(* The token of the given kind from here up to the offset end.             *)
Take(kind, end, text) ==
    /\ tokens' = Append(tokens, [kind |-> kind, location |-> at, last |-> end - 1, text |-> text])
    /\ at' = Forward(at, end - at.offset)
    /\ UNCHANGED <<source, comment, outcome>>

Spelling(end) == SubSeq(source, at.offset, end - 1)

Identifier ==
    /\ Between /\ Peek(0) \in Alpha \cup {"_"}
    /\ LET end == EndOfRun(at.offset, Word)
       IN  Take("identifier", end, Spelling(end))

AtNumber == Between /\ (Peek(0) \in Digit \/ (Peek(0) = "." /\ Peek(1) \in Digit))
AtHex == Peek(0) = "0" /\ Peek(1) \in {"x", "X"}

HexNumber ==
    /\ AtNumber /\ AtHex
    /\ LET end == EndOfRun(at.offset + 2, Hex)
       IN  IF end = at.offset + 2 \/ CharAt(end) \in Word THEN Fail
           ELSE Take("integer", end, Spelling(end))

(* What may follow the digits of a number.                                 *)
EndOfFraction(i) == IF CharAt(i) = "." THEN EndOfRun(i + 1, Digit) ELSE i
ExponentDigits(i) == i + IF CharAt(i + 1) \in {"+", "-"} THEN 2 ELSE 1
HasExponent(i) == CharAt(i) \in {"e", "E"}

(* Mutant of NumberEnds: a name may follow the digits of a number.         *)
NumberEndsAnywhere(end) == TRUE

NumberEnds(end) == CharAt(end) \notin Alpha \cup {"_"}

DecimalNumber ==
    /\ AtNumber /\ ~AtHex
    /\ LET whole == EndOfRun(at.offset, Digit)
           mantissa == EndOfFraction(whole)
           end == IF HasExponent(mantissa) THEN EndOfRun(ExponentDigits(mantissa), Digit) ELSE mantissa
       IN  IF (HasExponent(mantissa) /\ end = ExponentDigits(mantissa)) \/ ~NumberEnds(end) THEN Fail
           ELSE Take(IF end = whole THEN "integer" ELSE "float", end, Spelling(end))

(* The UTF-8 bytes of a code point.                                        *)
Utf8(p) ==
    LET Low(shift) == 128 + ((p \div shift) % 64)
    IN  IF p < 128 THEN <<p>>
        ELSE IF p < 2048 THEN <<192 + (p \div 64), Low(1)>>
        ELSE IF p < 65536 THEN <<224 + (p \div 4096), Low(64), Low(1)>>
        ELSE <<240 + (p \div 262144), Low(4096), Low(64), Low(1)>>

Scalar(p) == p <= 1114111 /\ ~(55296 <= p /\ p <= 57343)

(* Mutant of DigitsOfEscape: two octal digits.                             *)
DigitsOfShortEscape(i) ==
    IF CharAt(i) \in Octal THEN SubSeq(source, i, Min({EndOfRun(i, Octal), i + 2}) - 1)
    ELSE SubSeq(source, i + 1, Min({EndOfRun(i + 1, Hex), i + 3}) - 1)

(* The digits of the octal or hexadecimal escape whose backslash is before *)
(* offset i: the longest run up to the length allowed.                     *)
MostDigits(c) == CASE c = "x" -> 2 [] c = "u" -> 4 [] c = "U" -> 8 [] OTHER -> 3
DigitsOfEscape(i) ==
    IF CharAt(i) \in Octal THEN SubSeq(source, i, Min({EndOfRun(i, Octal), i + 3}) - 1)
    ELSE SubSeq(source, i + 1, Min({EndOfRun(i + 1, Hex), i + 1 + MostDigits(CharAt(i))}) - 1)

(* What the escape whose backslash is at i stands for, and its length.     *)
Malformed == [bytes |-> <<>>, length |-> 0]
EscapeWith(c, digits) ==
    CASE c \in DOMAIN CharEscape -> [bytes |-> <<CharEscape[c]>>, length |-> 2]
      [] c \in Octal /\ Numeral(8, digits) <= 255 ->
            [bytes |-> <<Numeral(8, digits)>>, length |-> 1 + Len(digits)]
      [] c = "x" /\ digits # <<>> -> [bytes |-> <<Numeral(16, digits)>>, length |-> 2 + Len(digits)]
      [] c \in {"u", "U"} /\ Len(digits) = MostDigits(c) /\ Scalar(Numeral(16, digits)) ->
            [bytes |-> Utf8(Numeral(16, digits)), length |-> 2 + Len(digits)]
      [] OTHER -> Malformed

LiteralElement(i) ==
    CASE CharAt(i) = "\\" -> EscapeWith(CharAt(i + 1), DigitsOfEscape(i + 1))
      [] CharAt(i) \in Newline \cup {Nul} -> Malformed
      [] OTHER -> [bytes |-> <<Byte[CharAt(i)]>>, length |-> 1]

(* The literal in quotes that begins at offset first: its bytes, and the   *)
(* offset after it, which is 0 if it is malformed.                         *)
Literal(first) ==
    LET from[i \in first + 1..Len(source) + 1] ==
            IF CharAt(i) = source[first] THEN [bytes |-> <<>>, end |-> i + 1]
            ELSE LET e == LiteralElement(i)
                     rest == from[i + e.length]
                 IN  IF e.length = 0 THEN [bytes |-> <<>>, end |-> 0]
                     ELSE [bytes |-> e.bytes \o rest.bytes, end |-> rest.end]
    IN  from[first + 1]

StringLiteral ==
    /\ Between /\ Peek(0) \in Quote
    /\ LET literal == Literal(at.offset)
       IN  IF literal.end = 0 THEN Fail ELSE Take("string", literal.end, literal.bytes)

(* strchr finds the NUL that ends the list of symbols, too.                *)
Symbol ==
    /\ Between /\ ~AtNumber /\ at.offset <= Len(source)
    /\ Peek(0) \in Punctuation \cup {Nul}
    /\ Take("symbol", at.offset + 1, Spelling(at.offset + 1))

AtComment == Peek(0) = "/" /\ Peek(1) \in {"/", "*"}

UnexpectedCharacter ==
    /\ Between /\ ~AtComment
    /\ Peek(0) \notin Space \cup Word \cup Quote \cup Punctuation \cup {Nul}
    /\ Fail

EndOfInput ==
    /\ Between /\ at.offset > Len(source)
    /\ outcome' = "end"
    /\ UNCHANGED <<source, at, comment, tokens>>

-----------------------------------------------------------------------------
(* Numbers and defaults.                                                   *)

(* Mutant of Overflows: the digit to come is not counted.                  *)
OverflowsBase(value, base, digit) == value > UINT64_MAX \div base

Overflows(value, base, digit) == value > (UINT64_MAX - digit) \div base

(* The set of the number that digits spell; none if there is no such one.  *)
Digits(base, digits) ==
    LET upto[n \in 0..Len(digits)] ==
            IF n = 0 THEN {0}
            ELSE LET digit == HexValue[digits[n]]
                 IN  {value * base + digit :
                        value \in {v \in upto[n - 1] : digit < base /\ ~Overflows(v, base, digit)}}
    IN  upto[Len(digits)]

ParseUnsignedInteger(text) ==
    IF Len(text) > 2 /\ text[1] = "0" /\ text[2] \in {"x", "X"} THEN Digits(16, SubSeq(text, 3, Len(text)))
    ELSE IF Len(text) > 1 /\ text[1] = "0" THEN Digits(8, Tail(text))
    ELSE Digits(10, text)

(* Mutant of ParseSigned: as many negative numbers as positive ones.       *)
ParseSymmetric(sign, text, max) ==
    {IF sign = "-" THEN -n ELSE n : n \in {m \in ParseUnsignedInteger(text) : m <= max}}

ParseSigned(sign, text, max) ==
    {IF sign = "-" THEN -n ELSE n :
        n \in {m \in ParseUnsignedInteger(text) : m <= IF sign = "-" THEN max + 1 ELSE max}}

(* How a byte is written in the text of a default.                         *)
OctalOf(b) == <<"\\", Printable[17 + (b \div 64)], Printable[17 + ((b \div 8) % 8)], Printable[17 + (b % 8)]>>

(* Mutant of EscapedByte: as few octal digits as the byte needs.           *)
EscapedBriefly(b) ==
    IF b \in 32..126 /\ b \notin {34, 39, 92} THEN <<Printable[b - 31]>>
    ELSE IF b < 8 THEN <<"\\", Printable[17 + b]>> ELSE OctalOf(b)

EscapedByte(b) ==
    CASE b = 10 -> <<"\\", "n">>
      [] b = 13 -> <<"\\", "r">>
      [] b = 9 -> <<"\\", "t">>
      [] b \in {34, 39, 92} -> <<"\\", Printable[b - 31]>>
      [] b \in (32..126) \ {34, 39, 92} -> <<Printable[b - 31]>>
      [] OTHER -> OctalOf(b)

EscapeBytes(bytes) == FlattenSeq([i \in DOMAIN bytes |-> EscapedByte(bytes[i])])
Quoted(text) == <<"\"">> \o text \o <<"\"">>

-----------------------------------------------------------------------------
LexerNext ==
    \/ SkipSpace \/ SkipLineComment \/ OpenBlockComment \/ InBlockComment \/ CloseBlockComment
    \/ UnterminatedComment
    \/ Identifier \/ HexNumber \/ DecimalNumber \/ StringLiteral \/ Symbol
    \/ UnexpectedCharacter \/ EndOfInput

LexerSpec == LexerInit /\ [][LexerNext]_lexerVars
=============================================================================
