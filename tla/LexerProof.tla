------------------------------ MODULE LexerProof ----------------------------
(***************************************************************************)
(* Proofs about the lexer, for texts of every length and limits of every   *)
(* size.                                                                   *)
(***************************************************************************)
EXTENDS LexicalGrammar, SequenceFacts

-----------------------------------------------------------------------------
(* Characters.                                                             *)

(* The provers distinguish strings that are written out, but for these     *)
(* they have to be told.                                                   *)
Blank == " "
DoubleQuote == "\""
Comma == ","
Semicolon == ";"
Underscore == "_"
OpeningBrace == "{"
ClosingBrace == "}"
(* The places of the table of printable characters.                        *)
Places == 1 .. 95
Plain ==
    { "!", "#", "$", "%", "&", "'", "(", ")", "*", "+", "-", ".", "/", "0", "1", "2",
      "3", "4", "5", "6", "7", "8", "9", ":", "<", "=", ">", "?", "@", "A", "B", "C",
      "D", "E", "F", "G", "H", "I", "J", "K", "L", "M", "N", "O", "P", "Q", "R", "S",
      "T", "U", "V", "W", "X", "Y", "Z", "[", "\\", "]", "^", "BACKQUOTE", "a", "b", "c", "d",
      "e", "f", "g", "h", "i", "j", "k", "l", "m", "n", "o", "p", "q", "r", "s", "t",
      "u", "v", "w", "x", "y", "z", "|", "~" }

LEMMA OddCharacters ==
  /\ Blank \notin Plain /\ DoubleQuote \notin Plain /\ Comma \notin Plain
  /\ Semicolon \notin Plain /\ Underscore \notin Plain /\ OpeningBrace \notin Plain
  /\ ClosingBrace \notin Plain
  /\ Blank # DoubleQuote /\ Blank # Comma /\ Blank # Semicolon /\ Blank # Underscore
  /\ Blank # OpeningBrace /\ Blank # ClosingBrace
  /\ DoubleQuote # Comma /\ DoubleQuote # Semicolon /\ DoubleQuote # Underscore
  /\ DoubleQuote # OpeningBrace /\ DoubleQuote # ClosingBrace
  /\ Comma # Semicolon /\ Comma # Underscore /\ Comma # OpeningBrace /\ Comma # ClosingBrace
  /\ Semicolon # Underscore /\ Semicolon # OpeningBrace /\ Semicolon # ClosingBrace
  /\ Underscore # OpeningBrace /\ Underscore # ClosingBrace
  /\ OpeningBrace # ClosingBrace
<1>1. /\ Blank \notin Plain /\ Blank # DoubleQuote /\ Blank # Comma /\ Blank # Semicolon
      /\ Blank # Underscore /\ Blank # OpeningBrace /\ Blank # ClosingBrace
  BY ZenonT(60) DEF Plain, Blank, DoubleQuote, Comma, Semicolon, Underscore, OpeningBrace, ClosingBrace
<1>2. /\ DoubleQuote \notin Plain /\ DoubleQuote # Comma /\ DoubleQuote # Semicolon
      /\ DoubleQuote # Underscore /\ DoubleQuote # OpeningBrace
      /\ DoubleQuote # ClosingBrace
  BY ZenonT(60) DEF Plain, DoubleQuote, Comma, Semicolon, Underscore, OpeningBrace, ClosingBrace
<1>3. /\ Comma \notin Plain /\ Comma # Semicolon /\ Comma # Underscore
      /\ Comma # OpeningBrace /\ Comma # ClosingBrace
  BY ZenonT(60) DEF Plain, Comma, Semicolon, Underscore, OpeningBrace, ClosingBrace
<1>4. /\ Semicolon \notin Plain /\ Semicolon # Underscore /\ Semicolon # OpeningBrace
      /\ Semicolon # ClosingBrace
  BY ZenonT(60) DEF Plain, Semicolon, Underscore, OpeningBrace, ClosingBrace
<1>5. Underscore \notin Plain /\ Underscore # OpeningBrace /\ Underscore # ClosingBrace
  BY ZenonT(60) DEF Plain, Underscore, OpeningBrace, ClosingBrace
<1>6. OpeningBrace \notin Plain /\ OpeningBrace # ClosingBrace
  BY ZenonT(60) DEF Plain, OpeningBrace, ClosingBrace
<1>7. ClosingBrace \notin Plain
  BY ZenonT(60) DEF Plain, ClosingBrace
<1> QED BY <1>1, <1>2, <1>3, <1>4, <1>5, <1>6, <1>7

LEMMA PrintableIs ==
  /\ Printable[1] = Blank /\ Printable[2] = "!" /\ Printable[3] = DoubleQuote /\ Printable[4] = "#"
  /\ Printable[5] = "$" /\ Printable[6] = "%" /\ Printable[7] = "&" /\ Printable[8] = "'"
  /\ Printable[9] = "(" /\ Printable[10] = ")" /\ Printable[11] = "*" /\ Printable[12] = "+"
  /\ Printable[13] = Comma /\ Printable[14] = "-" /\ Printable[15] = "." /\ Printable[16] = "/"
  /\ Printable[17] = "0" /\ Printable[18] = "1" /\ Printable[19] = "2" /\ Printable[20] = "3"
  /\ Printable[21] = "4" /\ Printable[22] = "5" /\ Printable[23] = "6" /\ Printable[24] = "7"
  /\ Printable[25] = "8" /\ Printable[26] = "9" /\ Printable[27] = ":" /\ Printable[28] = Semicolon
  /\ Printable[29] = "<" /\ Printable[30] = "=" /\ Printable[31] = ">" /\ Printable[32] = "?"
  /\ Printable[33] = "@" /\ Printable[34] = "A" /\ Printable[35] = "B" /\ Printable[36] = "C"
  /\ Printable[37] = "D" /\ Printable[38] = "E" /\ Printable[39] = "F" /\ Printable[40] = "G"
  /\ Printable[41] = "H" /\ Printable[42] = "I" /\ Printable[43] = "J" /\ Printable[44] = "K"
  /\ Printable[45] = "L" /\ Printable[46] = "M" /\ Printable[47] = "N" /\ Printable[48] = "O"
  /\ Printable[49] = "P" /\ Printable[50] = "Q" /\ Printable[51] = "R" /\ Printable[52] = "S"
  /\ Printable[53] = "T" /\ Printable[54] = "U" /\ Printable[55] = "V" /\ Printable[56] = "W"
  /\ Printable[57] = "X" /\ Printable[58] = "Y" /\ Printable[59] = "Z" /\ Printable[60] = "["
  /\ Printable[61] = "\\" /\ Printable[62] = "]" /\ Printable[63] = "^" /\ Printable[64] = Underscore
  /\ Printable[65] = "BACKQUOTE" /\ Printable[66] = "a" /\ Printable[67] = "b" /\ Printable[68] = "c"
  /\ Printable[69] = "d" /\ Printable[70] = "e" /\ Printable[71] = "f" /\ Printable[72] = "g"
  /\ Printable[73] = "h" /\ Printable[74] = "i" /\ Printable[75] = "j" /\ Printable[76] = "k"
  /\ Printable[77] = "l" /\ Printable[78] = "m" /\ Printable[79] = "n" /\ Printable[80] = "o"
  /\ Printable[81] = "p" /\ Printable[82] = "q" /\ Printable[83] = "r" /\ Printable[84] = "s"
  /\ Printable[85] = "t" /\ Printable[86] = "u" /\ Printable[87] = "v" /\ Printable[88] = "w"
  /\ Printable[89] = "x" /\ Printable[90] = "y" /\ Printable[91] = "z" /\ Printable[92] = OpeningBrace
  /\ Printable[93] = "|" /\ Printable[94] = ClosingBrace /\ Printable[95] = "~"
<1>1. /\ Printable[1] = Blank /\ Printable[2] = "!" /\ Printable[3] = DoubleQuote /\ Printable[4] = "#"
      /\ Printable[5] = "$" /\ Printable[6] = "%" /\ Printable[7] = "&" /\ Printable[8] = "'"
      /\ Printable[9] = "(" /\ Printable[10] = ")" /\ Printable[11] = "*" /\ Printable[12] = "+"
      /\ Printable[13] = Comma /\ Printable[14] = "-" /\ Printable[15] = "." /\ Printable[16] = "/"
      /\ Printable[17] = "0" /\ Printable[18] = "1" /\ Printable[19] = "2" /\ Printable[20] = "3"
      /\ Printable[21] = "4" /\ Printable[22] = "5" /\ Printable[23] = "6" /\ Printable[24] = "7"
  BY SMTT(30) DEF Printable, Blank, DoubleQuote, Comma, Semicolon, Underscore, OpeningBrace, ClosingBrace
<1>2. /\ Printable[25] = "8" /\ Printable[26] = "9" /\ Printable[27] = ":" /\ Printable[28] = Semicolon
      /\ Printable[29] = "<" /\ Printable[30] = "=" /\ Printable[31] = ">" /\ Printable[32] = "?"
      /\ Printable[33] = "@" /\ Printable[34] = "A" /\ Printable[35] = "B" /\ Printable[36] = "C"
      /\ Printable[37] = "D" /\ Printable[38] = "E" /\ Printable[39] = "F" /\ Printable[40] = "G"
      /\ Printable[41] = "H" /\ Printable[42] = "I" /\ Printable[43] = "J" /\ Printable[44] = "K"
      /\ Printable[45] = "L" /\ Printable[46] = "M" /\ Printable[47] = "N" /\ Printable[48] = "O"
  BY SMTT(30) DEF Printable, Blank, DoubleQuote, Comma, Semicolon, Underscore, OpeningBrace, ClosingBrace
<1>3. /\ Printable[49] = "P" /\ Printable[50] = "Q" /\ Printable[51] = "R" /\ Printable[52] = "S"
      /\ Printable[53] = "T" /\ Printable[54] = "U" /\ Printable[55] = "V" /\ Printable[56] = "W"
      /\ Printable[57] = "X" /\ Printable[58] = "Y" /\ Printable[59] = "Z" /\ Printable[60] = "["
      /\ Printable[61] = "\\" /\ Printable[62] = "]" /\ Printable[63] = "^" /\ Printable[64] = Underscore
      /\ Printable[65] = "BACKQUOTE" /\ Printable[66] = "a" /\ Printable[67] = "b" /\ Printable[68] = "c"
      /\ Printable[69] = "d" /\ Printable[70] = "e" /\ Printable[71] = "f" /\ Printable[72] = "g"
  BY SMTT(30) DEF Printable, Blank, DoubleQuote, Comma, Semicolon, Underscore, OpeningBrace, ClosingBrace
<1>4. /\ Printable[73] = "h" /\ Printable[74] = "i" /\ Printable[75] = "j" /\ Printable[76] = "k"
      /\ Printable[77] = "l" /\ Printable[78] = "m" /\ Printable[79] = "n" /\ Printable[80] = "o"
      /\ Printable[81] = "p" /\ Printable[82] = "q" /\ Printable[83] = "r" /\ Printable[84] = "s"
      /\ Printable[85] = "t" /\ Printable[86] = "u" /\ Printable[87] = "v" /\ Printable[88] = "w"
      /\ Printable[89] = "x" /\ Printable[90] = "y" /\ Printable[91] = "z" /\ Printable[92] = OpeningBrace
      /\ Printable[93] = "|" /\ Printable[94] = ClosingBrace /\ Printable[95] = "~"
  BY SMTT(30) DEF Printable, Blank, DoubleQuote, Comma, Semicolon, Underscore, OpeningBrace, ClosingBrace
<1> QED BY <1>1, <1>2, <1>3, <1>4

LEMMA PrintableDomain == DOMAIN Printable = Places
BY DEF Printable, Places

LEMMA PlaceIs ==
  ASSUME NEW i \in Places
  PROVE  \/ i = 1 \/ i = 2 \/ i = 3 \/ i = 4 \/ i = 5 \/ i = 6 \/ i = 7 \/ i = 8 \/ i = 9
         \/ i = 10 \/ i = 11 \/ i = 12 \/ i = 13 \/ i = 14 \/ i = 15 \/ i = 16 \/ i = 17 \/ i = 18
         \/ i = 19 \/ i = 20 \/ i = 21 \/ i = 22 \/ i = 23 \/ i = 24 \/ i = 25 \/ i = 26 \/ i = 27
         \/ i = 28 \/ i = 29 \/ i = 30 \/ i = 31 \/ i = 32 \/ i = 33 \/ i = 34 \/ i = 35 \/ i = 36
         \/ i = 37 \/ i = 38 \/ i = 39 \/ i = 40 \/ i = 41 \/ i = 42 \/ i = 43 \/ i = 44 \/ i = 45
         \/ i = 46 \/ i = 47 \/ i = 48 \/ i = 49 \/ i = 50 \/ i = 51 \/ i = 52 \/ i = 53 \/ i = 54
         \/ i = 55 \/ i = 56 \/ i = 57 \/ i = 58 \/ i = 59 \/ i = 60 \/ i = 61 \/ i = 62 \/ i = 63
         \/ i = 64 \/ i = 65 \/ i = 66 \/ i = 67 \/ i = 68 \/ i = 69 \/ i = 70 \/ i = 71 \/ i = 72
         \/ i = 73 \/ i = 74 \/ i = 75 \/ i = 76 \/ i = 77 \/ i = 78 \/ i = 79 \/ i = 80 \/ i = 81
         \/ i = 82 \/ i = 83 \/ i = 84 \/ i = 85 \/ i = 86 \/ i = 87 \/ i = 88 \/ i = 89 \/ i = 90
         \/ i = 91 \/ i = 92 \/ i = 93 \/ i = 94 \/ i = 95
BY DEF Places

(* No character is listed twice.                                           *)
LEMMA PrintableDiffer ==
  ASSUME NEW i \in Places, NEW j \in Places, Printable[i] = Printable[j]
  PROVE  i = j
BY PlaceIs, PrintableIs, OddCharacters, SMTT(60) DEF Plain

LEMMA OutsideTable ==
  /\ {"\t", "VT", "\f", "\r", "\n", "NUL"} \cap ToSet(Printable) = {}
  /\ "\t" # "VT" /\ "\t" # "\f" /\ "VT" # "\f"
  /\ {"\r", "\n", "NUL"} \cap {"\t", "VT", "\f"} = {} /\ "NUL" \notin {"\r", "\n"}
<1> DEFINE Odd == {Blank, DoubleQuote, Comma, Semicolon, Underscore, OpeningBrace, ClosingBrace}
<1>1. "\t" \notin Plain \cup Odd
  BY ZenonT(60) DEF Plain, Blank, DoubleQuote, Comma, Semicolon, Underscore, OpeningBrace, ClosingBrace
<1>2. "VT" \notin Plain \cup Odd
  BY ZenonT(60) DEF Plain, Blank, DoubleQuote, Comma, Semicolon, Underscore, OpeningBrace, ClosingBrace
<1>3. "\f" \notin Plain \cup Odd
  BY ZenonT(60) DEF Plain, Blank, DoubleQuote, Comma, Semicolon, Underscore, OpeningBrace, ClosingBrace
<1>4. "\r" \notin Plain \cup Odd
  BY ZenonT(60) DEF Plain, Blank, DoubleQuote, Comma, Semicolon, Underscore, OpeningBrace, ClosingBrace
<1>5. "\n" \notin Plain \cup Odd
  BY ZenonT(60) DEF Plain, Blank, DoubleQuote, Comma, Semicolon, Underscore, OpeningBrace, ClosingBrace
<1>6. "NUL" \notin Plain \cup Odd
  BY ZenonT(60) DEF Plain, Blank, DoubleQuote, Comma, Semicolon, Underscore, OpeningBrace, ClosingBrace
<1>7. ASSUME NEW i \in Places
      PROVE  Printable[i] \in Plain \cup Odd
  BY PrintableIs, PlaceIs, SMTT(60) DEF Plain
<1>8. ToSet(Printable) \subseteq Plain \cup Odd
  BY <1>7, PrintableDomain DEF ToSet
<1> HIDE DEF Odd
<1>9. {"\t", "VT", "\f", "\r", "\n", "NUL"} \cap ToSet(Printable) = {}
  BY <1>1, <1>2, <1>3, <1>4, <1>5, <1>6, <1>8
<1> QED BY <1>9, Zenon

Table(P) == {Printable[k] : k \in P}

LEMMA TablesMeet ==
  ASSUME NEW P \in SUBSET Places, NEW Q \in SUBSET Places
  PROVE  Table(P) \cap Table(Q) = Table(P \cap Q)
<1>1. ASSUME NEW c \in Table(P) \cap Table(Q)
      PROVE  c \in Table(P \cap Q)
  <2>1. PICK i \in P : c = Printable[i]
    BY DEF Table
  <2>2. PICK j \in Q : c = Printable[j]
    BY DEF Table
  <2>3. i = j
    BY <2>1, <2>2, PrintableDiffer
  <2> QED BY <2>1, <2>3 DEF Table
<1>2. ASSUME NEW c \in Table(P \cap Q)
      PROVE  c \in Table(P) \cap Table(Q)
  BY DEF Table
<1> QED BY <1>1, <1>2

(* The code of a character is its place in the table.                      *)
LEMMA ByteIs ==
  ASSUME NEW i \in Places
  PROVE  Printable[i] \in DOMAIN Byte /\ Byte[Printable[i]] = 31 + i
<1>1. Printable[i] \in ToSet(Printable)
  BY PrintableDomain DEF ToSet
<1>2. (CHOOSE j \in DOMAIN Printable : Printable[j] = Printable[i]) = i
  <2> DEFINE j == CHOOSE j \in DOMAIN Printable : Printable[j] = Printable[i]
  <2>1. j \in Places /\ Printable[j] = Printable[i]
    BY PrintableDomain
  <2> HIDE DEF j
  <2>2. j = i
    BY <2>1, PrintableDiffer
  <2> QED BY <2>2 DEF j
<1>3. Printable[i] # "\t" /\ Printable[i] # "VT" /\ Printable[i] # "\f"
  BY <1>1, OutsideTable
<1> QED BY <1>1, <1>2, <1>3 DEF Byte

LEMMA DigitPlaces == Digit = Table(17 .. 26)
<1>1. ASSUME NEW c \in Digit
      PROVE  c \in Table(17 .. 26)
  <2>1. PICK b \in 48 .. 57 : c = Printable[b - 31]
    BY DEF Digit
  <2>2. b - 31 \in 17 .. 26
    OBVIOUS
  <2> QED BY <2>1, <2>2 DEF Table
<1>2. ASSUME NEW c \in Table(17 .. 26)
      PROVE  c \in Digit
  <2>1. PICK i \in 17 .. 26 : c = Printable[i]
    BY DEF Table
  <2>2. i + 31 \in 48 .. 57 /\ (i + 31) - 31 = i
    OBVIOUS
  <2> QED BY <2>1, <2>2 DEF Digit
<1> QED BY <1>1, <1>2

LEMMA AlphaPlaces == Alpha = Table((34 .. 59) \cup (66 .. 91))
<1> DEFINE P == (34 .. 59) \cup (66 .. 91)
           B == (65 .. 90) \cup (97 .. 122)
<1>1. ASSUME NEW c \in Alpha
      PROVE  c \in Table(P)
  <2>1. PICK b \in B : c = Printable[b - 31]
    BY DEF Alpha
  <2>2. b - 31 \in P
    OBVIOUS
  <2> QED BY <2>1, <2>2 DEF Table
<1>2. ASSUME NEW c \in Table(P)
      PROVE  c \in Alpha
  <2>1. PICK i \in P : c = Printable[i]
    BY DEF Table
  <2>2. i + 31 \in B /\ (i + 31) - 31 = i
    OBVIOUS
  <2> QED BY <2>1, <2>2 DEF Alpha
<1> QED BY <1>1, <1>2

LEMMA WordPlaces == Word = Table((17 .. 26) \cup (34 .. 59) \cup {64} \cup (66 .. 91))
<1>1. Word = Alpha \cup Digit \cup {Underscore}
  BY Zenon DEF Word, Underscore
<1>2. Table({64}) = {Underscore}
  BY PrintableIs DEF Table
<1>3. Word = Table((34 .. 59) \cup (66 .. 91)) \cup Table(17 .. 26) \cup Table({64})
  BY <1>1, <1>2, DigitPlaces, AlphaPlaces
<1> QED BY <1>3 DEF Table

LEMMA HexPlaces == Hex = Table((17 .. 26) \cup (34 .. 39) \cup (66 .. 71))
<1>1. Hex = Digit \cup {"a", "b", "c", "d", "e", "f", "A", "B", "C", "D", "E", "F"}
  BY DEF Hex, HexValue
<1>2. \A P : 66 \in P /\ 67 \in P /\ 68 \in P /\ 69 \in P /\ 70 \in P /\ 71 \in P
             /\ 34 \in P /\ 35 \in P /\ 36 \in P /\ 37 \in P /\ 38 \in P /\ 39 \in P
             => {"a", "b", "c", "d", "e", "f", "A", "B", "C", "D", "E", "F"} \subseteq Table(P)
  BY PrintableIs DEF Table
<1>3. {"a", "b", "c", "d", "e", "f", "A", "B", "C", "D", "E", "F"} \subseteq Table((34 .. 39) \cup (66 .. 71))
  BY <1>2
<1>4. ASSUME NEW i \in (34 .. 39) \cup (66 .. 71)
      PROVE  Printable[i] \in {"a", "b", "c", "d", "e", "f", "A", "B", "C", "D", "E", "F"}
  <2>1. \/ i = 34 \/ i = 35 \/ i = 36 \/ i = 37 \/ i = 38 \/ i = 39
        \/ i = 66 \/ i = 67 \/ i = 68 \/ i = 69 \/ i = 70 \/ i = 71
    OBVIOUS
  <2> QED BY <2>1, PrintableIs
<1>5. Table((34 .. 39) \cup (66 .. 71)) = {"a", "b", "c", "d", "e", "f", "A", "B", "C", "D", "E", "F"}
  BY <1>3, <1>4 DEF Table
<1> QED BY <1>1, <1>5, DigitPlaces DEF Table

LEMMA OctalPlaces == Octal = Table(17 .. 24)
<1>1. {"8", "9"} = Table({25, 26})
  BY PrintableIs DEF Table
<1>2. Octal = Table(17 .. 26) \ Table({25, 26})
  BY <1>1, DigitPlaces DEF Octal
<1>3. Table(17 .. 26) = Table(17 .. 24) \cup Table({25, 26})
  BY DEF Table
<1>4. Table(17 .. 24) \cap Table({25, 26}) = {}
  <2>1. (17 .. 24) \cap {25, 26} = {} /\ Table({}) = {}
    BY DEF Table
  <2>2. (17 .. 24) \in SUBSET Places /\ {25, 26} \in SUBSET Places
    BY DEF Places
  <2> QED BY <2>1, <2>2, TablesMeet
<1> QED BY <1>2, <1>3, <1>4

(* The value of a digit.                                                   *)
LEMMA HexValueIs ==
  ASSUME NEW c \in Hex
  PROVE  /\ HexValue[c] \in 0 .. 15
         /\ c \in Digit => HexValue[c] \in 0 .. 9
         /\ \A i \in 17 .. 26 : c = Printable[i] => HexValue[c] = i - 17
         /\ c \in Octal => HexValue[c] \in 0 .. 7
<1>1. PICK i \in (17 .. 26) \cup (34 .. 39) \cup (66 .. 71) : c = Printable[i]
  BY HexPlaces DEF Table
<1>2. i \in Places /\ Byte[c] = 31 + i
  BY <1>1, ByteIs DEF Places
<1>0. ASSUME NEW k \in Places, c = Printable[k]
      PROVE  k = i
  BY <1>0, <1>1, <1>2, PrintableDiffer
<1>3. c \in Digit <=> i \in 17 .. 26
  <2>1. i \in 17 .. 26 => c \in Digit
    BY <1>1, DigitPlaces DEF Table
  <2>2. ASSUME c \in Digit PROVE i \in 17 .. 26
    <3>1. PICK k \in 17 .. 26 : c = Printable[k]
      BY <2>2, DigitPlaces DEF Table
    <3> QED BY <1>0, <3>1 DEF Places
  <2> QED BY <2>1, <2>2
<1>4. HexValue[c] = IF c \in Digit THEN Byte[c] - 48 ELSE IF Byte[c] >= 97 THEN Byte[c] - 87 ELSE Byte[c] - 55
  BY DEF Hex, HexValue
<1>5. HexValue[c] = IF i \in 17 .. 26 THEN i - 17 ELSE IF i >= 66 THEN i - 56 ELSE i - 24
  BY <1>2, <1>3, <1>4
<1>6. \A k \in 17 .. 26 : c = Printable[k] => k = i
  BY <1>0 DEF Places
<1>7. c \in Octal => i \in 17 .. 24
  <2>1. SUFFICES ASSUME c \in Octal PROVE i \in 17 .. 24
    OBVIOUS
  <2>2. PICK k \in 17 .. 24 : c = Printable[k]
    BY <2>1, OctalPlaces DEF Table
  <2> QED BY <1>0, <2>2 DEF Places
<1> QED BY <1>3, <1>5, <1>6, <1>7

-----------------------------------------------------------------------------
(* Numerals.                                                               *)

Base == {8, 10, 16}

Reads(f, base, digits) ==
    f = [n \in 0 .. Len(digits) |-> IF n = 0 THEN 0 ELSE f[n - 1] * base + HexValue[digits[n]]]

Valued(f, base, digits) ==
    /\ f[0] = 0 /\ \A n \in 0 .. Len(digits) : f[n] \in Nat
    /\ \A n \in 1 .. Len(digits) : f[n] = f[n - 1] * base + HexValue[digits[n]]

LEMMA NumeralIs ==
  ASSUME NEW base \in Base, NEW digits \in Seq(Hex)
  PROVE  \E f : Valued(f, base, digits) /\ Numeral(base, digits) = f[Len(digits)]
<1> DEFINE n == Len(digits)
           step == [k \in 1 .. n |-> [v \in Nat |-> v * base + HexValue[digits[k]]]]
           h == CHOOSE f : Reads(f, base, digits)
<1>1. n \in Nat /\ \A k \in 1 .. n : digits[k] \in Hex
  OBVIOUS
<1>2. ASSUME NEW k \in 1 .. n, NEW v \in Nat
      PROVE  v * base + HexValue[digits[k]] \in Nat
  <2>1. HexValue[digits[k]] \in 0 .. 15
    BY <1>1, HexValueIs
  <2> DEFINE d == HexValue[digits[k]]
  <2>2. d \in Nat
    BY <2>1
  <2> HIDE DEF d
  <2>3. v * 8 + d \in Nat /\ v * 10 + d \in Nat /\ v * 16 + d \in Nat
    BY <2>2
  <2> QED BY <2>3 DEF Base, d
<1>3. \E f : Reads(f, base, digits)
  <2>1. step \in [1 .. n -> [Nat -> Nat]]
    BY <1>2
  <2>2. \A k \in 1 .. n : \A v \in Nat : step[k][v] = v * base + HexValue[digits[k]]
    OBVIOUS
  <2> HIDE DEF step, n
  <2>3. PICK f \in [0 .. n -> Nat] : Recurs(f, n, 0, step)
    BY <1>1, <2>1, Recursion
  <2>4. \A k \in 0 .. n : k # 0 => k \in 1 .. n /\ f[k - 1] \in Nat
    BY <1>1
  <2>5. \A k \in 0 .. n : (IF k = 0 THEN 0 ELSE step[k][f[k - 1]])
                          = IF k = 0 THEN 0 ELSE f[k - 1] * base + HexValue[digits[k]]
    BY <2>2, <2>4
  <2>6. f = [k \in 0 .. n |-> IF k = 0 THEN 0 ELSE f[k - 1] * base + HexValue[digits[k]]]
    BY <2>3, <2>5 DEF Recurs
  <2> QED BY <2>6 DEF Reads, n
<1>4. Reads(h, base, digits)
  BY <1>3
<1>5. Numeral(base, digits) = h[n]
  BY DEF Numeral, Reads
<1> HIDE DEF h, n
<1>6. \A k \in 0 .. n : h[k] = IF k = 0 THEN 0 ELSE h[k - 1] * base + HexValue[digits[k]]
  BY <1>4 DEF Reads, n
<1> DEFINE T == {k \in 0 .. n : h[k] \in Nat}
<1>7. 0 .. n \subseteq T
  <2>1. 0 \in T
    BY <1>1, <1>6
  <2>2. ASSUME NEW k \in 1 .. n, k - 1 \in T
        PROVE  k \in T
    <3>1. k \in 0 .. n /\ k # 0
      BY <1>1
    <3> QED BY <1>2, <1>6, <2>2, <3>1
  <2> HIDE DEF T
  <2> QED BY <1>1, <2>1, <2>2, Induction
<1>8. h[0] = 0 /\ \A k \in 0 .. n : h[k] \in Nat
  BY <1>1, <1>6, <1>7
<1>9. \A k \in 1 .. n : h[k] = h[k - 1] * base + HexValue[digits[k]]
  BY <1>1, <1>6
<1>10. Valued(h, base, digits)
  BY <1>8, <1>9 DEF Valued, n
<1> QED BY <1>5, <1>10 DEF n

(* There is one such function.                                             *)
(* A zero before a numeral does not change it.                             *)
LEMMA LeadingZero ==
  ASSUME NEW base \in Base, NEW digits \in Seq(Hex), Len(digits) > 0, digits[1] = "0"
  PROVE  Numeral(base, digits) = Numeral(base, Tail(digits))
<1> DEFINE t == Tail(digits)
           n == Len(digits)
<1>1. t \in Seq(Hex) /\ Len(t) = n - 1 /\ n \in Nat /\ n > 0 /\ \A k \in 1 .. n - 1 : t[k] = digits[k + 1]
  OBVIOUS
<1>2. HexValue["0"] = 0
  <2>1. "0" = Printable[17]
    BY PrintableIs
  <2>2. Printable[17] \in Hex
    BY HexPlaces DEF Table
  <2> QED BY <2>1, <2>2, HexValueIs
<1>3. PICK f : Valued(f, base, digits) /\ Numeral(base, digits) = f[n]
  BY NumeralIs
<1> HIDE DEF t
<1>4. PICK g : Valued(g, base, t) /\ Numeral(base, t) = g[n - 1]
  BY <1>1, NumeralIs
<1> HIDE DEF n
<1>5. \A k \in 1 .. n : f[k] = f[k - 1] * base + HexValue[digits[k]]
  BY <1>3 DEF Valued, n
<1>6. \A k \in 1 .. n - 1 : g[k] = g[k - 1] * base + HexValue[t[k]]
  BY <1>1, <1>4 DEF Valued
<1> DEFINE T == {k \in 0 .. n - 1 : f[k + 1] = g[k]}
<1>7. 0 \in T
  <2>1. f[1] = 0 * base + 0
    BY <1>1, <1>2, <1>3, <1>5 DEF Valued
  <2>2. 0 * base + 0 = 0 /\ g[0] = 0
    BY <1>4 DEF Base, Valued
  <2> QED BY <1>1, <2>1, <2>2
<1>8. ASSUME NEW k \in 1 .. n - 1, k - 1 \in T
      PROVE  k \in T
  <2>1. k \in 1 .. n /\ k + 1 \in 1 .. n /\ (k + 1) - 1 = k /\ (k - 1) + 1 = k /\ k \in 0 .. n - 1
    BY <1>1
  <2>2. f[k] = g[k - 1]
    BY <1>8, <2>1
  <2>3. f[k + 1] = f[k] * base + HexValue[digits[k + 1]]
    BY <1>5, <2>1
  <2>4. g[k] = g[k - 1] * base + HexValue[digits[k + 1]]
    BY <1>1, <1>6
  <2> QED BY <2>1, <2>2, <2>3, <2>4
<1>9. 0 .. n - 1 \subseteq T
  <2> HIDE DEF T
  <2>1. n - 1 \in Nat
    BY <1>1
  <2> QED BY <1>7, <1>8, <2>1, Induction
<1>10. n - 1 \in T /\ (n - 1) + 1 = n
  BY <1>1, <1>9
<1> QED BY <1>3, <1>4, <1>10 DEF t

(* The overflow test is exact, for a limit of any size.                    *)
LEMMA OverflowsIs ==
  ASSUME NEW base \in Base, NEW v \in Nat, NEW digit \in 0 .. 15
  PROVE  Overflows(v, base, digit) <=> v * base + digit > UINT64_MAX
<1>1. UINT64_MAX \in Nat
  BY LimitsAssumption
<1> DEFINE d == UINT64_MAX - digit
<1>2. d \in Int /\ (v * base + digit > UINT64_MAX <=> v * base > d)
  BY <1>1 DEF Base
<1> HIDE DEF d
<1>3. base = 8 => (v > d \div 8 <=> v * 8 > d)
  BY <1>2
<1>4. base = 10 => (v > d \div 10 <=> v * 10 > d)
  BY <1>2
<1>5. base = 16 => (v > d \div 16 <=> v * 16 > d)
  BY <1>2
<1>6. v > d \div base <=> v * base > d
  BY <1>3, <1>4, <1>5 DEF Base
<1> QED BY <1>2, <1>6 DEF Overflows, d

Collects(g, base, digits) ==
    g = [n \in 0 .. Len(digits) |->
            IF n = 0 THEN {0}
            ELSE LET digit == HexValue[digits[n]]
                 IN  {value * base + digit :
                        value \in {v \in g[n - 1] : digit < base /\ ~Overflows(v, base, digit)}}]

Gathered(g, base, digits) ==
    /\ g[0] = {0}
    /\ \A n \in 1 .. Len(digits) :
         g[n] = {value * base + HexValue[digits[n]] :
                    value \in {v \in g[n - 1] : HexValue[digits[n]] < base
                                                /\ ~Overflows(v, base, HexValue[digits[n]])}}

LEMMA DigitsCollect ==
  ASSUME NEW base \in Base, NEW digits \in Seq(Hex)
  PROVE  \E g : Gathered(g, base, digits) /\ Digits(base, digits) = g[Len(digits)]
<1> DEFINE n == Len(digits)
           d(k) == HexValue[digits[k]]
           Next(k, S) == {value * base + d(k) : value \in {v \in S : d(k) < base /\ ~Overflows(v, base, d(k))}}
           step == [k \in 1 .. n |-> [S \in SUBSET Nat |-> Next(k, S)]]
           h == CHOOSE g : Collects(g, base, digits)
<1>1. n \in Nat /\ \A k \in 1 .. n : digits[k] \in Hex
  OBVIOUS
<1>2. ASSUME NEW k \in 1 .. n, NEW S \in SUBSET Nat
      PROVE  Next(k, S) \in SUBSET Nat
  <2>0. HexValue[digits[k]] \in 0 .. 15
    BY <1>1, HexValueIs
  <2>1. d(k) \in Nat
    BY <2>0
  <2> HIDE DEF d
  <2>2. \A v \in Nat : v * 8 + d(k) \in Nat /\ v * 10 + d(k) \in Nat /\ v * 16 + d(k) \in Nat
    BY <2>1
  <2>3. \A v \in Nat : v * base + d(k) \in Nat
    BY <2>2 DEF Base
  <2> QED BY <2>3
<1>3. \E g : Collects(g, base, digits)
  <2> HIDE DEF Next
  <2>1. step \in [1 .. n -> [SUBSET Nat -> SUBSET Nat]]
    BY <1>2
  <2>2. \A k \in 1 .. n : \A S \in SUBSET Nat : step[k][S] = Next(k, S)
    OBVIOUS
  <2> HIDE DEF step, n
  <2>3. PICK g \in [0 .. n -> SUBSET Nat] : Recurs(g, n, {0}, step)
    <3>1. {0} \in SUBSET Nat
      OBVIOUS
    <3> QED BY <1>1, <2>1, <3>1, Recursion
  <2>4. \A k \in 0 .. n : k # 0 => k \in 1 .. n /\ g[k - 1] \in SUBSET Nat
    BY <1>1
  <2>5. \A k \in 0 .. n : (IF k = 0 THEN {0} ELSE step[k][g[k - 1]]) = IF k = 0 THEN {0} ELSE Next(k, g[k - 1])
    BY <2>2, <2>4
  <2>6. g = [k \in 0 .. n |-> IF k = 0 THEN {0} ELSE Next(k, g[k - 1])]
    BY <2>3, <2>5 DEF Recurs
  <2>7. Collects(g, base, digits)
    BY <2>6, Zenon DEF Collects, Next, n
  <2> QED BY <2>7
<1>4. Collects(h, base, digits)
  BY <1>3
<1>5. Digits(base, digits) = h[n]
  BY Zenon DEF Digits, Collects
<1> HIDE DEF h
<1>6. Gathered(h, base, digits)
  <2>1. 0 \in 0 .. n /\ \A k \in 1 .. n : k \in 0 .. n /\ k # 0
    BY <1>1
  <2>2. \A k \in 0 .. n : h[k] = IF k = 0 THEN {0} ELSE Next(k, h[k - 1])
    BY <1>4, Zenon DEF Collects
  <2>3. h[0] = {0} /\ \A k \in 1 .. n : h[k] = Next(k, h[k - 1])
    <3> HIDE DEF Next, n
    <3> QED BY <2>1, <2>2
  <2> QED BY <2>3, Zenon DEF Gathered
<1> QED BY <1>5, <1>6

Spells(base, digits) == {Numeral(base, digits)} \cap {v \in Nat : \A i \in DOMAIN digits : HexValue[digits[i]] < base}

(* The loop that reads digits returns what they spell if it fits, and      *)
(* nothing if it does not or if one of them is not of the base.            *)
LEMMA DigitsAre ==
  ASSUME NEW base \in Base, NEW digits \in Seq(Hex)
  PROVE  Digits(base, digits) = Spells(base, digits) \cap 0 .. UINT64_MAX
<1> DEFINE n == Len(digits)
           d(k) == HexValue[digits[k]]
           Fits(v, k) == v <= UINT64_MAX /\ \A i \in 1 .. k : d(i) < base
<1>1. n \in Nat /\ DOMAIN digits = 1 .. n /\ UINT64_MAX \in Nat
  BY LimitsAssumption
<1>2. \A k \in 1 .. n : d(k) \in 0 .. 15
  <2>1. \A k \in 1 .. n : digits[k] \in Hex
    OBVIOUS
  <2> QED BY <2>1, HexValueIs
<1>3. PICK f : Valued(f, base, digits) /\ Numeral(base, digits) = f[n]
  BY NumeralIs
<1>4. PICK g : Gathered(g, base, digits) /\ Digits(base, digits) = g[n]
  BY DigitsCollect
<1>5. f[0] = 0 /\ (\A k \in 0 .. n : f[k] \in Nat) /\ \A k \in 1 .. n : f[k] = f[k - 1] * base + d(k)
  BY <1>3 DEF Valued
<1>6. /\ g[0] = {0}
      /\ \A k \in 1 .. n : g[k] = {value * base + d(k) :
                                     value \in {v \in g[k - 1] : d(k) < base /\ ~Overflows(v, base, d(k))}}
  BY <1>4 DEF Gathered
<1> DEFINE T == {k \in 0 .. n : g[k] = {v \in {f[k]} : Fits(v, k)}}
<1> HIDE DEF n, d
<1>7. 0 \in T
  <2>1. Fits(0, 0)
    BY <1>1
  <2> HIDE DEF Fits
  <2> QED BY <1>1, <1>5, <1>6, <2>1
<1>8. ASSUME NEW k \in 1 .. n, k - 1 \in T
      PROVE  k \in T
  <2>1. k \in 0 .. n /\ k - 1 \in 0 .. n /\ k \in Nat
    BY <1>1
  <2> DEFINE v == f[k - 1]
             w == v * base + d(k)
  <2>2. v \in Nat /\ f[k] = w /\ d(k) \in 0 .. 15 /\ f[k] \in Nat
    BY <1>2, <1>5, <2>1
  <2>3. g[k - 1] = {u \in {v} : Fits(u, k - 1)}
    BY <1>8
  <2>4. Overflows(v, base, d(k)) <=> w > UINT64_MAX
    BY <2>2, OverflowsIs
  <2>5. v <= w
    <3> DEFINE e == d(k)
    <3> HIDE DEF v, e
    <3>1. v \in Nat /\ e \in Nat
      BY <2>2 DEF e
    <3>2. v <= v * 8 + e /\ v <= v * 10 + e /\ v <= v * 16 + e
      BY <3>1
    <3> QED BY <3>2 DEF Base, e
  <2> HIDE DEF v, w
  <2>6. Fits(w, k) <=> Fits(v, k - 1) /\ d(k) < base /\ ~Overflows(v, base, d(k))
    <3>1. (\A i \in 1 .. k : d(i) < base) <=> d(k) < base /\ \A i \in 1 .. k - 1 : d(i) < base
      BY <2>1
    <3> QED BY <1>1, <2>2, <2>4, <2>5, <3>1
  <2> HIDE DEF Fits
  <2>7. g[k] = {value * base + d(k) : value \in {u \in g[k - 1] : d(k) < base /\ ~Overflows(u, base, d(k))}}
    BY <1>6
  <2>8. w = v * base + d(k)
    BY DEF w
  <2>9. CASE Fits(w, k)
    <3>1. {u \in g[k - 1] : d(k) < base /\ ~Overflows(u, base, d(k))} = {v}
      BY <2>3, <2>6, <2>9
    <3>2. g[k] = {w}
      BY <2>7, <2>8, <3>1
    <3> QED BY <2>1, <2>2, <2>9, <3>2
  <2>10. CASE ~Fits(w, k)
    <3>1. {u \in g[k - 1] : d(k) < base /\ ~Overflows(u, base, d(k))} = {}
      BY <2>3, <2>6, <2>10
    <3>2. g[k] = {}
      BY <2>7, <3>1
    <3> QED BY <2>1, <2>2, <2>10, <3>2
  <2> QED BY <2>9, <2>10
<1>9. n \in T
  <2> HIDE DEF T
  <2>1. 0 .. n \subseteq T
    BY <1>1, <1>7, <1>8, Induction
  <2> QED BY <1>1, <2>1
<1>10. Digits(base, digits) = {v \in {Numeral(base, digits)} : Fits(v, n)} /\ Numeral(base, digits) \in Nat
  BY <1>1, <1>3, <1>4, <1>5, <1>9
<1>11. \A v \in Nat : Fits(v, n) <=> v \in 0 .. UINT64_MAX /\ \A i \in DOMAIN digits : HexValue[digits[i]] < base
  BY <1>1 DEF d
<1> HIDE DEF Fits
<1> QED BY <1>10, <1>11 DEF Spells

-----------------------------------------------------------------------------
(* Characters of the source.                                               *)

Bytes == 0 .. 255

LEMMA CharacterIs ==
  /\ Character = ToSet(Printable) \cup {"\t", "VT", "\f"} \cup Newline
  /\ DOMAIN Byte = ToSet(Printable) \cup {"\t", "VT", "\f"}
  /\ ToSet(Printable) = Table(Places)
  /\ Nul \notin Character /\ Newline \cap DOMAIN Byte = {}
<1>1. DOMAIN Byte = ToSet(Printable) \cup {"\t", "VT", "\f"}
  BY DEF Byte
<1>2. ToSet(Printable) = Table(Places)
  BY PrintableDomain DEF ToSet, Table
<1>3. Newline = {"\r", "\n"} /\ Nul = "NUL"
  BY DEF Newline, Nul
<1> QED BY <1>1, <1>2, <1>3, OutsideTable DEF Character

LEMMA ByteType ==
  ASSUME NEW c \in DOMAIN Byte
  PROVE  Byte[c] \in Bytes
<1>1. CASE c \in Table(Places)
  <2>1. PICK i \in Places : c = Printable[i]
    BY <1>1 DEF Table
  <2> QED BY <2>1, ByteIs DEF Bytes, Places
<1>2. CASE c \in {"\t", "VT", "\f"}
  BY <1>2, OutsideTable DEF Byte, Bytes
<1> QED BY <1>1, <1>2, CharacterIs

(* A character of a table is not the end of a line, or of the source.      *)
LEMMA TableIsCharacter ==
  ASSUME NEW P \in SUBSET Places
  PROVE  Table(P) \subseteq Character /\ Table(P) \cap Newline = {} /\ Nul \notin Table(P)
<1>1. Table(P) \subseteq Table(Places)
  BY DEF Table
<1> QED BY <1>1, CharacterIs

LEMMA WordsAreCharacters ==
  /\ Word \subseteq Character /\ Word \cap Newline = {} /\ Nul \notin Word
  /\ Hex \subseteq Word /\ Digit \subseteq Hex /\ Octal \subseteq Digit /\ Word = Alpha \cup {"_"} \cup Digit
  /\ (Alpha \cup {"_"}) \cap Digit = {}
<1> DEFINE P == (17 .. 26) \cup (34 .. 59) \cup {64} \cup (66 .. 91)
           Q == (34 .. 59) \cup {64} \cup (66 .. 91)
<1>1. P \in SUBSET Places /\ Word = Table(P)
  BY WordPlaces DEF Places
<1>2. Word \subseteq Character /\ Word \cap Newline = {} /\ Nul \notin Word
  <2> HIDE DEF P
  <2> QED BY <1>1, TableIsCharacter
<1>3. Hex \subseteq Word /\ Digit \subseteq Hex
  BY HexPlaces, DigitPlaces, WordPlaces DEF Table
<1>4. Octal \subseteq Digit
  BY Zenon DEF Octal
<1>5. Word = Alpha \cup {"_"} \cup Digit
  BY Zenon DEF Word
<1>6. Alpha \cup {"_"} = Table(Q)
  <2>1. Table({64}) = {Underscore}
    BY PrintableIs DEF Table
  <2>2. Alpha \cup {Underscore} = Table(Q)
    BY <2>1, AlphaPlaces DEF Table
  <2> QED BY <2>2, Zenon DEF Underscore
<1>7. Table(Q) \cap Table(17 .. 26) = {}
  <2>1. Q \in SUBSET Places /\ (17 .. 26) \in SUBSET Places /\ Q \cap (17 .. 26) = {}
    BY DEF Places
  <2>2. Table({}) = {}
    BY DEF Table
  <2> HIDE DEF Q
  <2> QED BY <2>1, <2>2, TablesMeet
<1>8. (Alpha \cup {"_"}) \cap Digit = {}
  BY <1>6, <1>7, DigitPlaces, Zenon
<1> QED BY <1>2, <1>3, <1>4, <1>5, <1>8, Zenon

LEMMA CharAtIs ==
  ASSUME source \in Seq(Character), NEW i \in Nat \ {0}
  PROVE  /\ i <= Len(source) => CharAt(i) = source[i] /\ CharAt(i) \in Character
         /\ CharAt(i) = Nul <=> i > Len(source)
<1>1. i <= Len(source) => CharAt(i) = source[i] /\ source[i] \in Character
  BY DEF CharAt
<1>2. i > Len(source) => CharAt(i) = Nul
  BY DEF CharAt
<1> QED BY <1>1, <1>2, CharacterIs

LEMMA EndOfRunIs ==
  ASSUME source \in Seq(Character), NEW i \in 1 .. Len(source) + 1, NEW chars
  PROVE  /\ EndOfRun(i, chars) \in i .. Len(source) + 1
         /\ \A k \in i .. EndOfRun(i, chars) - 1 : source[k] \in chars
         /\ EndOfRun(i, chars) <= Len(source) => source[EndOfRun(i, chars)] \notin chars
<1> DEFINE n == Len(source)
           M == {j \in i .. n + 1 : j > n \/ source[j] \notin chars}
<1>1. n \in Nat /\ M \subseteq Nat /\ n + 1 \in M
  OBVIOUS
<1>2. EndOfRun(i, chars) = Min(M)
  BY DEF EndOfRun
<1>3. Min(M) \in M /\ \A k \in M : Min(M) <= k
  <2> HIDE DEF M
  <2> QED BY <1>1, LeastOf
<1>4. \A k \in i .. Min(M) - 1 : k \in Nat /\ k \in i .. n + 1 /\ ~(Min(M) <= k)
  BY <1>3
<1>5. \A k \in i .. Min(M) - 1 : source[k] \in chars
  BY <1>3, <1>4
<1> QED BY <1>2, <1>3, <1>5

(* The longest run of chars from offset i on, up to so many of them.       *)
IsRun(s, i, r, most, chars) ==
    /\ r \in 0 .. most /\ i + r - 1 <= Len(s)
    /\ \A k \in i .. i + r - 1 : s[k] \in chars
    /\ r = most \/ i + r > Len(s) \/ s[i + r] \notin chars

LEMMA BoundedRun ==
  ASSUME source \in Seq(Character), NEW i \in 1 .. Len(source) + 1, NEW most \in Nat, NEW chars
  PROVE  \E r \in 0 .. most : IsRun(source, i, r, most, chars) /\ Min({EndOfRun(i, chars), i + most}) = i + r
<1> DEFINE e == EndOfRun(i, chars)
           m == Min({e, i + most})
           n == Len(source)
<1>1. /\ e \in i .. n + 1 /\ (\A k \in i .. e - 1 : source[k] \in chars)
      /\ (e <= n => source[e] \notin chars)
  BY EndOfRunIs
<1>2. n \in Nat
  OBVIOUS
<1> HIDE DEF e, n
<1>3. {e, i + most} \subseteq Nat /\ {e, i + most} # {}
  BY <1>1, <1>2
<1>4. m \in {e, i + most} /\ m <= e /\ m <= i + most
  BY <1>3, LeastOf
<1> HIDE DEF m
<1> DEFINE r == m - i
<1>5. r \in 0 .. most /\ i + r = m /\ (i + r) - 1 <= n
  BY <1>1, <1>2, <1>4
<1>6. \A k \in i .. i + r - 1 : source[k] \in chars
  BY <1>1, <1>2, <1>4
<1>7. r = most \/ i + r > n \/ source[i + r] \notin chars
  BY <1>1, <1>2, <1>4
<1>8. IsRun(source, i, r, most, chars)
  BY <1>5, <1>6, <1>7 DEF IsRun, n
<1> QED BY <1>5, <1>8 DEF m, e

LEMMA OctalRun ==
  ASSUME source \in Seq(Character), NEW i \in 1 .. Len(source), CharAt(i) \in Octal
  PROVE  \E r \in 1 .. 3 : IsRun(source, i, r, 3, Octal) /\ DigitsOfEscape(i) = SubSeq(source, i, i + r - 1)
<1>1. PICK r \in 0 .. 3 : IsRun(source, i, r, 3, Octal) /\ Min({EndOfRun(i, Octal), i + 3}) = i + r
  <2>1. i \in 1 .. Len(source) + 1 /\ 3 \in Nat
    OBVIOUS
  <2> QED BY <2>1, BoundedRun
<1>2. source[i] \in Octal
  BY CharAtIs
<1>3. r # 0
  BY <1>1, <1>2 DEF IsRun
<1>4. DigitsOfEscape(i) = SubSeq(source, i, (i + r) - 1)
  BY <1>1 DEF DigitsOfEscape
<1> QED BY <1>1, <1>3, <1>4

LEMMA HexRun ==
  ASSUME source \in Seq(Character), NEW i \in 1 .. Len(source), CharAt(i) \notin Octal
  PROVE  \E r \in 0 .. MostDigits(CharAt(i)) :
            /\ IsRun(source, i + 1, r, MostDigits(CharAt(i)), Hex)
            /\ DigitsOfEscape(i) = SubSeq(source, i + 1, i + r)
<1> DEFINE most == MostDigits(CharAt(i))
<1>1. most \in Nat
  BY DEF MostDigits
<1>2. i + 1 \in 1 .. Len(source) + 1
  OBVIOUS
<1> HIDE DEF most
<1>3. PICK r \in 0 .. most : IsRun(source, i + 1, r, most, Hex)
                             /\ Min({EndOfRun(i + 1, Hex), (i + 1) + most}) = (i + 1) + r
  BY <1>1, <1>2, BoundedRun
<1>4. DigitsOfEscape(i) = SubSeq(source, i + 1, Min({EndOfRun(i + 1, Hex), (i + 1) + most}) - 1)
  BY DEF DigitsOfEscape, most
<1>5. ((i + 1) + r) - 1 = i + r
  OBVIOUS
<1> QED BY <1>3, <1>4, <1>5 DEF most

(* The numbers that an escape may spell.                                   *)
LEMMA NumeralType ==
  ASSUME NEW base \in Base, NEW digits \in Seq(Hex)
  PROVE  Numeral(base, digits) \in Nat
<1>1. PICK f : Valued(f, base, digits) /\ Numeral(base, digits) = f[Len(digits)]
  BY NumeralIs
<1>2. Len(digits) \in 0 .. Len(digits)
  OBVIOUS
<1> QED BY <1>1, <1>2 DEF Valued

LEMMA TwoHexDigits ==
  ASSUME NEW digits \in Seq(Hex), Len(digits) \in 1 .. 2
  PROVE  Numeral(16, digits) \in Bytes
<1>1. 16 \in Base
  BY DEF Base
<1>2. PICK f : Valued(f, 16, digits) /\ Numeral(16, digits) = f[Len(digits)]
  BY <1>1, NumeralIs
<1> DEFINE d(k) == HexValue[digits[k]]
<1>3. \A k \in 1 .. Len(digits) : d(k) \in 0 .. 15
  <2>1. \A k \in 1 .. Len(digits) : digits[k] \in Hex
    OBVIOUS
  <2> QED BY <2>1, HexValueIs
<1>4. f[0] = 0 /\ \A k \in 1 .. Len(digits) : f[k] = f[k - 1] * 16 + d(k)
  BY <1>2 DEF Valued
<1> HIDE DEF d
<1>5. f[1] = f[0] * 16 + d(1) /\ d(1) \in 0 .. 15
  <2>1. 1 \in 1 .. Len(digits)
    OBVIOUS
  <2> QED BY <1>3, <1>4, <2>1
<1>6. f[1] \in 0 .. 15
  BY <1>4, <1>5
<1>7. CASE Len(digits) = 1
  <2>1. Numeral(16, digits) = f[1]
    BY <1>2, <1>7
  <2>2. f[1] \in Bytes
    BY <1>6 DEF Bytes
  <2> QED BY <2>1, <2>2
<1>8. CASE Len(digits) = 2
  <2>1. f[2] = f[1] * 16 + d(2) /\ d(2) \in 0 .. 15
    <3>1. 2 \in 1 .. Len(digits) /\ 2 - 1 = 1
      BY <1>8
    <3> QED BY <1>3, <1>4, <3>1
  <2> DEFINE x == f[1]
             y == d(2)
  <2>2. x \in 0 .. 15 /\ y \in 0 .. 15 /\ f[2] = x * 16 + y
    BY <1>6, <2>1
  <2> HIDE DEF x, y
  <2>3. x * 16 + y \in Bytes
    BY <2>2 DEF Bytes
  <2>4. Numeral(16, digits) = f[2]
    BY <1>2, <1>8
  <2> QED BY <2>2, <2>3, <2>4
<1> QED BY <1>7, <1>8

LEMMA Utf8Type ==
  ASSUME NEW p \in Nat, p <= 1114111
  PROVE  Utf8(p) \in Seq(Bytes)
<1> DEFINE Low(shift) == 128 + ((p \div shift) % 64)
<1>1. Low(1) \in Bytes /\ Low(64) \in Bytes /\ Low(4096) \in Bytes
  BY SMT DEF Bytes
<1>2. p < 128 => p \in Bytes
  BY SMT DEF Bytes
<1>3. p < 2048 => 192 + (p \div 64) \in Bytes
  BY SMT DEF Bytes
<1>4. p < 65536 => 224 + (p \div 4096) \in Bytes
  BY SMT DEF Bytes
<1>5. 240 + (p \div 262144) \in Bytes
  BY SMT DEF Bytes
<1>6. Utf8(p) = IF p < 128 THEN <<p>>
                ELSE IF p < 2048 THEN <<192 + (p \div 64), Low(1)>>
                ELSE IF p < 65536 THEN <<224 + (p \div 4096), Low(64), Low(1)>>
                ELSE <<240 + (p \div 262144), Low(4096), Low(64), Low(1)>>
  BY SMT DEF Utf8
<1> HIDE DEF Low
<1>7. \A b1, b2, b3, b4 \in Bytes :
         <<b1>> \in Seq(Bytes) /\ <<b1, b2>> \in Seq(Bytes) /\ <<b1, b2, b3>> \in Seq(Bytes)
         /\ <<b1, b2, b3, b4>> \in Seq(Bytes)
  OBVIOUS
<1>8. CASE p < 128
  BY <1>2, <1>6, <1>7, <1>8, SMT
<1>9. CASE ~(p < 128) /\ p < 2048
  BY <1>1, <1>3, <1>6, <1>7, <1>9, SMT
<1>10. CASE ~(p < 2048) /\ p < 65536
  BY <1>1, <1>4, <1>6, <1>7, <1>10, SMT
<1>11. CASE ~(p < 65536)
  BY <1>1, <1>5, <1>6, <1>7, <1>11, SMT
<1> QED BY <1>8, <1>9, <1>10, <1>11, SMT

-----------------------------------------------------------------------------
(* Elements of string literals.                                            *)

EscapeLetter == DOMAIN CharEscape

LEMMA EscapeLetters ==
  /\ EscapeLetter = Table({3, 8, 32, 61, 66, 67, 71, 79, 83, 85, 87})
  /\ EscapeLetter \cap Octal = {}
  /\ "x" \notin EscapeLetter \cup Octal /\ "u" \notin EscapeLetter \cup Octal /\ "U" \notin EscapeLetter \cup Octal
  /\ "x" # "u" /\ "x" # "U" /\ "u" # "U"
<1> DEFINE P == {3, 8, 32, 61, 66, 67, 71, 79, 83, 85, 87}
<1>1. EscapeLetter = {"a", "b", "f", "n", "r", "t", "v", "\\", "'", DoubleQuote, "?"}
  BY Zenon DEF EscapeLetter, CharEscape, DoubleQuote
<1>2. EscapeLetter = Table(P)
  BY <1>1, PrintableIs DEF Table
<1>3. Octal = Table(17 .. 24) /\ Table({89}) = {"x"} /\ Table({86}) = {"u"} /\ Table({54}) = {"U"}
  BY PrintableIs, OctalPlaces DEF Table
<1>4. Table({}) = {}
  BY DEF Table
<1>5. P \in SUBSET Places /\ (17 .. 24) \in SUBSET Places
      /\ {89} \in SUBSET Places /\ {86} \in SUBSET Places /\ {54} \in SUBSET Places
  BY DEF Places
<1>6. P \cap (17 .. 24) = {} /\ {89} \cap P = {} /\ {86} \cap P = {} /\ {54} \cap P = {}
      /\ {89} \cap (17 .. 24) = {} /\ {86} \cap (17 .. 24) = {} /\ {54} \cap (17 .. 24) = {}
  OBVIOUS
<1> HIDE DEF P
<1>7. Table(P) \cap Table(17 .. 24) = {}
  BY <1>4, <1>5, <1>6, TablesMeet
<1>8. Table({89}) \cap Table(P) = {} /\ Table({89}) \cap Table(17 .. 24) = {}
  BY <1>4, <1>5, <1>6, TablesMeet
<1>9. Table({86}) \cap Table(P) = {} /\ Table({86}) \cap Table(17 .. 24) = {}
  BY <1>4, <1>5, <1>6, TablesMeet
<1>10. Table({54}) \cap Table(P) = {} /\ Table({54}) \cap Table(17 .. 24) = {}
  BY <1>4, <1>5, <1>6, TablesMeet
<1>11. "x" # "u" /\ "x" # "U" /\ "u" # "U"
  OBVIOUS
<1>12. EscapeLetter \cap Octal = {}
  BY <1>2, <1>3, <1>7
<1>13. "x" \notin EscapeLetter \cup Octal
  BY <1>2, <1>3, <1>8
<1>14. "u" \notin EscapeLetter \cup Octal
  BY <1>2, <1>3, <1>9
<1>15. "U" \notin EscapeLetter \cup Octal
  BY <1>2, <1>3, <1>10
<1> QED BY <1>2, <1>11, <1>12, <1>13, <1>14, <1>15, Zenon DEF P

LEMMA LetterIsCharacter ==
  EscapeLetter \subseteq Character /\ EscapeLetter \cap Newline = {} /\ Nul \notin EscapeLetter
<1> DEFINE P == {3, 8, 32, 61, 66, 67, 71, 79, 83, 85, 87}
<1>1. P \in SUBSET Places
  BY DEF Places
<1>2. EscapeLetter = Table(P)
  BY EscapeLetters
<1> HIDE DEF P
<1> QED BY <1>1, <1>2, TableIsCharacter

LEMMA CharEscapeType ==
  ASSUME NEW c \in EscapeLetter
  PROVE  CharEscape[c] \in Bytes
<1> DEFINE S == {"a", "b", "f", "n", "r", "t", "v", "\\", "'", "\"", "?"}
           F(x) == CASE x = "a" -> 7 [] x = "b" -> 8 [] x = "f" -> 12 [] x = "n" -> 10 [] x = "r" -> 13
                     [] x = "t" -> 9 [] x = "v" -> 11 [] OTHER -> Byte[x]
<1>1. CharEscape = [x \in S |-> F(x)] /\ c \in S
  BY Zenon DEF CharEscape, EscapeLetter
<1>2. 7 \in Bytes /\ 8 \in Bytes /\ 12 \in Bytes /\ 10 \in Bytes /\ 13 \in Bytes /\ 9 \in Bytes /\ 11 \in Bytes
  BY DEF Bytes
<1>3. Byte[c] \in Bytes
  <2>1. c \in DOMAIN Byte
    BY LetterIsCharacter, CharacterIs
  <2> QED BY <2>1, ByteType
<1> HIDE DEF S
<1>4. F(c) \in Bytes
  BY <1>2, <1>3, Zenon
<1> HIDE DEF F
<1> QED BY <1>1, <1>4

LEMMA EscapeCases ==
  ASSUME NEW c, NEW digits
  PROVE  /\ c \in EscapeLetter => EscapeWith(c, digits) = [bytes |-> <<CharEscape[c]>>, length |-> 2]
         /\ c \in Octal =>
              EscapeWith(c, digits) = IF Numeral(8, digits) <= 255
                                      THEN [bytes |-> <<Numeral(8, digits)>>, length |-> 1 + Len(digits)]
                                      ELSE Malformed
         /\ c = "x" =>
              EscapeWith(c, digits) = IF digits # <<>>
                                      THEN [bytes |-> <<Numeral(16, digits)>>, length |-> 2 + Len(digits)]
                                      ELSE Malformed
         /\ c \in {"u", "U"} =>
              EscapeWith(c, digits) = IF Len(digits) = MostDigits(c) /\ Scalar(Numeral(16, digits))
                                      THEN [bytes |-> Utf8(Numeral(16, digits)), length |-> 2 + Len(digits)]
                                      ELSE Malformed
         /\ c \notin EscapeLetter \cup Octal \cup {"x", "u", "U"} => EscapeWith(c, digits) = Malformed
<1>1. EscapeWith(c, digits) =
        CASE c \in EscapeLetter -> [bytes |-> <<CharEscape[c]>>, length |-> 2]
          [] c \in Octal /\ Numeral(8, digits) <= 255 ->
                [bytes |-> <<Numeral(8, digits)>>, length |-> 1 + Len(digits)]
          [] c = "x" /\ digits # <<>> -> [bytes |-> <<Numeral(16, digits)>>, length |-> 2 + Len(digits)]
          [] c \in {"u", "U"} /\ Len(digits) = MostDigits(c) /\ Scalar(Numeral(16, digits)) ->
                [bytes |-> Utf8(Numeral(16, digits)), length |-> 2 + Len(digits)]
          [] OTHER -> Malformed
  BY Zenon DEF EscapeWith, EscapeLetter
<1>2. c \in EscapeLetter => c \notin Octal \cup {"x", "u", "U"}
  BY EscapeLetters
<1>3. c \in Octal => c \notin EscapeLetter \cup {"x", "u", "U"}
  BY EscapeLetters
<1>4. c = "x" => c \notin EscapeLetter \cup Octal \cup {"u", "U"}
  BY EscapeLetters
<1>5. c \in {"u", "U"} => c \notin EscapeLetter \cup Octal \cup {"x"}
  BY EscapeLetters
<1>6. c \in EscapeLetter => EscapeWith(c, digits) = [bytes |-> <<CharEscape[c]>>, length |-> 2]
  BY <1>1, <1>2, Zenon
<1>7. c \in Octal =>
              EscapeWith(c, digits) = IF Numeral(8, digits) <= 255
                                      THEN [bytes |-> <<Numeral(8, digits)>>, length |-> 1 + Len(digits)]
                                      ELSE Malformed
  BY <1>1, <1>3, Zenon
<1>8. c = "x" =>
              EscapeWith(c, digits) = IF digits # <<>>
                                      THEN [bytes |-> <<Numeral(16, digits)>>, length |-> 2 + Len(digits)]
                                      ELSE Malformed
  BY <1>1, <1>4, Zenon
<1>9. c \in {"u", "U"} =>
              EscapeWith(c, digits) = IF Len(digits) = MostDigits(c) /\ Scalar(Numeral(16, digits))
                                      THEN [bytes |-> Utf8(Numeral(16, digits)), length |-> 2 + Len(digits)]
                                      ELSE Malformed
  BY <1>1, <1>5, Zenon
<1>10. c \notin EscapeLetter \cup Octal \cup {"x", "u", "U"} => EscapeWith(c, digits) = Malformed
  BY <1>1, Zenon
<1> QED BY <1>6, <1>7, <1>8, <1>9, <1>10

(* The shortest encoding of a code point is the one of UTF-8.              *)
Limit == <<128, 2048, 65536, 2097152>>
Lead == <<0, 192, 224, 240>>
Bit(p, k) == p \div <<1, 64, 4096, 262144>>[k + 1]
Spread(p, n) == [i \in 1 .. n |-> IF i = 1 THEN Lead[n] + Bit(p, n - 1) ELSE 128 + (Bit(p, n - i) % 64)]
Shortest(p, n) == p < Limit[n] /\ \A m \in 1 .. n - 1 : p >= <<128, 2048, 65536>>[m]

LEMMA EncodedIs ==
  ASSUME NEW p, NEW n \in 1 .. 4, Shortest(p, n), \A m \in 1 .. 4 : Shortest(p, m) => m = n
  PROVE  Encoded(p) = Spread(p, n)
<1>1. (CHOOSE m \in 1 .. 4 : Shortest(p, m)) = n
  <2> DEFINE m == CHOOSE m \in 1 .. 4 : Shortest(p, m)
  <2>1. m \in 1 .. 4 /\ Shortest(p, m)
    BY Zenon
  <2> HIDE DEF m
  <2> QED BY <2>1, Zenon DEF m
<1>2. Encoded(p) = Spread(p, CHOOSE m \in 1 .. 4 : Shortest(p, m))
  BY SMT DEF Encoded, Spread, Shortest, Limit, Lead, Bit
<1> QED BY <1>1, <1>2, Zenon

LEMMA ShortestIs ==
  ASSUME NEW p \in Nat, p <= 1114111
  PROVE  /\ Shortest(p, 1) <=> p < 128
         /\ Shortest(p, 2) <=> 128 <= p /\ p < 2048
         /\ Shortest(p, 3) <=> 2048 <= p /\ p < 65536
         /\ Shortest(p, 4) <=> 65536 <= p
<1> DEFINE Floor == <<128, 2048, 65536>>
<1>1. Limit[1] = 128 /\ Limit[2] = 2048 /\ Limit[3] = 65536 /\ Limit[4] = 2097152
  BY SMT DEF Limit
<1>2. Floor[1] = 128 /\ Floor[2] = 2048 /\ Floor[3] = 65536
  BY SMT
<1>3. \A n : Shortest(p, n) <=> p < Limit[n] /\ \A m \in 1 .. n - 1 : p >= Floor[m]
  BY SMT DEF Shortest
<1> HIDE DEF Floor
<1>4. Shortest(p, 1) <=> p < 128
  <2>1. (\A m \in 1 .. 1 - 1 : p >= Floor[m]) <=> TRUE
    BY SMT
  <2> QED BY <1>1, <1>3, <2>1, SMT
<1>5. Shortest(p, 2) <=> 128 <= p /\ p < 2048
  <2>1. (\A m \in 1 .. 2 - 1 : p >= Floor[m]) <=> p >= Floor[1]
    BY SMT
  <2> QED BY <1>1, <1>2, <1>3, <2>1, SMT
<1>6. Shortest(p, 3) <=> 2048 <= p /\ p < 65536
  <2>1. (\A m \in 1 .. 3 - 1 : p >= Floor[m]) <=> p >= Floor[1] /\ p >= Floor[2]
    BY SMT
  <2> QED BY <1>1, <1>2, <1>3, <2>1, SMT
<1>7. Shortest(p, 4) <=> 65536 <= p
  <2>1. (\A m \in 1 .. 4 - 1 : p >= Floor[m]) <=> p >= Floor[1] /\ p >= Floor[2] /\ p >= Floor[3]
    BY SMT
  <2> QED BY <1>1, <1>2, <1>3, <2>1, SMT
<1> QED BY <1>4, <1>5, <1>6, <1>7, SMT

LEMMA Utf8Is ==
  ASSUME NEW p \in Nat, p <= 1114111
  PROVE  Encoded(p) = Utf8(p) /\ Utf8(p) # <<>>
<1> DEFINE Low(shift) == 128 + ((p \div shift) % 64)
           S(n) == Spread(p, n)
<1>1. Lead[1] = 0 /\ Lead[2] = 192 /\ Lead[3] = 224 /\ Lead[4] = 240
  BY SMT DEF Lead
<1>2. Bit(p, 0) = p \div 1 /\ Bit(p, 1) = p \div 64 /\ Bit(p, 2) = p \div 4096 /\ Bit(p, 3) = p \div 262144
  <2> DEFINE Place == <<1, 64, 4096, 262144>>
  <2>1. Place[0 + 1] = 1 /\ Place[1 + 1] = 64 /\ Place[2 + 1] = 4096 /\ Place[3 + 1] = 262144
    BY SMT
  <2> HIDE DEF Place
  <2>2. \A k : Bit(p, k) = p \div Place[k + 1]
    BY SMT DEF Bit, Place
  <2> QED BY <2>1, <2>2, SMT
<1>3. p \div 1 = p
  BY SMT
<1>4. \A n \in 1 .. 4 : S(n) = [i \in 1 .. n |-> IF i = 1 THEN Lead[n] + Bit(p, n - 1) ELSE 128 + (Bit(p, n - i) % 64)]
  BY SMT DEF Spread
<1>5. Encoded(p) = IF p < 128 THEN S(1) ELSE IF p < 2048 THEN S(2) ELSE IF p < 65536 THEN S(3) ELSE S(4)
  <2>1. /\ Shortest(p, 1) <=> p < 128
        /\ Shortest(p, 2) <=> 128 <= p /\ p < 2048
        /\ Shortest(p, 3) <=> 2048 <= p /\ p < 65536
        /\ Shortest(p, 4) <=> 65536 <= p
    BY ShortestIs, SMT
  <2>2. ASSUME NEW n \in 1 .. 4, Shortest(p, n)
        PROVE  Encoded(p) = S(n)
    <3>1. ASSUME NEW m \in 1 .. 4, Shortest(p, m)
          PROVE  m = n
      <4>1. (m = 1 \/ m = 2 \/ m = 3 \/ m = 4) /\ (n = 1 \/ n = 2 \/ n = 3 \/ n = 4)
        BY SMT
      <4> QED BY <2>1, <2>2, <3>1, <4>1, SMT
    <3> QED BY <2>2, <3>1, EncodedIs, SMT
  <2> HIDE DEF S
  <2> QED BY <2>1, <2>2, SMT
<1> HIDE DEF S
<1>6. CASE p < 128
  <2>1. S(1) = [i \in 1 .. 1 |-> p]
    BY <1>1, <1>2, <1>3, <1>4, SMT
  <2>2. [i \in 1 .. 1 |-> p] = <<p>>
    BY SMT
  <2> QED BY <1>5, <1>6, <2>1, <2>2, SMT DEF Utf8
<1>7. CASE ~(p < 128) /\ p < 2048
  <2> DEFINE T == <<192 + (p \div 64), Low(1)>>
  <2>1. S(2) = [i \in 1 .. 2 |-> IF i = 1 THEN 192 + (p \div 64) ELSE Low(1)]
    BY <1>1, <1>2, <1>4, SMT
  <2>2. S(2) = T
    BY <2>1, SMT
  <2> QED BY <1>5, <1>7, <2>2, SMT DEF Utf8
<1>8. CASE ~(p < 2048) /\ p < 65536
  <2> DEFINE T == <<224 + (p \div 4096), Low(64), Low(1)>>
  <2>1. S(3) = [i \in 1 .. 3 |-> IF i = 1 THEN 224 + (p \div 4096) ELSE IF i = 2 THEN Low(64) ELSE Low(1)]
    BY <1>1, <1>2, <1>4, SMT
  <2>2. S(3) = T
    BY <2>1, SMT
  <2> QED BY <1>5, <1>8, <2>2, SMT DEF Utf8
<1>9. CASE ~(p < 65536)
  <2> DEFINE T == <<240 + (p \div 262144), Low(4096), Low(64), Low(1)>>
  <2>1. S(4) = [i \in 1 .. 4 |-> IF i = 1 THEN 240 + (p \div 262144)
                                 ELSE IF i = 2 THEN Low(4096) ELSE IF i = 3 THEN Low(64) ELSE Low(1)]
    BY <1>1, <1>2, <1>4, SMT
  <2>2. S(4) = T
    BY <2>1, SMT
  <2> QED BY <1>5, <1>9, <2>2, SMT DEF Utf8
<1> QED BY <1>6, <1>7, <1>8, <1>9, SMT

LEMMA ScalarIs ==
  ASSUME NEW p \in Nat
  PROVE  /\ Scalar(p) <=> IsCodePoint(p)
         /\ Scalar(p) => Encoded(p) = Utf8(p) /\ Utf8(p) \in Seq(Bytes) /\ Utf8(p) # <<>>
<1>1. Scalar(p) <=> IsCodePoint(p)
  BY SMT DEF Scalar, IsCodePoint
<1>2. Scalar(p) => p <= 1114111
  BY SMT DEF Scalar
<1> QED BY <1>1, <1>2, Utf8Is, Utf8Type, SMT

-----------------------------------------------------------------------------
(* The elements that the grammar sees.                                     *)

Within(s, i, j, chars) == \A k \in i .. j : s[k] \in chars

LEMMA AllInIs ==
  ASSUME NEW s, NEW i \in Nat, NEW j \in Nat, NEW A, \A k \in i .. j : s[k] \in A, NEW chars
  PROVE  AllIn(SubSeq(s, i, j), chars) <=> Within(s, i, j, chars)
<1> DEFINE t == SubSeq(s, i, j)
           n == IF i <= j THEN (j - i) + 1 ELSE 0
<1>1. t \in Seq(A) /\ Len(t) = n /\ \A k \in 1 .. (j - i) + 1 : t[k] = s[(i + k) - 1]
  BY SubSeqProperties
<1> HIDE DEF t
<1>2. DOMAIN t = 1 .. n
  BY <1>1
<1>3. ToSet(t) = {t[k] : k \in 1 .. n}
  BY <1>2 DEF ToSet
<1>4. \A k \in 1 .. n : t[k] = s[(i + k) - 1] /\ (i + k) - 1 \in i .. j
  BY <1>1
<1>5. \A k \in i .. j : (k - i) + 1 \in 1 .. n /\ (i + ((k - i) + 1)) - 1 = k
  OBVIOUS
<1> HIDE DEF n
<1>6. \A k \in i .. j : t[(k - i) + 1] = s[k]
  BY <1>4, <1>5
<1>7. AllIn(t, chars) <=> \A k \in 1 .. n : t[k] \in chars
  BY <1>3 DEF AllIn
<1>8. Within(s, i, j, chars) => \A k \in 1 .. n : t[k] \in chars
  BY <1>4 DEF Within
<1>9. (\A k \in 1 .. n : t[k] \in chars) => Within(s, i, j, chars)
  BY <1>5, <1>6 DEF Within
<1> QED BY <1>7, <1>8, <1>9 DEF t

LetterSpan(s, i, j) == j = i + 1 /\ s[i + 1] \in EscapeLetter
OctalSpan(s, i, j) == j - i \in 1 .. 3 /\ Within(s, i + 1, j, Octal)
HexSpan(s, i, j) == j - i \in 2 .. 3 /\ s[i + 1] = "x" /\ Within(s, i + 2, j, Hex)
UnicodeSpan(s, i, j) ==
    /\ j > i /\ Within(s, i + 2, j, Hex)
    /\ (s[i + 1] = "u" /\ j - i = 5) \/ (s[i + 1] = "U" /\ j - i = 9)
PlainSpan(s, i, j, quote) == j = i /\ s[i] \notin {quote, "\\", Nul} \cup Newline
Span(s, i, j, quote) ==
    \/ PlainSpan(s, i, j, quote)
    \/ s[i] = "\\" /\ (LetterSpan(s, i, j) \/ OctalSpan(s, i, j) \/ HexSpan(s, i, j) \/ UnicodeSpan(s, i, j))

LEMMA EscapeTexts ==
  ASSUME NEW s \in Seq(Character), NEW i \in 1 .. Len(s), NEW j \in i + 1 .. Len(s)
  PROVE  /\ IsCharEscape(SubSeq(s, i + 1, j)) <=> LetterSpan(s, i, j)
         /\ IsOctalEscape(SubSeq(s, i + 1, j)) <=> OctalSpan(s, i, j)
         /\ IsHexEscape(SubSeq(s, i + 1, j)) <=> HexSpan(s, i, j)
         /\ IsUnicodeEscape(SubSeq(s, i + 1, j)) <=> UnicodeSpan(s, i, j)
<1> DEFINE e == SubSeq(s, i + 1, j)
           n == Len(s)
<1>1. n \in Nat /\ i \in Nat /\ j \in Nat /\ i + 1 <= j /\ j <= n /\ i >= 1
  OBVIOUS
<1>2. \A k \in i + 1 .. j : s[k] \in Character
  BY <1>1
<1>3. e \in Seq(Character) /\ Len(e) = j - i /\ \A k \in 1 .. j - i : e[k] = s[i + k]
  BY <1>1, <1>2, SubSeqProperties
<1>4. Tail(e) = SubSeq(s, i + 2, j)
  BY <1>1
<1>5. AllIn(e, Octal) <=> Within(s, i + 1, j, Octal)
  <2>1. i + 1 \in Nat
    BY <1>1
  <2> QED BY <1>1, <1>2, <2>1, AllInIs
<1>6. AllIn(Tail(e), Hex) <=> Within(s, i + 2, j, Hex)
  <2>1. \A k \in i + 2 .. j : s[k] \in Character
    BY <1>1, <1>2
  <2>2. i + 2 \in Nat
    BY <1>1
  <2>3. AllIn(SubSeq(s, i + 2, j), Hex) <=> Within(s, i + 2, j, Hex)
    BY <1>1, <2>1, <2>2, AllInIs
  <2> QED BY <1>4, <2>3
<1> HIDE DEF e, n
<1>7. e[1] = s[i + 1] /\ e # <<>> /\ j - i \in Nat
  BY <1>1, <1>3
<1>8. IsCharEscape(e) <=> LetterSpan(s, i, j)
  BY <1>1, <1>3, <1>7 DEF IsCharEscape, LetterSpan, EscapeLetter
<1>9. IsOctalEscape(e) <=> OctalSpan(s, i, j)
  BY <1>3, <1>5 DEF IsOctalEscape, OctalSpan
<1>10. IsHexEscape(e) <=> HexSpan(s, i, j)
  BY <1>3, <1>6, <1>7 DEF IsHexEscape, HexSpan
<1>11. IsUnicodeEscape(e) <=> UnicodeSpan(s, i, j)
  <2>1. IsUnicodeEscape(e) <=> AllIn(Tail(e), Hex) /\ <<s[i + 1], j - i>> \in {<<"u", 5>>, <<"U", 9>>}
    BY <1>3, <1>7 DEF IsUnicodeEscape
  <2>2. <<s[i + 1], j - i>> \in {<<"u", 5>>, <<"U", 9>>}
        <=> (s[i + 1] = "u" /\ j - i = 5) \/ (s[i + 1] = "U" /\ j - i = 9)
    OBVIOUS
  <2> QED BY <1>1, <1>6, <2>1, <2>2 DEF UnicodeSpan
<1> QED BY <1>8, <1>9, <1>10, <1>11 DEF e

LEMMA ElementTexts ==
  ASSUME NEW s \in Seq(Character), NEW i \in 1 .. Len(s), NEW j \in i .. Len(s), NEW quote
  PROVE  IsElement(SubSeq(s, i, j), quote) <=> Span(s, i, j, quote)
<1> DEFINE t == SubSeq(s, i, j)
           n == Len(s)
<1>1. n \in Nat /\ i \in Nat /\ j \in Nat /\ i <= j /\ j <= n /\ i >= 1
  OBVIOUS
<1>2. \A k \in i .. j : s[k] \in Character
  BY <1>1
<1>3. t \in Seq(Character) /\ Len(t) = (j - i) + 1 /\ t[1] = s[i]
  BY <1>1, <1>2, SubSeqProperties
<1>4. Tail(t) = SubSeq(s, i + 1, j)
  BY <1>1
<1> HIDE DEF t, n
<1>5. CASE j = i
  <2>1. Len(t) = 1 /\ ~(Len(t) > 1)
    BY <1>1, <1>3, <1>5
  <2>2. ~LetterSpan(s, i, j) /\ ~OctalSpan(s, i, j) /\ ~HexSpan(s, i, j) /\ ~UnicodeSpan(s, i, j)
    BY <1>1, <1>5 DEF LetterSpan, OctalSpan, HexSpan, UnicodeSpan
  <2> QED BY <1>3, <1>5, <2>1, <2>2 DEF IsElement, Span, PlainSpan, t
<1>6. CASE j # i
  <2>1. Len(t) # 1 /\ Len(t) > 1 /\ j \in i + 1 .. Len(s)
    BY <1>1, <1>3, <1>6 DEF n
  <2>2. IsEscape(Tail(t)) <=> LetterSpan(s, i, j) \/ OctalSpan(s, i, j) \/ HexSpan(s, i, j) \/ UnicodeSpan(s, i, j)
    BY <1>4, <2>1, EscapeTexts DEF IsEscape
  <2>3. ~PlainSpan(s, i, j, quote)
    BY <1>6 DEF PlainSpan
  <2> QED BY <1>3, <2>1, <2>2, <2>3 DEF IsElement, Span, t
<1> QED BY <1>5, <1>6

Longest(s, i, e, quote) == Span(s, i, e, quote) /\ \A j \in e + 1 .. Len(s) : ~Span(s, i, j, quote)

LEMMA ElementEndIs ==
  ASSUME NEW s \in Seq(Character), NEW i \in 1 .. Len(s), NEW quote
  PROVE  /\ \A e \in i .. Len(s) : Longest(s, i, e, quote) => ElementEnd(s, i, quote) = e
         /\ (\A j \in i .. Len(s) : ~Span(s, i, j, quote)) => ElementEnd(s, i, quote) = 0
<1> DEFINE n == Len(s)
           last == Min({n, i + 9})
           Ends == {j \in i .. last : IsElement(SubSeq(s, i, j), quote)}
           M == {0} \cup Ends
<1>1. n \in Nat /\ i \in Nat /\ 1 <= i /\ i <= n
  OBVIOUS
<1>2. last \in {n, i + 9} /\ last <= n /\ last <= i + 9
  <2>1. {n, i + 9} \subseteq Nat /\ {n, i + 9} # {}
    BY <1>1
  <2> QED BY <2>1, LeastOf
<1> HIDE DEF last
<1>3. \A j \in i .. last : j \in i .. Len(s) /\ j \in 0 .. n
  BY <1>1, <1>2
<1>4. \A j \in i .. last : IsElement(SubSeq(s, i, j), quote) <=> Span(s, i, j, quote)
  BY <1>3, ElementTexts
<1>5. Ends = {j \in i .. last : Span(s, i, j, quote)}
  BY <1>4
<1>6. ElementEnd(s, i, quote) = Max(M)
  BY DEF ElementEnd, last
<1> HIDE DEF Ends
<1>7. M \subseteq 0 .. n /\ M # {}
  BY <1>1, <1>3, <1>5
<1>8. Max(M) \in M /\ \A y \in M : Max(M) >= y
  <2> HIDE DEF M, n
  <2> QED BY <1>1, <1>7, GreatestNatural
<1>9. ASSUME NEW e \in i .. Len(s), Longest(s, i, e, quote)
      PROVE  Max(M) = e
  <2>1. e <= i + 9
    BY <1>1, <1>9 DEF Longest, Span, PlainSpan, LetterSpan, OctalSpan, HexSpan, UnicodeSpan
  <2>2. e \in Ends
    BY <1>1, <1>2, <1>5, <1>9, <2>1 DEF Longest
  <2>3. \A j \in Ends : j \in i .. Len(s) /\ ~(j > e)
    <3>1. \A j \in Ends : j \in i .. Len(s) /\ Span(s, i, j, quote)
      BY <1>3, <1>5
    <3> QED BY <1>1, <1>9, <3>1 DEF Longest
  <2>4. Max(M) >= e /\ (Max(M) = 0 \/ Max(M) \in Ends)
    BY <1>8, <2>2
  <2> QED BY <1>1, <2>3, <2>4
<1>10. ASSUME \A j \in i .. Len(s) : ~Span(s, i, j, quote)
       PROVE  Max(M) = 0
  BY <1>3, <1>5, <1>8, <1>10
<1> QED BY <1>6, <1>9, <1>10

(* The bytes of an element.                                                *)
LEMMA ElementBytesIs ==
  ASSUME NEW s \in Seq(Character), NEW i \in 1 .. Len(s), NEW j \in i .. Len(s)
  PROVE  LET t == SubSeq(s, i, j)
             e == SubSeq(s, i + 1, j)
             d == SubSeq(s, i + 2, j)
         IN  /\ j = i => ElementBytes(t) = <<Byte[s[i]]>>
             /\ LetterSpan(s, i, j) => ElementBytes(t) = <<CharEscape[s[i + 1]]>>
             /\ OctalSpan(s, i, j) =>
                  ElementBytes(t) = IF Numeral(8, e) < 256 THEN <<Numeral(8, e)>> ELSE <<>>
             /\ HexSpan(s, i, j) => ElementBytes(t) = <<Numeral(16, d)>>
             /\ UnicodeSpan(s, i, j) =>
                  ElementBytes(t) = IF IsCodePoint(Numeral(16, d)) THEN Encoded(Numeral(16, d)) ELSE <<>>
<1> DEFINE t == SubSeq(s, i, j)
           e == SubSeq(s, i + 1, j)
           d == SubSeq(s, i + 2, j)
           n == Len(s)
<1>1. n \in Nat /\ i \in Nat /\ j \in Nat /\ i <= j /\ j <= n /\ i >= 1
  OBVIOUS
<1>2. \A k \in i .. j : s[k] \in Character
  BY <1>1
<1>3. t \in Seq(Character) /\ Len(t) = (j - i) + 1 /\ t[1] = s[i] /\ (j > i => t[2] = s[i + 1])
  BY <1>1, <1>2, SubSeqProperties
<1>4. Tail(t) = e
  BY <1>1
<1>5. j > i => SubSeq(t, 3, Len(t)) = d
  BY <1>1
<1> HIDE DEF t, n, e, d
<1>6. ElementBytes(t) =
        CASE Len(t) = 1 -> <<Byte[t[1]]>>
          [] IsCharEscape(e) -> <<CharEscape[t[2]]>>
          [] IsOctalEscape(e) -> IF Numeral(8, e) < 256 THEN <<Numeral(8, e)>> ELSE <<>>
          [] IsHexEscape(e) -> <<Numeral(16, SubSeq(t, 3, Len(t)))>>
          [] OTHER -> IF IsCodePoint(Numeral(16, SubSeq(t, 3, Len(t))))
                      THEN Encoded(Numeral(16, SubSeq(t, 3, Len(t)))) ELSE <<>>
  BY <1>4, Zenon DEF ElementBytes
<1>7. CASE j = i
  <2>1. Len(t) = 1 /\ ~LetterSpan(s, i, j) /\ ~OctalSpan(s, i, j) /\ ~HexSpan(s, i, j) /\ ~UnicodeSpan(s, i, j)
    BY <1>1, <1>3, <1>7 DEF LetterSpan, OctalSpan, HexSpan, UnicodeSpan
  <2>2. ~IsCharEscape(e) /\ ~IsOctalEscape(e) /\ ~IsHexEscape(e)
    <3>1. Len(e) = 0
      BY <1>1, <1>7 DEF e
    <3> QED BY <3>1 DEF IsCharEscape, IsOctalEscape, IsHexEscape
  <2>3. ElementBytes(t) = <<Byte[t[1]]>>
    BY <1>6, <2>1, <2>2, Zenon
  <2> QED BY <1>3, <2>1, <2>3 DEF t
<1>8. CASE j # i
  <2>1. Len(t) # 1 /\ j \in i + 1 .. Len(s)
    BY <1>1, <1>3, <1>8 DEF n
  <2>2. /\ IsCharEscape(e) <=> LetterSpan(s, i, j)
        /\ IsOctalEscape(e) <=> OctalSpan(s, i, j)
        /\ IsHexEscape(e) <=> HexSpan(s, i, j)
        /\ IsUnicodeEscape(e) <=> UnicodeSpan(s, i, j)
    BY <2>1, EscapeTexts DEF e
  <2>3. t[2] = s[i + 1] /\ SubSeq(t, 3, Len(t)) = d
    BY <1>1, <1>3, <1>5, <1>8
  <2>4. LetterSpan(s, i, j) => ~OctalSpan(s, i, j) /\ ~HexSpan(s, i, j) /\ ~UnicodeSpan(s, i, j)
    <3>1. OctalSpan(s, i, j) => s[i + 1] \in Octal
      BY <1>1, <1>8 DEF OctalSpan, Within
    <3> QED BY <3>1, EscapeLetters DEF LetterSpan, HexSpan, UnicodeSpan
  <2>5. OctalSpan(s, i, j) => ~HexSpan(s, i, j) /\ ~UnicodeSpan(s, i, j)
    <3>1. OctalSpan(s, i, j) => s[i + 1] \in Octal
      BY <1>1, <1>8 DEF OctalSpan, Within
    <3> QED BY <3>1, EscapeLetters DEF HexSpan, UnicodeSpan
  <2>6. HexSpan(s, i, j) => ~UnicodeSpan(s, i, j)
    BY EscapeLetters DEF HexSpan, UnicodeSpan
  <2>7. LetterSpan(s, i, j) => ElementBytes(t) = <<CharEscape[s[i + 1]]>>
    BY <1>6, <2>1, <2>2, <2>3, <2>4, Zenon
  <2>8. OctalSpan(s, i, j) => ElementBytes(t) = IF Numeral(8, e) < 256 THEN <<Numeral(8, e)>> ELSE <<>>
    BY <1>6, <2>1, <2>2, <2>4, <2>5, Zenon
  <2>9. HexSpan(s, i, j) => ElementBytes(t) = <<Numeral(16, d)>>
    BY <1>6, <2>1, <2>2, <2>3, <2>4, <2>5, Zenon
  <2>10. UnicodeSpan(s, i, j) =>
           ElementBytes(t) = IF IsCodePoint(Numeral(16, d)) THEN Encoded(Numeral(16, d)) ELSE <<>>
    BY <1>6, <2>1, <2>2, <2>3, <2>4, <2>5, <2>6, Zenon
  <2> QED BY <1>8, <2>7, <2>8, <2>9, <2>10 DEF t, e, d
<1> QED BY <1>7, <1>8

(* What the lexer makes of the element at i, in terms of its longest text. *)
Bad(i, quote) ==
    /\ LiteralElement(i) = Malformed
    /\ \/ ElementEnd(source, i, quote) = 0
       \/ ElementBytes(SubSeq(source, i, ElementEnd(source, i, quote))) = <<>>

Good(i, last, quote) ==
    /\ last \in i .. Len(source)
    /\ Within(source, i, last, Character \ Newline)
    /\ \E bytes \in Seq(Bytes) :
         /\ bytes # <<>>
         /\ LiteralElement(i) = [bytes |-> bytes, length |-> (last - i) + 1]
         /\ ElementEnd(source, i, quote) = last
         /\ ElementBytes(SubSeq(source, i, last)) = bytes

LEMMA PlainElement ==
  ASSUME source \in Seq(Character), NEW i \in 1 .. Len(source), NEW quote,
         source[i] \notin {quote, "\\"} \cup Newline
  PROVE  Good(i, i, quote)
<1>1. CharAt(i) = source[i] /\ CharAt(i) \in Character /\ CharAt(i) # Nul /\ Len(source) \in Nat
  BY CharAtIs
<1>2. LiteralElement(i) = [bytes |-> <<Byte[source[i]]>>, length |-> 1]
  BY <1>1, Zenon DEF LiteralElement
<1>3. Byte[source[i]] \in Bytes
  <2>1. source[i] \in DOMAIN Byte
    BY <1>1 DEF Character
  <2> QED BY <2>1, ByteType
<1>4. Span(source, i, i, quote)
  BY <1>1 DEF Span, PlainSpan
<1>5. Longest(source, i, i, quote)
  BY <1>4 DEF Longest, Span, PlainSpan
<1>6. i \in i .. Len(source)
  OBVIOUS
<1>7. ElementEnd(source, i, quote) = i
  BY <1>5, <1>6, ElementEndIs
<1>8. ElementBytes(SubSeq(source, i, i)) = <<Byte[source[i]]>>
  BY <1>6, ElementBytesIs
<1>9. Within(source, i, i, Character \ Newline)
  BY <1>1 DEF Within
<1> DEFINE bytes == <<Byte[source[i]]>>
<1>10. bytes \in Seq(Bytes) /\ bytes # <<>>
  BY <1>3
<1>11. (i - i) + 1 = 1
  OBVIOUS
<1> HIDE DEF bytes
<1> QED BY <1>2, <1>6, <1>7, <1>8, <1>9, <1>10, <1>11 DEF Good, bytes

LEMMA BrokenLine ==
  ASSUME source \in Seq(Character), NEW i \in 1 .. Len(source), NEW quote, source[i] \in Newline
  PROVE  Bad(i, quote)
<1>1. CharAt(i) = source[i]
  BY CharAtIs
<1>2. source[i] # "\\"
  BY DEF Newline
<1>3. LiteralElement(i) = Malformed
  BY <1>1, <1>2, Zenon DEF LiteralElement
<1>4. \A j \in i .. Len(source) : ~Span(source, i, j, quote)
  BY <1>2 DEF Span, PlainSpan
<1> QED BY <1>3, <1>4, ElementEndIs DEF Bad

(* The character after the backslash decides.                              *)
LEMMA EscapeElement ==
  ASSUME source \in Seq(Character), NEW i \in 1 .. Len(source), source[i] = "\\"
  PROVE  LiteralElement(i) = EscapeWith(CharAt(i + 1), DigitsOfEscape(i + 1))
<1>1. CharAt(i) = "\\"
  BY CharAtIs
<1>2. "\\" \notin Newline \cup {Nul}
  BY DEF Newline, Nul
<1> QED BY <1>1, <1>2, Zenon DEF LiteralElement

LEMMA LetterElement ==
  ASSUME source \in Seq(Character), NEW i \in 1 .. Len(source), NEW quote, quote # "\\", source[i] = "\\",
         CharAt(i + 1) \in EscapeLetter
  PROVE  Good(i, i + 1, quote)
<1>1. EscapeLetter \subseteq Character /\ EscapeLetter \cap Newline = {} /\ Nul \notin EscapeLetter
  BY LetterIsCharacter
<1>2. i + 1 \in i .. Len(source) /\ CharAt(i + 1) = source[i + 1] /\ Len(source) \in Nat
  BY <1>1, CharAtIs
<1>3. LiteralElement(i) = [bytes |-> <<CharEscape[source[i + 1]]>>, length |-> 2]
  BY <1>2, EscapeElement, EscapeCases
<1>4. Span(source, i, i + 1, quote) /\ LetterSpan(source, i, i + 1)
  BY <1>2 DEF Span, LetterSpan
<1>5. ASSUME NEW j \in i + 2 .. Len(source)
      PROVE  ~Span(source, i, j, quote)
  <2>1. source[i + 1] \notin Octal /\ source[i + 1] # "x" /\ source[i + 1] # "u" /\ source[i + 1] # "U"
    BY <1>2, EscapeLetters
  <2>2. j # i /\ j # i + 1 /\ i + 1 \in i + 1 .. j
    OBVIOUS
  <2> QED BY <2>1, <2>2 DEF Span, PlainSpan, LetterSpan, OctalSpan, HexSpan, UnicodeSpan, Within
<1>6. Longest(source, i, i + 1, quote)
  <2>1. (i + 1) + 1 = i + 2
    OBVIOUS
  <2> QED BY <1>4, <1>5, <2>1 DEF Longest
<1>7. ElementEnd(source, i, quote) = i + 1
  BY <1>2, <1>6, ElementEndIs
<1> DEFINE bytes == <<CharEscape[source[i + 1]]>>
<1>8. ElementBytes(SubSeq(source, i, i + 1)) = bytes
  BY <1>2, <1>4, ElementBytesIs
<1>9. bytes \in Seq(Bytes) /\ bytes # <<>>
  BY <1>2, CharEscapeType
<1>10. Within(source, i, i + 1, Character \ Newline)
  <2>1. source[i] \notin Newline /\ source[i] \in Character
    BY DEF Newline
  <2>2. \A k \in i .. i + 1 : k = i \/ k = i + 1
    OBVIOUS
  <2> QED BY <1>1, <1>2, <2>1, <2>2 DEF Within
<1>11. ((i + 1) - i) + 1 = 2
  OBVIOUS
<1> HIDE DEF bytes
<1> QED BY <1>2, <1>3, <1>7, <1>8, <1>9, <1>10, <1>11 DEF Good, bytes

Agreed(i, quote) == Bad(i, quote) \/ \E last \in i .. Len(source) : Good(i, last, quote)

LEMMA RunIsSequence ==
  ASSUME NEW s \in Seq(Character), NEW i \in Nat \ {0}, NEW r \in Nat, NEW most, NEW chars, IsRun(s, i, r, most, chars)
  PROVE  SubSeq(s, i, i + r - 1) \in Seq(chars) /\ Len(SubSeq(s, i, i + r - 1)) = r
<1>1. \A k \in i .. i + r - 1 : s[k] \in chars
  BY DEF IsRun
<1>2. i + r - 1 \in Int /\ (IF i <= i + r - 1 THEN (i + r - 1) - i + 1 ELSE 0) = r
  OBVIOUS
<1> QED BY <1>1, <1>2, SubSeqProperties

LEMMA OctalElement ==
  ASSUME source \in Seq(Character), NEW i \in 1 .. Len(source), NEW quote, quote # "\\", source[i] = "\\",
         CharAt(i + 1) \in Octal
  PROVE  Agreed(i, quote)
<1>1. Octal \subseteq Character /\ Octal \cap Newline = {} /\ Nul \notin Octal /\ Octal \subseteq Hex
  BY WordsAreCharacters
<1>2. i + 1 \in 1 .. Len(source) /\ CharAt(i + 1) = source[i + 1] /\ Len(source) \in Nat
  BY <1>1, CharAtIs
<1>3. PICK r \in 1 .. 3 : IsRun(source, i + 1, r, 3, Octal)
                          /\ DigitsOfEscape(i + 1) = SubSeq(source, i + 1, (i + 1) + r - 1)
  BY <1>2, OctalRun
<1> DEFINE d == SubSeq(source, i + 1, i + r)
           v == Numeral(8, d)
<1>4. (i + 1) + r - 1 = i + r /\ i + r \in i .. Len(source) /\ (i + r) - i = r
  BY <1>2, <1>3 DEF IsRun
<1>5. d \in Seq(Octal) /\ Len(d) = r
  BY <1>2, <1>3, <1>4, RunIsSequence
<1>6. v \in Nat
  <2>1. d \in Seq(Hex) /\ 8 \in Base
    BY <1>1, <1>5, SeqMonotonic DEF Base
  <2> QED BY <2>1, NumeralType
<1>7. LiteralElement(i) = IF v <= 255 THEN [bytes |-> <<v>>, length |-> 1 + r] ELSE Malformed
  <2>1. LiteralElement(i) = EscapeWith(CharAt(i + 1), d)
    BY <1>3, <1>4, EscapeElement
  <2> HIDE DEF d
  <2>2. EscapeWith(CharAt(i + 1), d) =
          IF Numeral(8, d) <= 255 THEN [bytes |-> <<Numeral(8, d)>>, length |-> 1 + Len(d)] ELSE Malformed
    BY EscapeCases
  <2> QED BY <1>5, <2>1, <2>2
<1>8. Within(source, i + 1, i + r, Octal)
  BY <1>3, <1>4 DEF IsRun, Within
<1>9. OctalSpan(source, i, i + r)
  BY <1>4, <1>8 DEF OctalSpan
<1>10. ASSUME NEW j \in (i + r) + 1 .. Len(source)
       PROVE  ~Span(source, i, j, quote)
  <2>1. source[i + 1] \notin EscapeLetter /\ source[i + 1] # "x" /\ source[i + 1] # "u" /\ source[i + 1] # "U"
    BY <1>2, EscapeLetters
  <2>2. j # i
    BY <1>4
  <2>3. ~OctalSpan(source, i, j)
    <3>1. SUFFICES ASSUME OctalSpan(source, i, j) PROVE FALSE
      OBVIOUS
    <3>2. r # 3 /\ (i + 1) + r \in i + 1 .. j /\ (i + 1) + r <= Len(source)
      BY <1>2, <1>3, <3>1 DEF OctalSpan
    <3>3. source[(i + 1) + r] \in Octal
      BY <3>1, <3>2 DEF OctalSpan, Within
    <3> QED BY <1>3, <3>2, <3>3 DEF IsRun
  <2> QED BY <2>1, <2>2, <2>3 DEF Span, PlainSpan, LetterSpan, HexSpan, UnicodeSpan
<1>11. Longest(source, i, i + r, quote)
  BY <1>9, <1>10 DEF Longest, Span
<1>12. ElementEnd(source, i, quote) = i + r
  BY <1>4, <1>11, ElementEndIs
<1>13. ElementBytes(SubSeq(source, i, i + r)) = IF v < 256 THEN <<v>> ELSE <<>>
  BY <1>4, <1>9, ElementBytesIs
<1>14. Within(source, i, i + r, Character \ Newline)
  <2>1. source[i] \notin Newline /\ source[i] \in Character
    BY DEF Newline
  <2>2. \A k \in i .. i + r : k = i \/ k \in i + 1 .. i + r
    OBVIOUS
  <2> QED BY <1>1, <1>8, <2>1, <2>2 DEF Within
<1> HIDE DEF v
<1>15. CASE v <= 255
  <2> DEFINE bytes == <<v>>
  <2>1. bytes \in Seq(Bytes) /\ bytes # <<>> /\ v < 256
    BY <1>6, <1>15 DEF Bytes
  <2>2. LiteralElement(i) = [bytes |-> bytes, length |-> ((i + r) - i) + 1]
    BY <1>4, <1>7, <1>15
  <2>3. ElementBytes(SubSeq(source, i, i + r)) = bytes
    BY <1>13, <2>1
  <2> HIDE DEF bytes
  <2>4. Good(i, i + r, quote)
    BY <1>4, <1>12, <1>14, <2>1, <2>2, <2>3 DEF Good
  <2> QED BY <1>4, <2>4 DEF Agreed
<1>16. CASE ~(v <= 255)
  BY <1>6, <1>7, <1>12, <1>13, <1>16 DEF Agreed, Bad
<1> QED BY <1>15, <1>16

LEMMA HexElement ==
  ASSUME source \in Seq(Character), NEW i \in 1 .. Len(source), NEW quote, quote # "\\", source[i] = "\\",
         CharAt(i + 1) = "x"
  PROVE  Agreed(i, quote)
<1>0. Hex \subseteq Character /\ Hex \cap Newline = {}
  BY WordsAreCharacters
<1>1. "x" \notin EscapeLetter /\ "x" \notin Octal /\ "x" # Nul /\ "x" # "u" /\ "x" # "U"
  BY EscapeLetters DEF Nul
<1>2. i + 1 \in 1 .. Len(source) /\ source[i + 1] = "x" /\ source[i + 1] \in Character /\ Len(source) \in Nat
  BY <1>1, CharAtIs
<1>3. MostDigits("x") = 2
  BY <1>1, Zenon DEF MostDigits
<1>4. PICK r \in 0 .. 2 : IsRun(source, i + 2, r, 2, Hex)
                          /\ DigitsOfEscape(i + 1) = SubSeq(source, i + 2, (i + 1) + r)
  <2>1. (i + 1) + 1 = i + 2 /\ CharAt(i + 1) \notin Octal /\ MostDigits(CharAt(i + 1)) = 2
    BY <1>1, <1>3
  <2>2. \E r \in 0 .. MostDigits(CharAt(i + 1)) :
            /\ IsRun(source, (i + 1) + 1, r, MostDigits(CharAt(i + 1)), Hex)
            /\ DigitsOfEscape(i + 1) = SubSeq(source, (i + 1) + 1, (i + 1) + r)
    BY <1>2, <2>1, HexRun
  <2> QED BY <2>1, <2>2
<1> DEFINE last == (i + 1) + r
           d == SubSeq(source, i + 2, last)
           v == Numeral(16, d)
<1>5. last = (i + 2) + r - 1 /\ last \in i .. Len(source) /\ last - i = r + 1
  BY <1>2, <1>4 DEF IsRun
<1>6. d \in Seq(Hex) /\ Len(d) = r
  BY <1>4, <1>5, RunIsSequence
<1>7. LiteralElement(i) = IF d # <<>> THEN [bytes |-> <<v>>, length |-> 2 + Len(d)] ELSE Malformed
  <2>1. LiteralElement(i) = EscapeWith("x", d)
    BY <1>4, EscapeElement
  <2> HIDE DEF d
  <2> QED BY <2>1, EscapeCases
<1>8. Within(source, i + 2, last, Hex)
  BY <1>4, <1>5 DEF IsRun, Within
<1> HIDE DEF last
<1>9. ASSUME NEW j \in i .. Len(source), j > last \/ r = 0
      PROVE  ~Span(source, i, j, quote)
  <2>1. ~HexSpan(source, i, j)
    <3>1. SUFFICES ASSUME HexSpan(source, i, j) PROVE FALSE
      OBVIOUS
    <3>2. r # 2 /\ (i + 2) + r \in i + 2 .. j /\ (i + 2) + r <= Len(source)
      BY <1>2, <1>4, <1>5, <1>9, <3>1 DEF HexSpan
    <3>3. source[(i + 2) + r] \in Hex
      BY <3>1, <3>2 DEF HexSpan, Within
    <3> QED BY <1>4, <3>2, <3>3 DEF IsRun
  <2>2. ~OctalSpan(source, i, j)
    BY <1>1, <1>2 DEF OctalSpan, Within
  <2> QED BY <1>1, <1>2, <2>1, <2>2 DEF Span, PlainSpan, LetterSpan, UnicodeSpan
<1>10. CASE r = 0
  <2>1. d = <<>>
    BY <1>6, <1>10
  <2>2. \A j \in i .. Len(source) : ~Span(source, i, j, quote)
    BY <1>9, <1>10
  <2> QED BY <1>7, <2>1, <2>2, ElementEndIs DEF Agreed, Bad
<1>11. CASE r # 0
  <2>1. HexSpan(source, i, last)
    BY <1>2, <1>4, <1>5, <1>8, <1>11 DEF HexSpan
  <2>2. Longest(source, i, last, quote)
    <3>1. \A j \in last + 1 .. Len(source) : j \in i .. Len(source) /\ j > last
      BY <1>2, <1>5
    <3> QED BY <1>9, <2>1, <3>1 DEF Longest, Span
  <2>3. ElementEnd(source, i, quote) = last
    BY <1>5, <2>2, ElementEndIs
  <2>4. ElementBytes(SubSeq(source, i, last)) = <<v>>
    BY <1>5, <2>1, ElementBytesIs
  <2>5. v \in Bytes
    <3>1. Len(d) \in 1 .. 2
      BY <1>4, <1>6, <1>11
    <3> QED BY <1>6, <3>1, TwoHexDigits
  <2>6. Within(source, i, last, Character \ Newline)
    <3>1. source[i] \notin Newline /\ source[i + 1] \notin Newline /\ source[i] \in Character
      BY <1>2 DEF Newline
    <3>2. \A k \in i .. last : k = i \/ k = i + 1 \/ k \in i + 2 .. last
      BY <1>5
    <3> QED BY <1>0, <1>2, <1>8, <3>1, <3>2 DEF Within
  <2> DEFINE bytes == <<v>>
  <2>7. d # <<>> /\ 2 + Len(d) = (last - i) + 1
    BY <1>5, <1>6, <1>11
  <2>8. LiteralElement(i) = [bytes |-> bytes, length |-> (last - i) + 1]
    BY <1>7, <2>7
  <2> HIDE DEF v
  <2>9. bytes \in Seq(Bytes) /\ bytes # <<>>
    BY <2>5
  <2> HIDE DEF bytes
  <2>10. Good(i, last, quote)
    BY <1>5, <2>3, <2>4, <2>6, <2>8, <2>9 DEF Good, bytes
  <2> QED BY <1>5, <2>10 DEF Agreed
<1> QED BY <1>10, <1>11

LEMMA UnicodeElement ==
  ASSUME source \in Seq(Character), NEW i \in 1 .. Len(source), NEW quote, quote # "\\", source[i] = "\\",
         CharAt(i + 1) \in {"u", "U"}
  PROVE  Agreed(i, quote)
<1> DEFINE c == CharAt(i + 1)
           most == MostDigits(c)
<1>0. Hex \subseteq Character /\ Hex \cap Newline = {}
  BY WordsAreCharacters
<1>1. c \notin EscapeLetter /\ c \notin Octal /\ c # Nul /\ c # "x" /\ "u" # "U"
  BY EscapeLetters DEF Nul
<1>2. i + 1 \in 1 .. Len(source) /\ source[i + 1] = c /\ source[i + 1] \in Character /\ Len(source) \in Nat
  BY <1>1, CharAtIs
<1>3. (c = "u" /\ most = 4) \/ (c = "U" /\ most = 8)
  <2>1. "u" # "x" /\ "U" # "x"
    BY EscapeLetters
  <2>2. MostDigits("u") = 4
    BY <1>1, <2>1, Zenon DEF MostDigits
  <2>3. MostDigits("U") = 8
    BY <1>1, <2>1, Zenon DEF MostDigits
  <2> QED BY <2>2, <2>3
<1>4. PICK r \in 0 .. most : IsRun(source, i + 2, r, most, Hex)
                             /\ DigitsOfEscape(i + 1) = SubSeq(source, i + 2, (i + 1) + r)
  <2>1. (i + 1) + 1 = i + 2
    OBVIOUS
  <2>2. \E r \in 0 .. MostDigits(CharAt(i + 1)) :
            /\ IsRun(source, (i + 1) + 1, r, MostDigits(CharAt(i + 1)), Hex)
            /\ DigitsOfEscape(i + 1) = SubSeq(source, (i + 1) + 1, (i + 1) + r)
    BY <1>1, <1>2, HexRun
  <2> QED BY <2>1, <2>2
<1> DEFINE last == (i + 1) + r
           d == SubSeq(source, i + 2, last)
           v == Numeral(16, d)
<1>5. last = (i + 2) + r - 1 /\ last \in i .. Len(source) /\ last - i = r + 1
  <2>1. r \in Nat /\ (i + 2) + r - 1 <= Len(source)
    BY <1>3, <1>4 DEF IsRun
  <2> QED BY <1>2, <2>1
<1>6. d \in Seq(Hex) /\ Len(d) = r
  <2>1. r \in Nat
    BY <1>3, <1>4
  <2> QED BY <1>4, <1>5, <2>1, RunIsSequence
<1>7. LiteralElement(i) = IF r = most /\ Scalar(v) THEN [bytes |-> Utf8(v), length |-> 2 + r] ELSE Malformed
  <2>1. LiteralElement(i) = EscapeWith(c, d)
    BY <1>4, EscapeElement
  <2>2. c \in {"u", "U"}
    OBVIOUS
  <2> HIDE DEF d, c
  <2>3. EscapeWith(c, d) = IF Len(d) = MostDigits(c) /\ Scalar(Numeral(16, d))
                           THEN [bytes |-> Utf8(Numeral(16, d)), length |-> 2 + Len(d)] ELSE Malformed
    BY <2>2, EscapeCases
  <2> QED BY <1>6, <2>1, <2>3
<1>8. Within(source, i + 2, last, Hex)
  BY <1>4, <1>5 DEF IsRun, Within
<1> HIDE DEF last, most, c
<1>9. ASSUME NEW j \in i .. Len(source), Span(source, i, j, quote)
      PROVE  r = most /\ j = last
  <2>1. ~OctalSpan(source, i, j)
    BY <1>1, <1>2 DEF OctalSpan, Within
  <2>2. ~PlainSpan(source, i, j, quote) /\ ~LetterSpan(source, i, j) /\ ~HexSpan(source, i, j)
    BY <1>1, <1>2 DEF PlainSpan, LetterSpan, HexSpan
  <2>3. UnicodeSpan(source, i, j)
    BY <1>9, <2>1, <2>2 DEF Span
  <2>4. j - i = most + 1
    BY <1>1, <1>2, <1>3, <2>3 DEF UnicodeSpan
  <2>5. r = most
    <3>1. SUFFICES ASSUME r # most PROVE FALSE
      OBVIOUS
    <3>2. (i + 2) + r \in i + 2 .. j /\ (i + 2) + r <= Len(source)
      BY <1>2, <1>3, <1>4, <1>5, <2>4, <3>1
    <3>3. source[(i + 2) + r] \in Hex
      BY <2>3, <3>2 DEF UnicodeSpan, Within
    <3> QED BY <1>4, <3>1, <3>2, <3>3 DEF IsRun
  <2> QED BY <1>3, <1>5, <2>4, <2>5
<1>10. CASE r # most
  <2>1. \A j \in i .. Len(source) : ~Span(source, i, j, quote)
    BY <1>9, <1>10
  <2> QED BY <1>7, <1>10, <2>1, ElementEndIs DEF Agreed, Bad
<1>11. CASE r = most
  <2>1. UnicodeSpan(source, i, last)
    BY <1>2, <1>3, <1>5, <1>8, <1>11 DEF UnicodeSpan
  <2>2. Longest(source, i, last, quote)
    <3>1. \A j \in last + 1 .. Len(source) : j \in i .. Len(source) /\ j # last
      BY <1>2, <1>5
    <3> QED BY <1>9, <2>1, <3>1 DEF Longest, Span
  <2>3. ElementEnd(source, i, quote) = last
    BY <1>5, <2>2, ElementEndIs
  <2>4. ElementBytes(SubSeq(source, i, last)) = IF IsCodePoint(v) THEN Encoded(v) ELSE <<>>
    BY <1>5, <2>1, ElementBytesIs
  <2>5. v \in Nat
    <3>1. 16 \in Base
      BY DEF Base
    <3> QED BY <1>6, <3>1, NumeralType
  <2> HIDE DEF v
  <2>6. /\ Scalar(v) <=> IsCodePoint(v)
        /\ Scalar(v) => Encoded(v) = Utf8(v) /\ Utf8(v) \in Seq(Bytes) /\ Utf8(v) # <<>>
    BY <2>5, ScalarIs
  <2>7. CASE ~Scalar(v)
    BY <1>7, <2>3, <2>4, <2>6, <2>7 DEF Agreed, Bad
  <2>8. CASE Scalar(v)
    <3>1. Within(source, i, last, Character \ Newline)
      <4>1. source[i] \notin Newline /\ source[i + 1] \notin Newline /\ source[i] \in Character
        BY <1>2, <1>3 DEF Newline
      <4>2. \A k \in i .. last : k = i \/ k = i + 1 \/ k \in i + 2 .. last
        BY <1>5
      <4> QED BY <1>0, <1>2, <1>8, <4>1, <4>2 DEF Within
    <3> DEFINE bytes == Utf8(v)
    <3>2. bytes \in Seq(Bytes) /\ bytes # <<>>
      BY <2>6, <2>8
    <3>3. 2 + r = (last - i) + 1
      BY <1>3, <1>4, <1>5
    <3>4. LiteralElement(i) = [bytes |-> bytes, length |-> (last - i) + 1]
      BY <1>7, <1>11, <2>8, <3>3
    <3>5. ElementBytes(SubSeq(source, i, last)) = bytes
      BY <2>4, <2>6, <2>8
    <3> HIDE DEF bytes
    <3>6. Good(i, last, quote)
      BY <1>5, <2>3, <3>1, <3>2, <3>4, <3>5 DEF Good
    <3> QED BY <1>5, <3>6 DEF Agreed
  <2> QED BY <2>7, <2>8
<1> QED BY <1>10, <1>11

LEMMA NoElement ==
  ASSUME source \in Seq(Character), NEW i \in 1 .. Len(source), NEW quote, quote # "\\", source[i] = "\\",
         CharAt(i + 1) \notin EscapeLetter \cup Octal \cup {"x", "u", "U"}
  PROVE  Agreed(i, quote)
<1>1. LiteralElement(i) = Malformed
  BY EscapeElement, EscapeCases
<1>2. ASSUME NEW j \in i .. Len(source), Span(source, i, j, quote)
      PROVE  FALSE
  <2>1. j > i
    BY <1>2 DEF Span, PlainSpan, LetterSpan, OctalSpan, HexSpan, UnicodeSpan
  <2>2. CharAt(i + 1) = source[i + 1] /\ i + 1 \in i + 1 .. j
    BY <2>1, CharAtIs
  <2> QED BY <1>2, <2>1, <2>2 DEF Span, PlainSpan, LetterSpan, OctalSpan, HexSpan, UnicodeSpan, Within
<1> QED BY <1>1, <1>2, ElementEndIs DEF Agreed, Bad

(* The lexer decodes one element as the grammar cuts it.                   *)
LEMMA ElementAgrees ==
  ASSUME source \in Seq(Character), NEW i \in 1 .. Len(source), NEW quote, quote # "\\", source[i] # quote
  PROVE  Agreed(i, quote)
<1>1. CASE source[i] \in Newline
  BY <1>1, BrokenLine DEF Agreed
<1>2. CASE source[i] = "\\"
  <2>1. CASE CharAt(i + 1) \in EscapeLetter
    <3>1. Good(i, i + 1, quote)
      BY <1>2, <2>1, LetterElement
    <3> QED BY <3>1 DEF Agreed, Good
  <2>2. CASE CharAt(i + 1) \in Octal
    BY <1>2, <2>2, OctalElement
  <2>3. CASE CharAt(i + 1) = "x"
    BY <1>2, <2>3, HexElement
  <2>4. CASE CharAt(i + 1) \in {"u", "U"}
    BY <1>2, <2>4, UnicodeElement
  <2>5. CASE CharAt(i + 1) \notin EscapeLetter \cup Octal \cup {"x", "u", "U"}
    BY <1>2, <2>5, NoElement
  <2> QED BY <2>1, <2>2, <2>3, <2>4, <2>5
<1>3. CASE source[i] # "\\" /\ source[i] \notin Newline
  BY <1>3, PlainElement DEF Agreed, Good
<1> QED BY <1>1, <1>2, <1>3

(* An element is a sequence of bytes.                                      *)
LEMMA ElementBytesType ==
  ASSUME NEW s \in Seq(Character), NEW i \in 1 .. Len(s), NEW j \in i .. Len(s), NEW quote, Span(s, i, j, quote)
  PROVE  ElementBytes(SubSeq(s, i, j)) \in Seq(Bytes)
<1> DEFINE b == ElementBytes(SubSeq(s, i, j))
           e == SubSeq(s, i + 1, j)
           d == SubSeq(s, i + 2, j)
<1>1. i \in Nat /\ j \in Nat /\ Len(s) \in Nat /\ s[i] \in Character
  OBVIOUS
<1>2. <<>> \in Seq(Bytes) /\ \A v \in Bytes : <<v>> \in Seq(Bytes)
  OBVIOUS
<1>3. /\ j = i => b = <<Byte[s[i]]>>
      /\ LetterSpan(s, i, j) => b = <<CharEscape[s[i + 1]]>>
      /\ OctalSpan(s, i, j) => b = IF Numeral(8, e) < 256 THEN <<Numeral(8, e)>> ELSE <<>>
      /\ HexSpan(s, i, j) => b = <<Numeral(16, d)>>
      /\ UnicodeSpan(s, i, j) => b = IF IsCodePoint(Numeral(16, d)) THEN Encoded(Numeral(16, d)) ELSE <<>>
  BY ElementBytesIs
<1>4. 8 \in Base /\ 16 \in Base
  BY DEF Base
<1>5. Octal \subseteq Hex
  BY WordsAreCharacters
<1> SUFFICES b \in Seq(Bytes)
  OBVIOUS
<1> HIDE DEF b
<1>6. CASE PlainSpan(s, i, j, quote)
  <2>1. j = i /\ s[i] \in DOMAIN Byte
    BY <1>1, <1>6 DEF PlainSpan, Character
  <2>2. Byte[s[i]] \in Bytes
    BY <2>1, ByteType
  <2> QED BY <1>2, <1>3, <2>1, <2>2
<1>7. CASE LetterSpan(s, i, j)
  <2>1. CharEscape[s[i + 1]] \in Bytes
    BY <1>7, CharEscapeType DEF LetterSpan
  <2> QED BY <1>2, <1>3, <1>7, <2>1
<1>8. CASE OctalSpan(s, i, j)
  <2>1. \A k \in i + 1 .. j : s[k] \in Hex
    BY <1>5, <1>8 DEF OctalSpan, Within
  <2>2. e \in Seq(Hex)
    BY <1>1, <2>1, SubSeqProperties
  <2> DEFINE v == Numeral(8, e)
  <2>3. v \in Nat
    BY <1>4, <2>2, NumeralType
  <2> HIDE DEF v
  <2>4. v < 256 => v \in Bytes
    BY <2>3 DEF Bytes
  <2> QED BY <1>2, <1>3, <1>8, <2>4 DEF v
<1>9. CASE HexSpan(s, i, j)
  <2>1. \A k \in i + 2 .. j : s[k] \in Hex
    BY <1>9 DEF HexSpan, Within
  <2>2. d \in Seq(Hex) /\ Len(d) = IF i + 2 <= j THEN (j - (i + 2)) + 1 ELSE 0
    BY <1>1, <2>1, SubSeqProperties
  <2>3. Len(d) \in 1 .. 2
    BY <1>1, <1>9, <2>2 DEF HexSpan
  <2>4. Numeral(16, d) \in Bytes
    BY <2>2, <2>3, TwoHexDigits
  <2> QED BY <1>2, <1>3, <1>9, <2>4
<1>10. CASE UnicodeSpan(s, i, j)
  <2>1. \A k \in i + 2 .. j : s[k] \in Hex
    BY <1>10 DEF UnicodeSpan, Within
  <2>2. d \in Seq(Hex)
    BY <1>1, <2>1, SubSeqProperties
  <2>3. Numeral(16, d) \in Nat
    BY <1>4, <2>2, NumeralType
  <2> DEFINE v == Numeral(16, d)
  <2> HIDE DEF v
  <2>4. IsCodePoint(v) => Encoded(v) \in Seq(Bytes)
    BY <2>3, ScalarIs DEF v
  <2> QED BY <1>2, <1>3, <1>10, <2>4 DEF v
<1> QED BY <1>6, <1>7, <1>8, <1>9, <1>10 DEF Span

-----------------------------------------------------------------------------
(* String literals.                                                        *)

With(element, rest) == IF element = <<>> \/ rest = None THEN None ELSE [rest EXCEPT !.bytes = element \o @]
GrammarBody(h, s, first, i) ==
    IF i <= Len(s) /\ s[i] = s[first] THEN [bytes |-> <<>>, close |-> i]
    ELSE IF i > Len(s) \/ ElementEnd(s, i, s[first]) = 0 THEN None
    ELSE With(ElementBytes(SubSeq(s, i, ElementEnd(s, i, s[first]))), h[ElementEnd(s, i, s[first]) + 1])
IsGrammar(h, s, first) == h = [i \in first + 1 .. Len(s) + 1 |-> GrammarBody(h, s, first, i)]

(* Where the longest element ends.                                         *)
LEMMA ElementEndType ==
  ASSUME NEW s \in Seq(Character), NEW i \in 1 .. Len(s), NEW quote, ElementEnd(s, i, quote) # 0
  PROVE  ElementEnd(s, i, quote) \in i .. Len(s) /\ Span(s, i, ElementEnd(s, i, quote), quote)
<1> DEFINE n == Len(s)
           last == Min({n, i + 9})
           Ends == {j \in i .. last : IsElement(SubSeq(s, i, j), quote)}
           M == {0} \cup Ends
<1>1. n \in Nat /\ i \in Nat /\ 1 <= i /\ i <= n
  OBVIOUS
<1>2. last \in {n, i + 9} /\ last <= n
  <2>1. {n, i + 9} \subseteq Nat /\ {n, i + 9} # {}
    BY <1>1
  <2> QED BY <2>1, LeastOf
<1>3. ElementEnd(s, i, quote) = Max(M)
  BY DEF ElementEnd
<1> HIDE DEF last
<1>4. M \subseteq 0 .. n /\ M # {}
  BY <1>1, <1>2
<1>5. Max(M) \in M
  <2> HIDE DEF M, n
  <2> QED BY <1>1, <1>4, GreatestNatural
<1>6. \A j \in Ends : j \in i .. Len(s) /\ IsElement(SubSeq(s, i, j), quote)
  BY <1>1, <1>2
<1> HIDE DEF Ends, n
<1>7. \A j \in Ends : j \in i .. Len(s) /\ Span(s, i, j, quote)
  BY <1>6, ElementTexts
<1> QED BY <1>3, <1>5, <1>7

LEMMA GrammarReads ==
  ASSUME NEW s \in Seq(Character), NEW first \in 1 .. Len(s)
  PROVE  \E h : IsGrammar(h, s, first) /\ LiteralAt(s, first) = h[first + 1]
<1> DEFINE m == first + 1
           n == Len(s) + 1
           D == m .. n
           V == [bytes : Seq(Bytes), close : Nat]
           G == [i \in D |-> [f \in [D -> V] |-> GrammarBody(f, s, first, i)]]
           E(i) == ElementEnd(s, i, s[first])
           g == CHOOSE h : IsGrammar(h, s, first)
<1>1. m \in Int /\ n \in Int /\ \A i \in D : i \in Nat /\ i # 0 /\ (i <= Len(s) => i \in 1 .. Len(s))
  OBVIOUS
<1>2. None \in V
  BY DEF None
<1>3. ASSUME NEW i \in D, i <= Len(s), E(i) # 0
      PROVE  E(i) + 1 \in i + 1 .. n /\ E(i) + 1 \in D /\ ElementBytes(SubSeq(s, i, E(i))) \in Seq(Bytes)
  <2>1. i \in 1 .. Len(s)
    BY <1>1, <1>3
  <2>2. E(i) \in i .. Len(s) /\ Span(s, i, E(i), s[first])
    BY <1>3, <2>1, ElementEndType
  <2>3. ElementBytes(SubSeq(s, i, E(i))) \in Seq(Bytes)
    BY <2>1, <2>2, ElementBytesType
  <2> QED BY <2>2, <2>3
<1>4. ASSUME NEW i \in D, NEW f \in [D -> V]
      PROVE  GrammarBody(f, s, first, i) \in V
  <2>1. CASE i <= Len(s) /\ s[i] = s[first]
    BY <1>1, <2>1 DEF GrammarBody
  <2>2. CASE ~(i <= Len(s) /\ s[i] = s[first]) /\ (i > Len(s) \/ E(i) = 0)
    BY <1>2, <2>2 DEF GrammarBody
  <2>3. CASE ~(i <= Len(s) /\ s[i] = s[first]) /\ ~(i > Len(s) \/ E(i) = 0)
    <3> DEFINE b == ElementBytes(SubSeq(s, i, E(i)))
               rest == f[E(i) + 1]
    <3>1. GrammarBody(f, s, first, i) = With(b, rest)
      BY <2>3 DEF GrammarBody
    <3>2. b \in Seq(Bytes) /\ rest \in V
      BY <1>1, <1>3, <2>3
    <3> HIDE DEF b, rest
    <3>3. With(b, rest) \in V
      <4>1. b \o rest.bytes \in Seq(Bytes)
        BY <3>2, ConcatProperties
      <4> QED BY <1>2, <3>2, <4>1 DEF With
    <3> QED BY <3>1, <3>3
  <2> QED BY <2>1, <2>2, <2>3
<1>5. ASSUME NEW i \in D, NEW f \in [D -> V], NEW h \in [D -> V], \A j \in i + 1 .. n : f[j] = h[j]
      PROVE  GrammarBody(f, s, first, i) = GrammarBody(h, s, first, i)
  <2>1. i <= Len(s) /\ E(i) # 0 => f[E(i) + 1] = h[E(i) + 1]
    <3> HIDE DEF E
    <3> QED BY <1>3, <1>5
  <2>2. i <= Len(s) \/ i > Len(s)
    BY <1>1
  <2> QED BY <2>1, <2>2 DEF GrammarBody
<1>6. \E h : IsGrammar(h, s, first)
  <2>1. G \in [D -> [[D -> V] -> V]]
    BY <1>4
  <2>2. \A i \in D : \A f \in [D -> V] : G[i][f] = GrammarBody(f, s, first, i)
    OBVIOUS
  <2>3. \A i \in D : \A f, h \in [D -> V] : (\A j \in i + 1 .. n : f[j] = h[j]) => G[i][f] = G[i][h]
    BY <1>5, <2>2
  <2> HIDE DEF G, V, m, n
  <2>4. PICK h \in [D -> V] : \A i \in D : h[i] = G[i][h]
    <3>1. FromAbove(G, m, n, V)
      BY <2>1, <2>3 DEF FromAbove
    <3>2. m \in Int /\ n \in Int
      BY <1>1
    <3>3. None \in V
      BY <1>2
    <3>4. Solved(G, m, n, V)
      <4> HIDE DEF None, D, E
      <4> QED BY <3>1, <3>2, <3>3, Descent
    <3> QED BY <3>4 DEF Solved
  <2>5. \A i \in D : h[i] = GrammarBody(h, s, first, i)
    BY <2>2, <2>4
  <2>6. h = [i \in D |-> GrammarBody(h, s, first, i)]
    BY <2>5
  <2> QED BY <2>6 DEF IsGrammar, m, n
<1>7. IsGrammar(g, s, first)
  BY <1>6
<1>8. LiteralAt(s, first) = g[first + 1]
  BY Zenon DEF LiteralAt, IsGrammar, GrammarBody, With
<1> QED BY <1>7, <1>8

LiteralBody(f, first, i) ==
    IF CharAt(i) = source[first] THEN [bytes |-> <<>>, end |-> i + 1]
    ELSE IF LiteralElement(i).length = 0 THEN [bytes |-> <<>>, end |-> 0]
    ELSE [bytes |-> LiteralElement(i).bytes \o f[i + LiteralElement(i).length].bytes,
          end |-> f[i + LiteralElement(i).length].end]
IsCut(f, first) == f = [i \in first + 1 .. Len(source) + 1 |-> LiteralBody(f, first, i)]

LEMMA ElementLength ==
  ASSUME source \in Seq(Character), NEW i \in 1 .. Len(source) + 1, NEW quote, quote # "\\", CharAt(i) # quote,
         LiteralElement(i).length # 0
  PROVE  i <= Len(source) /\ \E last \in i .. Len(source) : Good(i, last, quote)
<1>1. CASE i <= Len(source)
  <2>1. i \in 1 .. Len(source) /\ CharAt(i) = source[i]
    BY <1>1, CharAtIs
  <2>2. Agreed(i, quote)
    BY <2>1, ElementAgrees
  <2>3. ~Bad(i, quote)
    BY DEF Bad, Malformed
  <2> QED BY <1>1, <2>2, <2>3 DEF Agreed
<1>2. CASE i > Len(source)
  <2>1. CharAt(i) = Nul
    BY <1>2, CharAtIs
  <2>2. Nul # "\\"
    BY DEF Nul
  <2>3. LiteralElement(i) = Malformed
    BY <2>1, <2>2, Zenon DEF LiteralElement
  <2> QED BY <2>3 DEF Malformed
<1> QED BY <1>1, <1>2

LEMMA LiteralCuts ==
  ASSUME source \in Seq(Character), NEW first \in 1 .. Len(source), source[first] # "\\"
  PROVE  \E f : IsCut(f, first) /\ Literal(first) = f[first + 1]
<1> DEFINE m == first + 1
           n == Len(source) + 1
           D == m .. n
           V == [bytes : Seq(Bytes), end : Nat]
           G == [i \in D |-> [f \in [D -> V] |-> LiteralBody(f, first, i)]]
           e(i) == LiteralElement(i)
           g == CHOOSE f : IsCut(f, first)
<1>1. m \in Int /\ n \in Int /\ \A i \in D : i \in Nat /\ i \in 1 .. Len(source) + 1
  OBVIOUS
<1>2. [bytes |-> <<>>, end |-> 0] \in V
  OBVIOUS
<1>3. ASSUME NEW i \in D, CharAt(i) # source[first], e(i).length # 0
      PROVE  i + e(i).length \in i + 1 .. n /\ i + e(i).length \in D /\ e(i).bytes \in Seq(Bytes)
  <2>1. i <= Len(source) /\ \E last \in i .. Len(source) : Good(i, last, source[first])
    BY <1>1, <1>3, ElementLength
  <2>2. PICK last \in i .. Len(source) : Good(i, last, source[first])
    BY <2>1
  <2>3. PICK bytes \in Seq(Bytes) : LiteralElement(i) = [bytes |-> bytes, length |-> (last - i) + 1]
    BY <2>2 DEF Good
  <2>4. e(i).length = (last - i) + 1 /\ e(i).bytes = bytes
    BY <2>3
  <2>5. i + ((last - i) + 1) = last + 1
    BY <1>1
  <2> HIDE DEF e
  <2> QED BY <1>1, <2>1, <2>4, <2>5
<1>4. ASSUME NEW i \in D, NEW f \in [D -> V]
      PROVE  LiteralBody(f, first, i) \in V
  <2>1. CASE CharAt(i) = source[first]
    BY <1>1, <2>1 DEF LiteralBody
  <2>2. CASE CharAt(i) # source[first] /\ e(i).length = 0
    BY <1>2, <2>2 DEF LiteralBody
  <2>3. CASE CharAt(i) # source[first] /\ e(i).length # 0
    <3> DEFINE rest == f[i + e(i).length]
               b == e(i).bytes
    <3>1. LiteralBody(f, first, i) = [bytes |-> b \o rest.bytes, end |-> rest.end]
      BY <2>3 DEF LiteralBody
    <3>2. b \in Seq(Bytes) /\ rest \in V
      BY <1>3, <2>3
    <3> HIDE DEF b, rest
    <3>3. b \o rest.bytes \in Seq(Bytes) /\ rest.end \in Nat
      BY <3>2, ConcatProperties
    <3> QED BY <3>1, <3>3
  <2> QED BY <2>1, <2>2, <2>3
<1>5. ASSUME NEW i \in D, NEW f \in [D -> V], NEW h \in [D -> V], \A j \in i + 1 .. n : f[j] = h[j]
      PROVE  LiteralBody(f, first, i) = LiteralBody(h, first, i)
  <2>1. CharAt(i) # source[first] /\ e(i).length # 0 => f[i + e(i).length] = h[i + e(i).length]
    <3> HIDE DEF e
    <3> QED BY <1>3, <1>5
  <2> QED BY <2>1 DEF LiteralBody
<1>6. \E f : IsCut(f, first)
  <2>1. G \in [D -> [[D -> V] -> V]]
    BY <1>4
  <2>2. \A i \in D : \A f \in [D -> V] : G[i][f] = LiteralBody(f, first, i)
    OBVIOUS
  <2>3. \A i \in D : \A f, h \in [D -> V] : (\A j \in i + 1 .. n : f[j] = h[j]) => G[i][f] = G[i][h]
    BY <1>5, <2>2
  <2> HIDE DEF G
  <2>4. FromAbove(G, m, n, V)
    BY <2>1, <2>3 DEF FromAbove
  <2>5. Solved(G, m, n, V)
    <3> HIDE DEF V, m, n, D, e
    <3> QED BY <1>1, <1>2, <2>4, Descent
  <2> HIDE DEF V, m, n
  <2>6. PICK f \in [D -> V] : \A i \in D : f[i] = G[i][f]
    BY <2>5 DEF Solved
  <2>7. \A i \in D : f[i] = LiteralBody(f, first, i)
    BY <2>2, <2>6
  <2>8. f = [i \in D |-> LiteralBody(f, first, i)]
    BY <2>7
  <2> QED BY <2>8 DEF IsCut, m, n
<1>7. IsCut(g, first)
  BY <1>6
<1>8. Literal(first) = g[first + 1]
  BY Zenon DEF Literal, IsCut, LiteralBody
<1> QED BY <1>7, <1>8

(* The two readings of a literal, from offset i on.                        *)
SameReading(l, g, i) ==
    \/ l.end = 0 /\ g = None
    \/ /\ l.end \in i + 1 .. Len(source) + 1 /\ l.bytes \in Seq(Bytes)
       /\ l = [bytes |-> l.bytes, end |-> l.end]
       /\ g = [bytes |-> l.bytes, close |-> l.end - 1]
       /\ Within(source, i, l.end - 1, Character \ Newline)

LEMMA LiteralIs ==
  ASSUME source \in Seq(Character), NEW first \in 1 .. Len(source), source[first] \in Quote
  PROVE  SameReading(Literal(first), LiteralAt(source, first), first + 1)
<1> DEFINE m == first + 1
           n == Len(source) + 1
           D == m .. n
           q == source[first]
<1>1. q # "\\" /\ q \notin Newline
  <2>1. "'" # "\\" /\ "'" \notin {"\r", "\n"}
    OBVIOUS
  <2>2. "\"" # "\\" /\ "\"" \notin {"\r", "\n"}
    BY Zenon
  <2> QED BY <2>1, <2>2, Zenon DEF Quote, Newline
<1>2. PICK f : IsCut(f, first) /\ Literal(first) = f[m]
  BY <1>1, LiteralCuts
<1>3. PICK h : IsGrammar(h, source, first) /\ LiteralAt(source, first) = h[m]
  BY GrammarReads
<1> DEFINE T == {i \in D : SameReading(f[i], h[i], i)}
<1>4. ASSUME NEW i \in D, \A j \in i + 1 .. n : j \in T
      PROVE  i \in T
  <2>1. f[i] = LiteralBody(f, first, i) /\ h[i] = GrammarBody(h, source, first, i)
    BY <1>2, <1>3 DEF IsCut, IsGrammar
  <2>2. i \in Nat /\ i \in 1 .. n /\ i # 0
    OBVIOUS
  <2>3. CASE CharAt(i) = q
    <3>1. i <= Len(source) /\ source[i] = q /\ q \in Character
      BY <2>2, <2>3, CharAtIs, CharacterIs
    <3>2. f[i] = [bytes |-> <<>>, end |-> i + 1]
      BY <2>1, <2>3 DEF LiteralBody
    <3>3. h[i] = [bytes |-> <<>>, close |-> i]
      BY <2>1, <3>1 DEF GrammarBody
    <3>4. (i + 1) - 1 = i /\ i + 1 \in i + 1 .. n
      BY <2>2, <3>1
    <3>5. Within(source, i, i, Character \ Newline)
      BY <1>1, <3>1 DEF Within
    <3>6. SameReading(f[i], h[i], i)
      BY <3>2, <3>3, <3>4, <3>5 DEF SameReading
    <3> QED BY <3>6
  <2>4. CASE i > Len(source)
    <3>1. CharAt(i) # q /\ LiteralElement(i).length = 0
      <4>1. q \in Character /\ CharAt(i) # q
        BY <2>2, <2>4, CharAtIs, CharacterIs
      <4>2. ~(i <= Len(source))
        BY <2>2, <2>4
      <4> QED BY <1>1, <4>1, <4>2, ElementLength, SMTT(30)
    <3>2. f[i] = [bytes |-> <<>>, end |-> 0]
      BY <2>1, <3>1 DEF LiteralBody
    <3>3. h[i] = None
      BY <2>1, <2>2, <2>4 DEF GrammarBody
    <3> QED BY <3>2, <3>3 DEF SameReading
  <2>5. CASE i <= Len(source) /\ CharAt(i) # q
    <3>1. i \in 1 .. Len(source) /\ source[i] # q /\ CharAt(i) = source[i]
      BY <2>2, <2>5, CharAtIs
    <3>2. Agreed(i, q)
      BY <1>1, <3>1, ElementAgrees
    <3> DEFINE last == ElementEnd(source, i, q)
               b == ElementBytes(SubSeq(source, i, last))
    <3>3. h[i] = IF last = 0 THEN None ELSE With(b, h[last + 1])
      BY <2>1, <2>2, <2>5, <3>1 DEF GrammarBody
    <3>4. f[i] = IF LiteralElement(i).length = 0 THEN [bytes |-> <<>>, end |-> 0]
                 ELSE [bytes |-> LiteralElement(i).bytes \o f[i + LiteralElement(i).length].bytes,
                       end |-> f[i + LiteralElement(i).length].end]
      BY <2>1, <2>5 DEF LiteralBody
    <3>5. CASE Bad(i, q)
      <4>1. LiteralElement(i).length = 0 /\ (last = 0 \/ b = <<>>)
        BY <3>5 DEF Bad, Malformed
      <4>2. h[i] = None
        BY <3>3, <4>1 DEF With
      <4> QED BY <3>4, <4>1, <4>2 DEF SameReading
    <3>6. CASE \E e \in i .. Len(source) : Good(i, e, q)
      <4>1. PICK e \in i .. Len(source) : Good(i, e, q)
        BY <3>6
      <4>2. PICK bytes \in Seq(Bytes) :
                /\ bytes # <<>> /\ last = e /\ b = bytes
                /\ LiteralElement(i) = [bytes |-> bytes, length |-> (e - i) + 1]
        BY <4>1 DEF Good
      <4>3. Within(source, i, e, Character \ Newline)
        BY <4>1 DEF Good
      <4>4. i + ((e - i) + 1) = e + 1 /\ (e - i) + 1 # 0 /\ e # 0 /\ e + 1 \in i + 1 .. n
        BY <2>2
      <4> DEFINE r == f[e + 1]
                 g == h[e + 1]
      <4>5. SameReading(r, g, e + 1)
        BY <1>4, <4>4
      <4>6. f[i] = [bytes |-> bytes \o r.bytes, end |-> r.end]
        BY <3>4, <4>2, <4>4
      <4>7. h[i] = IF g = None THEN None ELSE [g EXCEPT !.bytes = bytes \o @]
        BY <3>3, <4>2, <4>4 DEF With
      <4> HIDE DEF r, g, last, b
      <4>8. CASE r.end = 0 /\ g = None
        BY <4>6, <4>7, <4>8 DEF SameReading
      <4>9. CASE /\ r.end \in (e + 1) + 1 .. Len(source) + 1 /\ r.bytes \in Seq(Bytes)
                 /\ g = [bytes |-> r.bytes, close |-> r.end - 1]
                 /\ Within(source, e + 1, r.end - 1, Character \ Newline)
        <5>1. g # None
          <6>1. g.close = r.end - 1 /\ r.end - 1 # 0
            BY <4>4, <4>9
          <6>2. None.close = 0
            BY DEF None
          <6> QED BY <6>1, <6>2
        <5>2. h[i] = [bytes |-> bytes \o r.bytes, close |-> r.end - 1]
          BY <4>7, <4>9, <5>1
        <5>3. bytes \o r.bytes \in Seq(Bytes)
          BY <4>2, <4>9, ConcatProperties
        <5>4. r.end \in i + 1 .. Len(source) + 1
          BY <2>2, <4>4, <4>9
        <5>5. Within(source, i, r.end - 1, Character \ Newline)
          <6>1. \A k \in i .. r.end - 1 : k \in i .. e \/ k \in e + 1 .. r.end - 1
            BY <4>4
          <6> QED BY <4>3, <4>9, <6>1 DEF Within
        <5> DEFINE l == f[i]
                   c == bytes \o r.bytes
        <5>6. l = [bytes |-> c, end |-> r.end]
          BY <4>6
        <5> HIDE DEF c
        <5>7. l.bytes = c /\ l.end = r.end
          BY <5>6
        <5> HIDE DEF l
        <5>8. SameReading(l, h[i], i)
          BY <5>2, <5>3, <5>4, <5>5, <5>6, <5>7 DEF SameReading, c
        <5> QED BY <5>8 DEF l
      <4> QED BY <4>5, <4>8, <4>9 DEF SameReading
    <3> QED BY <3>2, <3>5, <3>6 DEF Agreed
  <2> QED BY <2>2, <2>3, <2>4, <2>5
<1>5. D \subseteq T
  <2> HIDE DEF T
  <2>1. m \in Int /\ n \in Int
    OBVIOUS
  <2> QED BY <1>4, <2>1, DownInduction, ZenonT(60)
<1>6. m \in D
  OBVIOUS
<1> QED BY <1>2, <1>3, <1>5, <1>6
-----------------------------------------------------------------------------
(* The state of the lexer.                                                 *)

Position == [offset : 1 .. Len(source) + 1, line : Nat, column : Nat]
Token ==
    [ kind : {"identifier", "integer", "float", "symbol", "string"}, location : Position,
      last : 1 .. Len(source), text : Seq(Character) \cup Seq(Bytes) ]

LexerTypeOK ==
    /\ source \in Seq(Character)
    /\ at \in Position
    /\ comment \in Position \cup {Nowhere}
    /\ tokens \in Seq(Token)
    /\ outcome \in {"lexing", "end", "failed"}

LEMMA LexerInitType ==
  ASSUME LexerInit
  PROVE  LexerTypeOK
<1>1. source \in Seq(Character) /\ Len(source) \in Nat
  BY SourcesAssumption DEF LexerInit, LexerInitWith
<1>2. at \in Position
  BY <1>1 DEF LexerInit, LexerInitWith, Position
<1>3. tokens \in Seq(Token)
  BY DEF LexerInit, LexerInitWith
<1> QED BY <1>1, <1>2, <1>3 DEF LexerInit, LexerInitWith, LexerTypeOK

(* The characters before and at the cursor.                                *)
LEMMA PeekIs ==
  ASSUME LexerTypeOK, NEW k \in Nat
  PROVE  /\ Len(source) \in Nat /\ at.offset \in 1 .. Len(source) + 1 /\ source \in Seq(Character)
         /\ Peek(k) = CharAt(at.offset + k)
         /\ at.offset + k <= Len(source) => Peek(k) = source[at.offset + k] /\ Peek(k) \in Character
         /\ Peek(k) = Nul <=> at.offset + k > Len(source)
<1>1. Len(source) \in Nat /\ at.offset \in 1 .. Len(source) + 1 /\ source \in Seq(Character)
  BY DEF LexerTypeOK, Position
<1>2. at.offset + k \in Nat \ {0}
  BY <1>1
<1> QED BY <1>1, <1>2, CharAtIs DEF Peek

(* A token without a newline in its text is cut here, up to the offset end.*)
Cuts(end) == end \in at.offset + 1 .. Len(source) + 1 /\ Within(source, at.offset, end - 1, Character \ Newline)

LEMMA SpellingType ==
  ASSUME LexerTypeOK, NEW end \in at.offset + 1 .. Len(source) + 1
  PROVE  /\ Spelling(end) \in Seq(Character) /\ Len(Spelling(end)) = end - at.offset
         /\ \A k \in 1 .. end - at.offset : Spelling(end)[k] = source[at.offset + k - 1]
<1>1. Len(source) \in Nat /\ at.offset \in 1 .. Len(source) + 1 /\ source \in Seq(Character)
  BY PeekIs
<1> DEFINE m == at.offset
<1>2. m \in 1 .. Len(source) + 1
  BY <1>1
<1> HIDE DEF m
<1>3. end - 1 \in m .. Len(source) /\ (end - 1) - m + 1 = end - m
  BY <1>1, <1>2 DEF m
<1>4. /\ SubSeq(source, m, end - 1) \in Seq(Character) /\ Len(SubSeq(source, m, end - 1)) = end - m
      /\ \A k \in 1 .. end - m : SubSeq(source, m, end - 1)[k] = source[m + k - 1]
  BY <1>1, <1>2, <1>3
<1> QED BY <1>4 DEF Spelling, m

LEMMA TakeType ==
  ASSUME LexerTypeOK, NEW kind \in {"identifier", "integer", "float", "symbol", "string"}, NEW end, Cuts(end),
         NEW text \in Seq(Character) \cup Seq(Bytes), Take(kind, end, text)
  PROVE  LexerTypeOK'
<1>1. /\ Len(source) \in Nat /\ at.offset \in 1 .. Len(source) + 1 /\ source \in Seq(Character)
      /\ end \in at.offset + 1 .. Len(source) + 1 /\ UNCHANGED <<source, comment, outcome>>
  BY PeekIs DEF Take, Cuts
<1>2. at' \in Position
  <2>1. at.line \in Nat /\ at.column \in Nat /\ at = [offset |-> at.offset, line |-> at.line, column |-> at.column]
    BY DEF LexerTypeOK, Position
  <2>2. at' = [at EXCEPT !.offset = @ + (end - at.offset), !.column = @ + (end - at.offset)]
    BY DEF Take, Forward
  <2>3. at' = [offset |-> at.offset + (end - at.offset), line |-> at.line, column |-> at.column + (end - at.offset)]
    BY <2>1, <2>2
  <2>4. at.offset + (end - at.offset) \in 1 .. Len(source) + 1 /\ at.column + (end - at.offset) \in Nat
    BY <1>1, <2>1
  <2> QED BY <2>1, <2>3, <2>4 DEF Position
<1>3. tokens' \in Seq(Token)
  <2>1. at \in Position /\ end - 1 \in 1 .. Len(source)
    BY <1>1 DEF LexerTypeOK
  <2>2. [kind |-> kind, location |-> at, last |-> end - 1, text |-> text] \in Token
    BY <2>1 DEF Token
  <2> QED BY <2>2 DEF LexerTypeOK, Take
<1>4. Position' = Position /\ Token' = Token
  BY <1>1 DEF Position, Token
<1> QED BY <1>1, <1>2, <1>3, <1>4 DEF LexerTypeOK

(* The end of a run, and the character there.                              *)
LEMMA RunIs ==
  ASSUME LexerTypeOK, NEW i \in 1 .. Len(source) + 1, NEW chars, Nul \notin chars
  PROVE  /\ EndOfRun(i, chars) \in i .. Len(source) + 1
         /\ Within(source, i, EndOfRun(i, chars) - 1, chars)
         /\ CharAt(EndOfRun(i, chars)) \notin chars
         /\ CharAt(i) \in chars => EndOfRun(i, chars) \in i + 1 .. Len(source) + 1
<1>1. Len(source) \in Nat /\ source \in Seq(Character)
  BY PeekIs
<1> DEFINE e == EndOfRun(i, chars)
<1>2. /\ e \in i .. Len(source) + 1 /\ \A k \in i .. e - 1 : source[k] \in chars
      /\ e <= Len(source) => source[e] \notin chars
  BY <1>1, EndOfRunIs
<1> HIDE DEF e
<1>3. e \in Nat \ {0} /\ i \in Nat \ {0}
  BY <1>1, <1>2
<1>4. CharAt(e) \notin chars
  <2>1. CASE e <= Len(source)
    BY <1>1, <1>2, <1>3, <2>1, CharAtIs
  <2>2. CASE e > Len(source)
    BY <1>1, <1>3, <2>2, CharAtIs
  <2> QED BY <1>1, <1>3, <2>1, <2>2
<1>5. CharAt(i) \in chars => e # i
  BY <1>4
<1>6. CharAt(i) \in chars => e \in i + 1 .. Len(source) + 1
  BY <1>1, <1>2, <1>5
<1> QED BY <1>2, <1>4, <1>6 DEF Within, e

LEMMA WithinIn ==
  ASSUME NEW s, NEW i, NEW j, NEW chars, NEW more, chars \subseteq more, Within(s, i, j, chars)
  PROVE  Within(s, i, j, more)
BY DEF Within

(* The number that starts here: its whole digits end before w, those after *)
(* the point before m, and those of the exponent are from x to e - 1.      *)
Decimal(w, m, x, e) ==
    LET i == at.offset
        n == Len(source)
    IN  /\ w \in i .. n + 1 /\ Within(source, i, w - 1, Digit) /\ CharAt(w) \notin Digit
        /\ \/ CharAt(w) # "." /\ m = w /\ w > i
           \/ /\ CharAt(w) = "." /\ w <= n /\ m \in w + 1 .. n + 1 /\ m > i + 1
              /\ Within(source, w + 1, m - 1, Digit) /\ CharAt(m) \notin Digit
        /\ \/ ~HasExponent(m) /\ x = m /\ e = m
           \/ /\ HasExponent(m) /\ m <= n /\ x \in m + 1 .. n + 1
              /\ \/ x = m + 1 /\ CharAt(m + 1) \notin {"+", "-"}
                 \/ x = m + 2 /\ CharAt(m + 1) \in {"+", "-"} /\ m + 1 <= n
              /\ e \in x .. n + 1 /\ Within(source, x, e - 1, Digit) /\ CharAt(e) \notin Digit

LEMMA DigitIsCharacter == Digit \subseteq Character \ Newline /\ Nul \notin Digit
BY WordsAreCharacters

LEMMA MarksAreCharacters == {".", "e", "E", "+", "-", "0", "x", "X"} \subseteq Character \ Newline
<1>1. {".", "e", "E", "+", "-", "0", "x", "X"} = Table({15, 70, 38, 12, 14, 17, 89, 57})
  BY PrintableIs DEF Table
<1>2. {15, 70, 38, 12, 14, 17, 89, 57} \in SUBSET Places
  BY DEF Places
<1> QED BY <1>1, <1>2, TableIsCharacter

LEMMA PointIsNoDigit ==
  /\ "." \notin Word /\ "+" \notin Word /\ "-" \notin Word
  /\ "e" \notin Digit /\ "E" \notin Digit /\ "x" \notin Digit /\ "X" \notin Digit
  /\ "e" \in Alpha /\ "E" \in Alpha /\ "x" \in Alpha /\ "X" \in Alpha /\ "0" \in Digit
<1> DEFINE W == (17 .. 26) \cup (34 .. 59) \cup {64} \cup (66 .. 91)
           D == 17 .. 26
           A == (34 .. 59) \cup (66 .. 91)
<1>1. W \in SUBSET Places /\ D \in SUBSET Places /\ A \in SUBSET Places
  BY DEF Places
<1>2. Word = Table(W) /\ Digit = Table(D) /\ Alpha = Table(A)
  BY WordPlaces, DigitPlaces, AlphaPlaces
<1>3. 15 \notin W /\ 12 \notin W /\ 14 \notin W
  OBVIOUS
<1>4. /\ 70 \notin D /\ 38 \notin D /\ 89 \notin D /\ 57 \notin D
      /\ 70 \in A /\ 38 \in A /\ 89 \in A /\ 57 \in A /\ 17 \in D
  OBVIOUS
<1> HIDE DEF W, D, A
<1>5. ASSUME NEW P \in SUBSET Places, NEW k \in Places
      PROVE  Printable[k] \in Table(P) <=> k \in P
  BY PrintableDiffer DEF Table
<1>6. /\ Printable[15] \notin Word /\ Printable[12] \notin Word /\ Printable[14] \notin Word
      /\ Printable[70] \notin Digit /\ Printable[38] \notin Digit /\ Printable[89] \notin Digit /\ Printable[57] \notin Digit
      /\ Printable[70] \in Alpha /\ Printable[38] \in Alpha /\ Printable[89] \in Alpha /\ Printable[57] \in Alpha
      /\ Printable[17] \in Digit
  BY <1>1, <1>2, <1>3, <1>4, <1>5 DEF Places
<1> QED BY <1>6, PrintableIs

LEMMA DecimalIs ==
  ASSUME LexerTypeOK, AtNumber
  PROVE  LET i == at.offset
             whole == EndOfRun(i, Digit)
             mantissa == EndOfFraction(whole)
             x == IF HasExponent(mantissa) THEN ExponentDigits(mantissa) ELSE mantissa
             end == IF HasExponent(mantissa) THEN EndOfRun(ExponentDigits(mantissa), Digit) ELSE mantissa
         IN  Decimal(whole, mantissa, x, end)
<1> DEFINE i == at.offset
           n == Len(source)
           w == EndOfRun(i, Digit)
           m == EndOfFraction(w)
           x == IF HasExponent(m) THEN ExponentDigits(m) ELSE m
           e == IF HasExponent(m) THEN EndOfRun(ExponentDigits(m), Digit) ELSE m
<1>1. n \in Nat /\ i \in 1 .. n + 1 /\ source \in Seq(Character)
  BY PeekIs
<1>2. Nul \notin Digit
  BY DigitIsCharacter
<1>3. w \in i .. n + 1 /\ Within(source, i, w - 1, Digit) /\ CharAt(w) \notin Digit /\ (CharAt(i) \in Digit => w \in i + 1 .. n + 1)
  BY <1>1, <1>2, RunIs
<1>4. \/ CharAt(i) \in Digit
      \/ CharAt(i) = "." /\ CharAt(i + 1) \in Digit
  <2>1. Peek(0) = CharAt(i + 0) /\ Peek(1) = CharAt(i + 1) /\ i + 0 = i
    BY <1>1, PeekIs
  <2> QED BY <2>1 DEF AtNumber
<1>5. ASSUME NEW k \in Nat \ {0}, k <= n + 1, NEW c, c # Nul, CharAt(k) = c
      PROVE  k <= n
  BY <1>1, <1>5, CharAtIs
<1>6. "." # Nul /\ "e" # Nul /\ "E" # Nul /\ "+" # Nul /\ "-" # Nul
  BY DEF Nul
<1> DEFINE r == EndOfRun(w + 1, Digit)
<1>7. m = IF CharAt(w) = "." THEN r ELSE w
  BY DEF EndOfFraction
<1>8. CharAt(w) = "." => /\ w <= n
                         /\ r \in w + 1 .. n + 1
                         /\ Within(source, w + 1, r - 1, Digit) /\ CharAt(r) \notin Digit
                         /\ CharAt(w + 1) \in Digit => r \in w + 2 .. n + 1
  <2> SUFFICES ASSUME CharAt(w) = "."
               PROVE  /\ w <= n
                      /\ r \in w + 1 .. n + 1
                      /\ Within(source, w + 1, r - 1, Digit) /\ CharAt(r) \notin Digit
                      /\ CharAt(w + 1) \in Digit => r \in w + 2 .. n + 1
    OBVIOUS
  <2> HIDE DEF w
  <2>1. w \in Nat \ {0} /\ w <= n + 1
    BY <1>1, <1>3
  <2>2. w <= n
    BY <1>5, <1>6, <2>1
  <2>3. w + 1 \in 1 .. Len(source) + 1 /\ (w + 1) + 1 = w + 2
    BY <1>1, <2>1, <2>2
  <2>4. /\ r \in w + 1 .. Len(source) + 1 /\ Within(source, w + 1, r - 1, Digit) /\ CharAt(r) \notin Digit
        /\ CharAt(w + 1) \in Digit => r \in (w + 1) + 1 .. Len(source) + 1
    BY <1>2, <2>3, RunIs
  <2> QED BY <2>2, <2>3, <2>4
<1> HIDE DEF i, r, w
<1>9. CharAt(i) \notin Digit => CharAt(w) = "." /\ w = i /\ r \in i + 2 .. n + 1
  <2> SUFFICES ASSUME CharAt(i) \notin Digit PROVE CharAt(w) = "." /\ w = i /\ r \in i + 2 .. n + 1
    OBVIOUS
  <2>1. CharAt(i) = "." /\ CharAt(i + 1) \in Digit
    BY <1>4
  <2>2. w = i
    <3>1. SUFFICES ASSUME w # i PROVE FALSE
      OBVIOUS
    <3>2. i \in i .. w - 1 /\ i \in Nat \ {0} /\ i <= Len(source)
      BY <1>1, <1>3, <3>1
    <3>3. source[i] \in Digit
      BY <1>3, <3>2 DEF Within
    <3>4. CharAt(i) = source[i]
      BY <1>1, <3>2, CharAtIs
    <3> QED BY <3>3, <3>4
  <2> QED BY <1>8, <2>1, <2>2
<1>10. \/ CharAt(w) # "." /\ m = w /\ w > i
       \/ /\ CharAt(w) = "." /\ w <= n /\ m \in w + 1 .. n + 1 /\ m > i + 1
          /\ Within(source, w + 1, m - 1, Digit) /\ CharAt(m) \notin Digit
  <2>1. CASE CharAt(w) # "."
    <3>1. CharAt(i) \in Digit
      BY <1>9, <2>1
    <3>2. w > i
      BY <1>1, <1>3, <3>1
    <3> QED BY <1>7, <2>1, <3>2
  <2>2. CASE CharAt(w) = "."
    <3>1. m = r
      BY <1>7, <2>2
    <3>2. r > i + 1
      <4>1. CASE CharAt(i) \in Digit
        BY <1>1, <1>3, <1>8, <2>2, <4>1
      <4>2. CASE CharAt(i) \notin Digit
        BY <1>1, <1>9, <4>2
      <4> QED BY <4>1, <4>2
    <3> QED BY <1>8, <2>2, <3>1, <3>2
  <2> QED BY <2>1, <2>2
<1>11. m \in Nat \ {0} /\ m <= n + 1
  BY <1>1, <1>3, <1>10
<1> HIDE DEF m
<1> DEFINE y == ExponentDigits(m)
           z == EndOfRun(y, Digit)
<1>12. x = (IF HasExponent(m) THEN y ELSE m) /\ e = IF HasExponent(m) THEN z ELSE m
  OBVIOUS
<1>13. HasExponent(m) => /\ m <= n /\ y \in m + 1 .. n + 1
                         /\ \/ y = m + 1 /\ CharAt(m + 1) \notin {"+", "-"}
                            \/ y = m + 2 /\ CharAt(m + 1) \in {"+", "-"} /\ m + 1 <= n
                         /\ z \in y .. n + 1 /\ Within(source, y, z - 1, Digit) /\ CharAt(z) \notin Digit
  <2> SUFFICES ASSUME HasExponent(m)
               PROVE  /\ m <= n /\ y \in m + 1 .. n + 1
                      /\ \/ y = m + 1 /\ CharAt(m + 1) \notin {"+", "-"}
                         \/ y = m + 2 /\ CharAt(m + 1) \in {"+", "-"} /\ m + 1 <= n
                      /\ z \in y .. n + 1 /\ Within(source, y, z - 1, Digit) /\ CharAt(z) \notin Digit
    OBVIOUS
  <2>1. m <= n
    BY <1>5, <1>6, <1>11 DEF HasExponent
  <2>2. y = IF CharAt(m + 1) \in {"+", "-"} THEN m + 2 ELSE m + 1
    BY DEF ExponentDigits
  <2>3. CharAt(m + 1) \in {"+", "-"} => m + 1 <= n
    <3>1. m + 1 \in Nat \ {0} /\ m + 1 <= n + 1
      BY <1>1, <1>11, <2>1
    <3> QED BY <1>5, <1>6, <3>1
  <2>4. y \in m + 1 .. n + 1 /\ y \in 1 .. Len(source) + 1
    BY <1>1, <1>11, <2>1, <2>2, <2>3
  <2> HIDE DEF y
  <2>5. z \in y .. Len(source) + 1 /\ Within(source, y, z - 1, Digit) /\ CharAt(z) \notin Digit
    BY <1>2, <2>4, RunIs
  <2> QED BY <2>1, <2>2, <2>3, <2>4, <2>5
<1> HIDE DEF y, z, x, e
<1>14. Decimal(w, m, x, e)
  <2>1. CASE HasExponent(m)
    <3>1. x = y /\ e = z
      BY <1>12, <2>1
    <3> QED BY <1>3, <1>10, <1>13, <2>1, <3>1 DEF Decimal, i
  <2>2. CASE ~HasExponent(m)
    <3>1. x = m /\ e = m
      BY <1>12, <2>2
    <3> QED BY <1>3, <1>10, <2>2, <3>1 DEF Decimal, i
  <2> QED BY <2>1, <2>2
<1> QED BY <1>14 DEF i, w, m, x, e, y, z

(* What each action cuts.                                                  *)

LEMMA IdentifierCuts ==
  ASSUME LexerTypeOK, Identifier
  PROVE  \E end : /\ Cuts(end) /\ Take("identifier", end, Spelling(end))
                  /\ source[at.offset] \in Alpha \cup {"_"}
                  /\ Within(source, at.offset, end - 1, Word) /\ CharAt(end) \notin Word
<1> DEFINE i == at.offset
           end == EndOfRun(i, Word)
<1>1. Len(source) \in Nat /\ i \in 1 .. Len(source) + 1 /\ source \in Seq(Character) /\ Peek(0) = CharAt(i)
  BY PeekIs
<1>2. Nul \notin Word /\ Word \subseteq Character \ Newline /\ Alpha \cup {"_"} \subseteq Word
  BY WordsAreCharacters
<1>3. CharAt(i) \in Alpha \cup {"_"} /\ Take("identifier", end, Spelling(end))
  BY <1>1 DEF Identifier
<1>4. end \in i + 1 .. Len(source) + 1 /\ Within(source, i, end - 1, Word) /\ CharAt(end) \notin Word
  BY <1>1, <1>2, <1>3, RunIs
<1>5. source[i] = CharAt(i)
  <2>1. CharAt(i) \in Word
    BY <1>2, <1>3, Zenon
  <2>2. i \in Nat \ {0} /\ CharAt(i) # Nul
    <3>1. Nul \notin Word
      BY <1>2
    <3> QED BY <1>1, <2>1, <3>1
  <2> QED BY <1>1, <2>2, CharAtIs
<1>6. Within(source, i, end - 1, Character \ Newline)
  BY <1>2, <1>4, WithinIn
<1> HIDE DEF end
<1> QED BY <1>3, <1>4, <1>5, <1>6 DEF Cuts

HexCut(end) ==
    /\ at.offset + 1 <= Len(source) /\ end \in at.offset + 2 .. Len(source) + 1
    /\ source[at.offset] = "0" /\ source[at.offset + 1] \in {"x", "X"}
    /\ Within(source, at.offset + 2, end - 1, Hex) /\ CharAt(end) \notin Hex

LEMMA HexCuts ==
  ASSUME LexerTypeOK, HexNumber
  PROVE  \E end : /\ HexCut(end) /\ Cuts(end)
                  /\ IF end = at.offset + 2 \/ CharAt(end) \in Word THEN Fail
                     ELSE Take("integer", end, Spelling(end))
<1> DEFINE i == at.offset
           end == EndOfRun(i + 2, Hex)
<1>1. Len(source) \in Nat /\ i \in 1 .. Len(source) + 1 /\ source \in Seq(Character) /\ Peek(0) = CharAt(i) /\ Peek(1) = CharAt(i + 1)
  BY PeekIs
<1>2. Nul \notin Hex /\ Hex \subseteq Character \ Newline
  BY WordsAreCharacters
<1>3. /\ CharAt(i) = "0" /\ CharAt(i + 1) \in {"x", "X"}
      /\ IF end = i + 2 \/ CharAt(end) \in Word THEN Fail ELSE Take("integer", end, Spelling(end))
  BY <1>1 DEF HexNumber, AtHex
<1>4. i + 1 <= Len(source) /\ source[i] = "0" /\ source[i + 1] \in {"x", "X"}
  <2>1. i \in Nat \ {0} /\ i + 1 \in Nat \ {0} /\ "0" # Nul /\ "x" # Nul /\ "X" # Nul
    BY <1>1 DEF Nul
  <2>2. i <= Len(source) /\ i + 1 <= Len(source)
    BY <1>1, <1>3, <2>1, CharAtIs
  <2> QED BY <1>1, <1>3, <2>1, <2>2, CharAtIs
<1>5. i + 2 \in 1 .. Len(source) + 1
  BY <1>1, <1>4
<1>6. end \in i + 2 .. Len(source) + 1 /\ Within(source, i + 2, end - 1, Hex) /\ CharAt(end) \notin Hex
  BY <1>2, <1>5, RunIs
<1> HIDE DEF end
<1>7. Within(source, i, end - 1, Character \ Newline)
  <2>1. Within(source, i + 2, end - 1, Character \ Newline)
    BY <1>2, <1>6, WithinIn
  <2>2. \A k \in i .. end - 1 : k = i \/ k = i + 1 \/ k \in i + 2 .. end - 1
    BY <1>1, <1>6
  <2>3. source[i] \in Character \ Newline /\ source[i + 1] \in Character \ Newline
    BY <1>4, MarksAreCharacters
  <2> QED BY <2>1, <2>2, <2>3 DEF Within
<1>8. end \in i + 1 .. Len(source) + 1
  BY <1>1, <1>6
<1> QED BY <1>3, <1>4, <1>6, <1>7, <1>8 DEF Cuts, HexCut

LEMMA DecimalCuts ==
  ASSUME LexerTypeOK, DecimalNumber
  PROVE  \E w, m, x, e :
            /\ Decimal(w, m, x, e) /\ Cuts(e)
            /\ IF (HasExponent(m) /\ e = x) \/ ~NumberEnds(e) THEN Fail
               ELSE Take(IF e = w THEN "integer" ELSE "float", e, Spelling(e))
<1> DEFINE i == at.offset
           w == EndOfRun(i, Digit)
           m == EndOfFraction(w)
           x == IF HasExponent(m) THEN ExponentDigits(m) ELSE m
           e == IF HasExponent(m) THEN EndOfRun(ExponentDigits(m), Digit) ELSE m
<1>1. Decimal(w, m, x, e)
  BY DecimalIs DEF DecimalNumber
<1>2. IF (HasExponent(m) /\ e = ExponentDigits(m)) \/ ~NumberEnds(e) THEN Fail
      ELSE Take(IF e = w THEN "integer" ELSE "float", e, Spelling(e))
  BY DEF DecimalNumber
<1>3. HasExponent(m) => ExponentDigits(m) = x
  OBVIOUS
<1> HIDE DEF w, m, x, e
<1>4. Cuts(e)
  <2>1. Len(source) \in Nat /\ i \in 1 .. Len(source) + 1 /\ source \in Seq(Character)
    BY PeekIs
  <2> DEFINE C == Character \ Newline
  <2>2. Digit \subseteq C /\ "." \in C /\ "e" \in C /\ "E" \in C /\ "+" \in C /\ "-" \in C
    BY DigitIsCharacter, MarksAreCharacters
  <2> HIDE DEF C
  <2>3. ASSUME NEW k \in 1 .. Len(source)
        PROVE  CharAt(k) = source[k]
    BY <2>1, CharAtIs
  <2>4. m \in i + 1 .. Len(source) + 1 /\ Within(source, i, m - 1, C)
    <3>1. CASE m = w /\ w > i
      <4>1. Within(source, i, w - 1, C)
        BY <1>1, <2>2, WithinIn DEF Decimal
      <4> QED BY <1>1, <2>1, <3>1, <4>1 DEF Decimal
    <3>2. CASE /\ CharAt(w) = "." /\ w <= Len(source) /\ m \in w + 1 .. Len(source) + 1 /\ m > i + 1
               /\ Within(source, w + 1, m - 1, Digit) /\ CharAt(m) \notin Digit
      <4>1. Within(source, i, w - 1, C) /\ Within(source, w + 1, m - 1, C)
        BY <1>1, <2>2, <3>2, WithinIn DEF Decimal
      <4>2. w \in i .. Len(source) + 1
        BY <1>1 DEF Decimal
      <4>3. source[w] \in C
        BY <2>1, <2>2, <2>3, <3>2, <4>2
      <4>4. \A k \in i .. m - 1 : k \in i .. w - 1 \/ k = w \/ k \in w + 1 .. m - 1
        BY <2>1, <3>2, <4>2
      <4>5. Within(source, i, m - 1, C)
        BY <4>1, <4>3, <4>4 DEF Within
      <4>6. m \in i + 1 .. Len(source) + 1
        BY <2>1, <3>2, <4>2
      <4> QED BY <4>5, <4>6
    <3> QED BY <1>1, <3>1, <3>2 DEF Decimal
  <2>5. CASE ~HasExponent(m)
    <3>1. e = m
      BY <1>1, <2>5 DEF Decimal
    <3> QED BY <2>4, <3>1 DEF Cuts, C
  <2>6. CASE HasExponent(m)
    <3>1. /\ m <= Len(source) /\ x \in m + 1 .. Len(source) + 1
          /\ \/ x = m + 1
             \/ x = m + 2 /\ CharAt(m + 1) \in {"+", "-"} /\ m + 1 <= Len(source)
          /\ e \in x .. Len(source) + 1 /\ Within(source, x, e - 1, Digit)
      BY <1>1, <2>6 DEF Decimal
    <3>2. source[m] \in C
      <4>1. CharAt(m) \in {"e", "E"} /\ m \in 1 .. Len(source)
        BY <2>1, <2>4, <2>6, <3>1 DEF HasExponent
      <4> QED BY <2>2, <2>3, <4>1
    <3>3. x = m + 2 => source[m + 1] \in C
      <4> SUFFICES ASSUME x = m + 2 PROVE source[m + 1] \in C
        OBVIOUS
      <4>1. CharAt(m + 1) \in {"+", "-"} /\ m + 1 \in 1 .. Len(source)
        BY <2>1, <2>4, <3>1
      <4> QED BY <2>2, <2>3, <4>1
    <3>4. Within(source, x, e - 1, C)
      BY <2>2, <3>1, WithinIn
    <3>5. \A k \in i .. e - 1 : k \in i .. m - 1 \/ k = m \/ (x = m + 2 /\ k = m + 1) \/ k \in x .. e - 1
      BY <2>1, <2>4, <3>1
    <3>6. Within(source, i, e - 1, C)
      BY <2>4, <3>2, <3>3, <3>4, <3>5 DEF Within
    <3>7. e \in i + 1 .. Len(source) + 1
      BY <2>1, <2>4, <3>1
    <3> QED BY <3>6, <3>7 DEF Cuts, C
  <2> QED BY <2>5, <2>6
<1> QED BY <1>1, <1>2, <1>3, <1>4

LEMMA StringCuts ==
  ASSUME LexerTypeOK, StringLiteral
  PROVE  /\ at.offset \in 1 .. Len(source) /\ source[at.offset] \in Quote
         /\ \/ Fail /\ LiteralAt(source, at.offset) = None
            \/ \E end, bytes : /\ Cuts(end) /\ bytes \in Seq(Bytes) /\ Take("string", end, bytes)
                               /\ LiteralAt(source, at.offset) = [bytes |-> bytes, close |-> end - 1]
<1> DEFINE i == at.offset
           l == Literal(i)
           g == LiteralAt(source, i)
<1>1. Len(source) \in Nat /\ i \in 1 .. Len(source) + 1 /\ source \in Seq(Character) /\ Peek(0) = CharAt(i)
  BY PeekIs
<1>2. CharAt(i) \in Quote /\ IF l.end = 0 THEN Fail ELSE Take("string", l.end, l.bytes)
  BY <1>1 DEF StringLiteral
<1>3. Quote = Table({8, 3}) /\ {8, 3} \in SUBSET Places
  <2>1. Quote = {"'", DoubleQuote}
    BY Zenon DEF Quote, DoubleQuote
  <2> QED BY <2>1, PrintableIs DEF Table, Places
<1>4. Quote \subseteq Character \ Newline /\ Nul \notin Quote
  BY <1>3, TableIsCharacter
<1>5. i \in 1 .. Len(source) /\ source[i] \in Quote
  <2>1. i \in Nat \ {0} /\ CharAt(i) # Nul
    BY <1>1, <1>2, <1>4
  <2>2. i <= Len(source) /\ CharAt(i) = source[i]
    BY <1>1, <2>1, CharAtIs
  <2> QED BY <1>1, <1>2, <2>2
<1>6. SameReading(l, g, i + 1)
  BY <1>1, <1>5, LiteralIs
<1> HIDE DEF l, g
<1>7. CASE l.end = 0 /\ g = None
  BY <1>2, <1>5, <1>7 DEF g
<1>8. CASE /\ l.end \in (i + 1) + 1 .. Len(source) + 1 /\ l.bytes \in Seq(Bytes)
           /\ g = [bytes |-> l.bytes, close |-> l.end - 1]
           /\ Within(source, i + 1, l.end - 1, Character \ Newline)
  <2>1. l.end # 0 /\ l.end \in i + 1 .. Len(source) + 1
    BY <1>1, <1>8
  <2>2. Take("string", l.end, l.bytes)
    BY <1>2, <2>1
  <2>3. \A k \in i .. l.end - 1 : k = i \/ k \in i + 1 .. l.end - 1
    BY <1>1, <2>1
  <2>4. Within(source, i, l.end - 1, Character \ Newline)
    BY <1>4, <1>5, <1>8, <2>3 DEF Within
  <2>5. Cuts(l.end)
    BY <2>1, <2>4 DEF Cuts
  <2> QED BY <1>5, <1>8, <2>2, <2>5 DEF g
<1> QED BY <1>6, <1>7, <1>8 DEF SameReading

LEMMA PunctuationPlaces == Punctuation = Table({92, 94, 60, 62, 9, 10, 29, 31, 30, 28, 13, 15, 12, 14, 27})
<1>1. Punctuation = {Printable[92], Printable[94], Printable[60], Printable[62], Printable[9], Printable[10],
                     Printable[29], Printable[31], Printable[30], Printable[28], Printable[13], Printable[15],
                     Printable[12], Printable[14], Printable[27]}
  <2>1. Punctuation = {OpeningBrace, ClosingBrace, "[", "]", "(", ")", "<", ">", "=", Semicolon, Comma,
                       ".", "+", "-", ":"}
    BY Zenon DEF Punctuation, OpeningBrace, ClosingBrace, Semicolon, Comma
  <2> QED BY <2>1, PrintableIs
<1> QED BY <1>1 DEF Table

LEMMA PunctuationIs == Punctuation \subseteq Character \ Newline /\ Nul \notin Punctuation
<1> DEFINE P == {92, 94, 60, 62, 9, 10, 29, 31, 30, 28, 13, 15, 12, 14, 27}
<1>1. Punctuation = Table(P)
  BY PunctuationPlaces
<1>2. P \in SUBSET Places
  BY DEF Places
<1> HIDE DEF P
<1> QED BY <1>1, <1>2, TableIsCharacter

LEMMA SymbolCuts ==
  ASSUME LexerTypeOK, Symbol
  PROVE  /\ at.offset \in 1 .. Len(source) /\ source[at.offset] \in Punctuation /\ ~AtNumber
         /\ Cuts(at.offset + 1) /\ Take("symbol", at.offset + 1, Spelling(at.offset + 1))
<1> DEFINE i == at.offset
<1>1. Len(source) \in Nat /\ i \in 1 .. Len(source) + 1 /\ source \in Seq(Character) /\ Peek(0) = CharAt(i)
  BY PeekIs
<1>2. /\ i <= Len(source) /\ Peek(0) \in Punctuation \cup {Nul} /\ ~AtNumber
      /\ Take("symbol", i + 1, Spelling(i + 1))
  BY DEF Symbol
<1>3. i \in Nat \ {0} /\ i \in 1 .. Len(source) /\ i + 1 \in i + 1 .. Len(source) + 1
  BY <1>1, <1>2
<1>4. source[i] \in Punctuation
  BY <1>1, <1>2, <1>3, CharAtIs
<1>5. Within(source, i, (i + 1) - 1, Character \ Newline)
  <2>1. \A k \in i .. (i + 1) - 1 : k = i
    BY <1>3
  <2> QED BY <1>4, <2>1, PunctuationIs DEF Within
<1> QED BY <1>2, <1>3, <1>4, <1>5 DEF Cuts

(* Where the cursor goes.                                                  *)
LEMMA MovedRecord ==
  ASSUME NEW p \in [offset : Nat, line : Nat, column : Nat], NEW n \in Nat
  PROVE  /\ Forward(p, n) = [offset |-> p.offset + n, line |-> p.line, column |-> p.column + n]
         /\ CharAt(p.offset) \notin Newline =>
              Advance(p) = [offset |-> p.offset + 1, line |-> p.line, column |-> p.column + 1]
         /\ CharAt(p.offset) \in Newline =>
              Advance(p) = [ offset |-> p.offset + IF CharAt(p.offset) = "\r" /\ CharAt(p.offset + 1) = "\n" THEN 2 ELSE 1,
                             line |-> p.line + 1, column |-> 1 ]
<1>1. Forward(p, n) = [offset |-> p.offset + n, line |-> p.line, column |-> p.column + n]
  <2> DEFINE q == Forward(p, n)
  <2>1. q = [p EXCEPT !.offset = @ + n, !.column = @ + n]
    BY DEF Forward
  <2> HIDE DEF q
  <2>2. q = [offset |-> p.offset + n, line |-> p.line, column |-> p.column + n]
    BY <2>1
  <2> QED BY <2>2 DEF q
<1>2. ASSUME CharAt(p.offset) \notin Newline
      PROVE  Advance(p) = [offset |-> p.offset + 1, line |-> p.line, column |-> p.column + 1]
  <2>1. Advance(p) = [p EXCEPT !.offset = @ + 1, !.column = @ + 1]
    BY <1>2 DEF Advance
  <2> QED BY <2>1
<1>3. ASSUME CharAt(p.offset) \in Newline
      PROVE  Advance(p) = [ offset |-> p.offset + IF CharAt(p.offset) = "\r" /\ CharAt(p.offset + 1) = "\n" THEN 2 ELSE 1,
                            line |-> p.line + 1, column |-> 1 ]
  BY <1>3, Zenon DEF Advance
<1> QED BY <1>1, <1>2, <1>3

LEMMA ForwardIs ==
  ASSUME LexerTypeOK, NEW end, Cuts(end)
  PROVE  /\ Forward(at, end - at.offset) \in Position
         /\ Forward(at, end - at.offset) = [ offset |-> end, line |-> at.line,
                                             column |-> at.column + (end - at.offset) ]
<1>1. /\ Len(source) \in Nat /\ at.offset \in 1 .. Len(source) + 1 /\ end \in at.offset + 1 .. Len(source) + 1
  BY PeekIs DEF Cuts
<1>2. at.line \in Nat /\ at.column \in Nat /\ at \in [offset : Nat, line : Nat, column : Nat]
  BY <1>1 DEF LexerTypeOK, Position
<1>3. Forward(at, end - at.offset) =
        [offset |-> at.offset + (end - at.offset), line |-> at.line, column |-> at.column + (end - at.offset)]
  <2>1. end - at.offset \in Nat
    BY <1>1
  <2> QED BY <1>2, <2>1, MovedRecord
<1>4. /\ at.offset + (end - at.offset) = end /\ end \in 1 .. Len(source) + 1
      /\ at.column + (end - at.offset) \in Nat
  BY <1>1, <1>2
<1> QED BY <1>2, <1>3, <1>4 DEF Position

LEMMA AdvanceIs ==
  ASSUME LexerTypeOK, at.offset <= Len(source)
  PROVE  LET i == at.offset
         IN  /\ Advance(at) \in Position
             /\ \/ source[i] \notin Newline /\ Advance(at) = [offset |-> i + 1, line |-> at.line, column |-> at.column + 1]
                \/ /\ source[i] \in Newline /\ ~(source[i] = "\r" /\ i < Len(source) /\ source[i + 1] = "\n")
                   /\ Advance(at) = [offset |-> i + 1, line |-> at.line + 1, column |-> 1]
                \/ /\ source[i] = "\r" /\ i < Len(source) /\ source[i + 1] = "\n"
                   /\ Advance(at) = [offset |-> i + 2, line |-> at.line + 1, column |-> 1]
<1> DEFINE i == at.offset
           n == Len(source)
<1>1. n \in Nat /\ i \in 1 .. n /\ source \in Seq(Character)
  BY PeekIs
<1>2. at.line \in Nat /\ at.column \in Nat /\ at \in [offset : Nat, line : Nat, column : Nat]
  BY <1>1 DEF LexerTypeOK, Position
<1>3. i \in Nat \ {0} /\ i + 1 \in Nat \ {0}
  BY <1>1
<1>4. CharAt(i) = source[i] /\ (CharAt(i + 1) = "\n" <=> i < n /\ source[i + 1] = "\n")
  <2>1. CharAt(i) = source[i]
    BY <1>1, <1>3, CharAtIs
  <2>2. i + 1 <= n => CharAt(i + 1) = source[i + 1]
    BY <1>1, <1>3, CharAtIs
  <2>3. i + 1 > n => CharAt(i + 1) = Nul
    BY <1>1, <1>3, CharAtIs
  <2>4. Nul # "\n"
    BY OutsideTable DEF Nul
  <2>5. i + 1 <= n <=> i < n
    BY <1>1
  <2>6. ~(i + 1 <= n) <=> i + 1 > n
    BY <1>1
  <2> HIDE DEF n, i
  <2> QED BY <2>1, <2>2, <2>3, <2>4, <2>5, <2>6, Zenon
<1>5. CASE source[i] \notin Newline
  <2>1. Advance(at) = [offset |-> i + 1, line |-> at.line, column |-> at.column + 1]
    BY <1>2, <1>4, <1>5, MovedRecord, 0 \in Nat
  <2>2. i + 1 \in 1 .. n + 1 /\ at.column + 1 \in Nat
    BY <1>1, <1>2
  <2> QED BY <1>2, <1>5, <2>1, <2>2 DEF Position
<1>6. CASE source[i] \in Newline /\ ~(source[i] = "\r" /\ i < n /\ source[i + 1] = "\n")
  <2>1. Advance(at) = [offset |-> i + 1, line |-> at.line + 1, column |-> 1]
    BY <1>2, <1>4, <1>6, MovedRecord
  <2>2. i + 1 \in 1 .. n + 1 /\ at.line + 1 \in Nat
    BY <1>1, <1>2
  <2> QED BY <1>6, <2>1, <2>2 DEF Position
<1>7. CASE source[i] = "\r" /\ i < n /\ source[i + 1] = "\n"
  <2>1. Advance(at) = [offset |-> i + 2, line |-> at.line + 1, column |-> 1]
    BY <1>2, <1>4, <1>7, MovedRecord DEF Newline
  <2>2. i + 2 \in 1 .. n + 1 /\ at.line + 1 \in Nat
    BY <1>1, <1>2, <1>7
  <2> QED BY <1>7, <2>1, <2>2 DEF Position
<1>8. source[i] = "\r" => source[i] \in Newline
  BY DEF Newline
<1> QED BY <1>5, <1>6, <1>7, <1>8

(* Comments: the actions that move the cursor over one.                    *)
LEMMA LineCommentCuts ==
  ASSUME LexerTypeOK, SkipLineComment
  PROVE  \E end : /\ Cuts(end) /\ end > at.offset + 1
                  /\ source[at.offset] = "/" /\ source[at.offset + 1] = "/"
                  /\ end = Len(source) + 1 \/ source[end] \in Newline
                  /\ at' = Forward(at, end - at.offset)
<1> DEFINE i == at.offset
           n == Len(source)
           E == {j \in i .. n + 1 : CharAt(j) \in Newline \cup {Nul}}
           end == Min(E)
<1>1. n \in Nat /\ i \in 1 .. n + 1 /\ source \in Seq(Character) /\ Peek(0) = CharAt(i) /\ Peek(1) = CharAt(i + 1)
  BY PeekIs
<1>2. CharAt(i) = "/" /\ CharAt(i + 1) = "/" /\ at' = Forward(at, end - i)
  BY <1>1 DEF SkipLineComment
<1>3. "/" # Nul /\ "/" \notin Newline
  BY PrintableIs, CharacterIs DEF Nul, Newline
<1>4. ASSUME NEW k \in 1 .. n + 1
      PROVE  (k <= n => CharAt(k) = source[k] /\ CharAt(k) # Nul) /\ (k > n => CharAt(k) = Nul)
  BY <1>1, CharAtIs
<1>5. i <= n /\ i + 1 <= n
  <2>1. i <= n
    <3>1. i > n => CharAt(i) = Nul
      BY <1>1, <1>4
    <3> QED BY <1>1, <1>2, <1>3, <3>1
  <2>2. i + 1 \in 1 .. n + 1
    BY <1>1, <2>1
  <2>3. i + 1 > n => CharAt(i + 1) = Nul
    BY <1>4, <2>2
  <2> QED BY <1>1, <1>2, <1>3, <2>1, <2>3
<1>6. E \subseteq Nat /\ n + 1 \in E
  <2>1. n + 1 \in 1 .. n + 1 /\ n + 1 > n
    BY <1>1
  <2> QED BY <1>1, <1>4, <2>1
<1>7. end \in E /\ \A k \in E : end <= k
  <2> HIDE DEF E
  <2> QED BY <1>6, LeastOf
<1> HIDE DEF end
<1>8. end \in i .. n + 1 /\ CharAt(end) \in Newline \cup {Nul}
  BY <1>7
<1>9. ASSUME NEW k \in i .. end - 1
      PROVE  source[k] \in Character \ Newline
  <2>1. k \in i .. n + 1 /\ ~(end <= k) /\ k \in 1 .. n
    BY <1>1, <1>8
  <2>2. CharAt(k) \notin Newline \cup {Nul}
    BY <1>7, <2>1
  <2>3. CharAt(k) = source[k]
    BY <1>4, <2>1
  <2>4. source[k] \in Character
    BY <1>1, <2>1
  <2> QED BY <2>2, <2>3, <2>4
<1>10. end # i /\ end # i + 1
  BY <1>2, <1>3, <1>8
<1>11. end > i + 1 /\ end \in i + 1 .. n + 1
  BY <1>1, <1>8, <1>10
<1>12. end = n + 1 \/ source[end] \in Newline
  <2>1. end \in 1 .. n + 1
    BY <1>1, <1>8
  <2>2. end <= n => CharAt(end) = source[end] /\ CharAt(end) # Nul
    BY <1>4, <2>1
  <2> QED BY <1>1, <1>8, <2>1, <2>2
<1>13. source[i] = "/" /\ source[i + 1] = "/"
  <2>1. i \in 1 .. n + 1 /\ i + 1 \in 1 .. n + 1
    BY <1>1, <1>5
  <2> QED BY <1>2, <1>4, <1>5, <2>1
<1> QED BY <1>2, <1>9, <1>11, <1>12, <1>13 DEF Cuts, Within

LEMMA MarkCuts ==
  ASSUME LexerTypeOK, NEW a, NEW b, {a, b} = {"/", "*"}, Peek(0) = a, Peek(1) = b
  PROVE  /\ at.offset + 1 <= Len(source) /\ source[at.offset] = a /\ source[at.offset + 1] = b
         /\ Cuts(at.offset + 2)
<1> DEFINE i == at.offset
           n == Len(source)
<1>1. n \in Nat /\ i \in 1 .. n + 1 /\ source \in Seq(Character) /\ Peek(0) = CharAt(i) /\ Peek(1) = CharAt(i + 1)
  BY PeekIs
<1>2. a # Nul /\ b # Nul /\ a \in Character \ Newline /\ b \in Character \ Newline
  <2>1. {"/", "*"} = Table({16, 11}) /\ {16, 11} \in SUBSET Places
    BY PrintableIs DEF Table, Places
  <2>2. {"/", "*"} \subseteq Character \ Newline /\ Nul \notin {"/", "*"}
    BY <2>1, TableIsCharacter
  <2> QED BY <2>2
<1>3. i \in Nat \ {0} /\ i + 1 \in Nat \ {0}
  BY <1>1
<1>4. i <= n /\ i + 1 <= n
  BY <1>1, <1>2, <1>3, CharAtIs
<1>5. source[i] = a /\ source[i + 1] = b
  BY <1>1, <1>3, <1>4, CharAtIs
<1>6. i + 2 \in i + 1 .. n + 1
  BY <1>1, <1>4
<1>7. \A k \in i .. (i + 2) - 1 : k = i \/ k = i + 1
  BY <1>1
<1> QED BY <1>2, <1>4, <1>5, <1>6, <1>7 DEF Cuts, Within

(* Every step keeps the text; those that take a token are set apart.       *)
Lexes(kind, end, text) ==
    /\ Cuts(end) /\ text \in Seq(Character) \cup Seq(Bytes)
    /\ Take(kind, end, text)

Kind == {"identifier", "integer", "float", "symbol", "string"}
TakesToken == \E kind \in Kind : \E end, text : Lexes(kind, end, text)

(* The cursor passes what is no token.                                     *)
Passes ==
    /\ at' \in Position
    /\ \/ at.offset <= Len(source) /\ at' = Advance(at)
       \/ \E end : Cuts(end) /\ at' = Forward(at, end - at.offset)
    /\ comment' \in {comment, at, Nowhere}
    /\ UNCHANGED <<source, tokens, outcome>>

(* Or it stays, at the end of the text or of what can be lexed.            *)
Stops == outcome' \in {"end", "failed"} /\ UNCHANGED <<source, at, comment, tokens>>

LEMMA StepCases ==
  ASSUME LexerTypeOK, LexerNext
  PROVE  TakesToken \/ Passes \/ Stops
<1>1. Fail => Stops
  BY DEF Fail, Stops
<1>2. ASSUME at.offset <= Len(source), at' = Advance(at), comment' \in {comment, at, Nowhere},
             UNCHANGED <<source, tokens, outcome>>
      PROVE  Passes
  BY <1>2, AdvanceIs DEF Passes
<1>3. ASSUME NEW end, Cuts(end), at' = Forward(at, end - at.offset), comment' \in {comment, at, Nowhere},
             UNCHANGED <<source, tokens, outcome>>
      PROVE  Passes
  BY <1>3, ForwardIs DEF Passes
<1>4. ASSUME NEW kind \in Kind \ {"string"}, NEW end, Cuts(end), Take(kind, end, Spelling(end))
      PROVE  TakesToken
  <2>1. Spelling(end) \in Seq(Character)
    BY <1>4, SpellingType DEF Cuts
  <2> QED BY <1>4, <2>1 DEF TakesToken, Lexes
<1>5. Len(source) \in Nat /\ at.offset \in 1 .. Len(source) + 1 /\ (Peek(0) = Nul <=> at.offset > Len(source))
  <2>1. at.offset + 0 = at.offset
    BY PeekIs
  <2> QED BY <2>1, PeekIs
<1>6. CASE SkipSpace
  <2>1. Nul \notin Space
    BY OutsideTable, PrintableIs DEF Space, Nul, Newline
  <2> QED BY <1>2, <1>5, <1>6, <2>1 DEF SkipSpace
<1>7. CASE SkipLineComment
  BY <1>3, <1>7, LineCommentCuts DEF SkipLineComment
<1>8. CASE OpenBlockComment
  <2>1. Cuts(at.offset + 2)
    BY <1>8, MarkCuts DEF OpenBlockComment
  <2>2. (at.offset + 2) - at.offset = 2
    BY <1>5
  <2> QED BY <1>3, <1>8, <2>1, <2>2 DEF OpenBlockComment
<1>9. CASE InBlockComment
  BY <1>2, <1>5, <1>9 DEF InBlockComment
<1>10. CASE CloseBlockComment
  <2>1. Cuts(at.offset + 2)
    BY <1>10, MarkCuts DEF CloseBlockComment
  <2>2. (at.offset + 2) - at.offset = 2
    BY <1>5
  <2> QED BY <1>3, <1>10, <2>1, <2>2 DEF CloseBlockComment
<1>11. CASE UnterminatedComment
  BY <1>1, <1>11 DEF UnterminatedComment
<1>12. CASE Identifier
  BY <1>4, <1>12, IdentifierCuts DEF Kind
<1>13. CASE HexNumber
  BY <1>1, <1>4, <1>13, HexCuts DEF Kind
<1>14. CASE DecimalNumber
  <2>1. PICK w, m, x, e : /\ Cuts(e)
                          /\ IF (HasExponent(m) /\ e = x) \/ ~NumberEnds(e) THEN Fail
                             ELSE Take(IF e = w THEN "integer" ELSE "float", e, Spelling(e))
    BY <1>14, DecimalCuts
  <2>2. (IF e = w THEN "integer" ELSE "float") \in Kind \ {"string"}
    BY DEF Kind
  <2> QED BY <1>1, <1>4, <2>1, <2>2
<1>15. CASE StringLiteral
  BY <1>1, <1>15, StringCuts DEF TakesToken, Lexes, Kind
<1>16. CASE Symbol
  BY <1>4, <1>16, SymbolCuts DEF Kind
<1>17. CASE UnexpectedCharacter
  BY <1>1, <1>17 DEF UnexpectedCharacter
<1>18. CASE EndOfInput
  BY <1>18 DEF EndOfInput, Stops
<1> QED BY <1>6, <1>7, <1>8, <1>9, <1>10, <1>11, <1>12, <1>13, <1>14, <1>15, <1>16, <1>17, <1>18 DEF LexerNext

LEMMA LexerStepType ==
  ASSUME LexerTypeOK, [LexerNext]_lexerVars
  PROVE  LexerTypeOK'
<1>1. source' = source => Position' = Position /\ Token' = Token
  BY DEF Position, Token
<1>2. CASE TakesToken
  BY <1>2, TakeType DEF TakesToken, Lexes, Kind
<1>3. CASE Passes
  <2>1. at \in Position
    BY DEF LexerTypeOK
  <2> QED BY <1>1, <1>3, <2>1 DEF Passes, LexerTypeOK
<1>4. CASE Stops
  BY <1>1, <1>4 DEF Stops, LexerTypeOK
<1>5. CASE UNCHANGED lexerVars
  BY <1>1, <1>5 DEF lexerVars, LexerTypeOK
<1> QED BY <1>2, <1>3, <1>4, <1>5, StepCases

LEMMA LexerTypeCorrect == LexerSpec => []LexerTypeOK
<1>1. LexerInit => LexerTypeOK
  BY LexerInitType
<1>2. LexerTypeOK /\ [LexerNext]_lexerVars => LexerTypeOK'
  BY LexerStepType
<1> QED BY <1>1, <1>2, PTL DEF LexerSpec

-----------------------------------------------------------------------------
(* Lines and columns.                                                      *)

EndsIn(s, i) == {k \in 1 .. i - 1 : s[k] \in Newline /\ ~(s[k] = "\r" /\ k < Len(s) /\ s[k + 1] = "\n")}
LocatedIn(s, p) ==
    /\ p.line = 1 + Cardinality(EndsIn(s, p.offset))
    /\ p.column = p.offset - Max({0} \cup EndsIn(s, p.offset))

LEMMA LocatedIs == \A p : IsLocation(p) <=> LocatedIn(source, p)
BY DEF IsLocation, LocatedIn, LineEnds, EndsIn

LEMMA EndsAre ==
  ASSUME NEW s, NEW i \in Nat \ {0}
  PROVE  /\ EndsIn(s, i) \subseteq 0 .. i - 1 /\ 0 \notin EndsIn(s, i) /\ IsFiniteSet(EndsIn(s, i))
         /\ Max({0} \cup EndsIn(s, i)) \in 0 .. i - 1 /\ Cardinality(EndsIn(s, i)) \in Nat
<1> DEFINE E == EndsIn(s, i)
<1>1. E \subseteq 0 .. i - 1 /\ 0 \notin E /\ i - 1 \in Nat
  BY DEF EndsIn
<1>2. IsFiniteSet(E)
  <2>1. IsFiniteSet(0 .. i - 1)
    BY <1>1, FS_Interval
  <2> QED BY <1>1, <2>1, FS_Subset
<1> HIDE DEF E
<1>3. {0} \cup E \subseteq 0 .. i - 1 /\ {0} \cup E # {}
  BY <1>1
<1>4. Max({0} \cup E) \in {0} \cup E
  BY <1>1, <1>3, GreatestNatural
<1> QED BY <1>1, <1>2, <1>3, <1>4, FS_CardinalityType DEF E

(* A line that goes on, and one that ends at k.                            *)
LEMMA SameLine ==
  ASSUME NEW s, NEW i \in Nat \ {0}, NEW j \in Nat, j >= i, \A k \in i .. j - 1 : s[k] \notin Newline
  PROVE  EndsIn(s, j) = EndsIn(s, i)
<1>1. \A k \in 1 .. j - 1 : k \in 1 .. i - 1 \/ k \in i .. j - 1
  OBVIOUS
<1>2. \A k \in 1 .. i - 1 : k \in 1 .. j - 1
  OBVIOUS
<1> QED BY <1>1, <1>2, Zenon DEF EndsIn

LEMMA NextLine ==
  ASSUME NEW s, NEW i \in Nat \ {0}, NEW k \in Nat, k >= i, EndsIn(s, k + 1) = EndsIn(s, i) \cup {k}
  PROVE  /\ Cardinality(EndsIn(s, k + 1)) = Cardinality(EndsIn(s, i)) + 1
         /\ Max({0} \cup EndsIn(s, k + 1)) = k
<1> DEFINE E == EndsIn(s, i)
           M == {0} \cup EndsIn(s, k + 1)
<1>1. E \subseteq 0 .. i - 1 /\ IsFiniteSet(E)
  BY EndsAre
<1>2. k \notin E
  BY <1>1
<1>3. Cardinality(E \cup {k}) = Cardinality(E) + 1
  BY <1>1, <1>2, FS_AddElement
<1>4. M \subseteq 0 .. k /\ k \in M
  BY <1>1
<1> HIDE DEF M
<1>5. Max(M) \in M /\ Max(M) >= k
  BY <1>4, GreatestNatural
<1>6. Max(M) = k
  <2>1. Max(M) \in 0 .. k
    BY <1>4, <1>5
  <2> DEFINE v == Max(M)
  <2> HIDE DEF v
  <2> QED BY <1>5, <2>1 DEF v
<1> QED BY <1>3, <1>6 DEF M

LEMMA ForwardLocated ==
  ASSUME LexerTypeOK, LocatedIn(source, at), NEW end, Cuts(end)
  PROVE  LocatedIn(source, Forward(at, end - at.offset))
<1> DEFINE i == at.offset
           p == Forward(at, end - i)
<1>1. Len(source) \in Nat /\ i \in 1 .. Len(source) + 1 /\ end \in i + 1 .. Len(source) + 1
  BY PeekIs DEF Cuts
<1>2. p = [offset |-> end, line |-> at.line, column |-> at.column + (end - i)]
  BY ForwardIs
<1>3. at.column \in Nat
  BY DEF LexerTypeOK, Position
<1>4. EndsIn(source, end) = EndsIn(source, i)
  <2>1. \A k \in i .. end - 1 : source[k] \notin Newline
    BY DEF Cuts, Within
  <2>2. i \in Nat \ {0} /\ end \in Nat /\ end >= i
    BY <1>1
  <2> QED BY <2>1, <2>2, SameLine
<1>5. Max({0} \cup EndsIn(source, i)) \in 0 .. i - 1
  BY <1>1, EndsAre
<1> DEFINE v == Max({0} \cup EndsIn(source, i))
<1>6. at.line = 1 + Cardinality(EndsIn(source, i)) /\ at.column = i - v
  BY DEF LocatedIn
<1>7. v \in Int
  BY <1>1, <1>5
<1> HIDE DEF v, p
<1>8. at.column + (end - i) = end - v
  BY <1>1, <1>3, <1>6, <1>7
<1>9. p.offset = end /\ p.line = at.line /\ p.column = end - v
  BY <1>2, <1>8
<1> QED BY <1>4, <1>6, <1>9 DEF LocatedIn, v, p

LEMMA AdvanceLocated ==
  ASSUME LexerTypeOK, LocatedIn(source, at), at.offset <= Len(source)
  PROVE  LocatedIn(source, Advance(at))
<1> DEFINE i == at.offset
           n == Len(source)
           p == Advance(at)
           E == EndsIn(source, i)
           v == Max({0} \cup E)
<1>1. n \in Nat /\ i \in 1 .. n /\ i \in Nat \ {0}
  BY PeekIs
<1>2. at.line \in Nat /\ at.column \in Nat
  BY DEF LexerTypeOK, Position
<1>3. at.line = 1 + Cardinality(E) /\ at.column = i - v
  BY DEF LocatedIn
<1>4. v \in 0 .. i - 1 /\ Cardinality(E) \in Nat
  BY <1>1, EndsAre
<1>5. CASE source[i] \notin Newline /\ p = [offset |-> i + 1, line |-> at.line, column |-> at.column + 1]
  <2>1. EndsIn(source, i + 1) = E
    <3>1. \A k \in i .. (i + 1) - 1 : k = i
      BY <1>1
    <3>2. i + 1 \in Nat /\ i + 1 >= i
      BY <1>1
    <3> QED BY <1>1, <1>5, <3>1, <3>2, SameLine
  <2> HIDE DEF v, p
  <2>2. at.column + 1 = (i + 1) - v
    BY <1>1, <1>3, <1>4
  <2>3. p.offset = i + 1 /\ p.line = at.line /\ p.column = (i + 1) - v
    BY <1>5, <2>2
  <2> QED BY <1>3, <2>1, <2>3 DEF LocatedIn, v, p
<1>6. ASSUME NEW k \in Nat, k >= i, EndsIn(source, k + 1) = E \cup {k},
             p = [offset |-> k + 1, line |-> at.line + 1, column |-> 1]
      PROVE  LocatedIn(source, p)
  <2>1. Cardinality(EndsIn(source, k + 1)) = Cardinality(E) + 1 /\ Max({0} \cup EndsIn(source, k + 1)) = k
    BY <1>1, <1>6, NextLine
  <2>2. p.offset = k + 1 /\ p.line = at.line + 1 /\ p.column = 1
    BY <1>6
  <2> HIDE DEF p, E
  <2>3. p.line = 1 + (Cardinality(E) + 1) /\ p.column = (k + 1) - k
    BY <1>3, <1>4, <1>6, <2>2
  <2> QED BY <2>1, <2>2, <2>3 DEF LocatedIn
<1>7. CASE /\ source[i] \in Newline /\ ~(source[i] = "\r" /\ i < n /\ source[i + 1] = "\n")
           /\ p = [offset |-> i + 1, line |-> at.line + 1, column |-> 1]
  <2>1. \A k \in 1 .. (i + 1) - 1 : k \in 1 .. i - 1 \/ k = i
    BY <1>1
  <2>2. \A k \in 1 .. i - 1 : k \in 1 .. (i + 1) - 1
    BY <1>1
  <2>3. i \in 1 .. (i + 1) - 1
    BY <1>1
  <2>4. EndsIn(source, i + 1) = E \cup {i}
    BY <1>7, <2>1, <2>2, <2>3, Zenon DEF EndsIn
  <2> HIDE DEF p, E
  <2> QED BY <1>1, <1>6, <1>7, <2>4 DEF p
<1>8. CASE /\ source[i] = "\r" /\ i < n /\ source[i + 1] = "\n"
           /\ p = [offset |-> i + 2, line |-> at.line + 1, column |-> 1]
  <2>1. \A k \in 1 .. ((i + 1) + 1) - 1 : k \in 1 .. i - 1 \/ k = i \/ k = i + 1
    BY <1>1
  <2>2. \A k \in 1 .. i - 1 : k \in 1 .. ((i + 1) + 1) - 1
    BY <1>1
  <2>3. i + 1 \in 1 .. ((i + 1) + 1) - 1 /\ (i + 1) + 1 = i + 2 /\ i + 1 \in Nat /\ i + 1 >= i
    BY <1>1
  <2>4. source[i + 1] \in Newline /\ source[i + 1] # "\r"
    BY <1>8 DEF Newline
  <2>5. EndsIn(source, (i + 1) + 1) = E \cup {i + 1}
    BY <1>8, <2>1, <2>2, <2>3, <2>4, Zenon DEF EndsIn
  <2> HIDE DEF p, E
  <2> QED BY <1>1, <1>6, <1>8, <2>3, <2>5 DEF p
<1> QED BY <1>1, <1>5, <1>7, <1>8, AdvanceIs

LEMMA LocationsStay ==
  ASSUME LexerTypeOK, LocationsExact, [LexerNext]_lexerVars
  PROVE  LocationsExact'
<1>1. LocatedIn(source, at) /\ (\A n \in DOMAIN tokens : LocatedIn(source, tokens[n].location))
      /\ (comment # Nowhere => LocatedIn(source, comment))
  BY LocatedIs DEF LocationsExact
<1>2. SUFFICES ASSUME LocatedIn(source', at'), \A n \in DOMAIN tokens' : LocatedIn(source', tokens'[n].location),
                      comment' # Nowhere => LocatedIn(source', comment')
               PROVE  LocationsExact'
  <2>1. CASE TakesToken
    <3>1. PICK kind, end, text : kind \in Kind /\ Cuts(end) /\ Take(kind, end, text)
      BY <2>1 DEF TakesToken, Lexes
    <3>2. /\ tokens' = Append(tokens, [kind |-> kind, location |-> at, last |-> end - 1, text |-> text])
          /\ at' = Forward(at, end - at.offset) /\ UNCHANGED <<source, comment>>
      BY <3>1 DEF Take
    <3>3. LocatedIn(source', at')
      BY <1>1, <3>1, <3>2, ForwardLocated
    <3>4. ASSUME NEW n \in DOMAIN tokens' PROVE LocatedIn(source', tokens'[n].location)
      <4>1. tokens \in Seq(Token)
        BY DEF LexerTypeOK
      <4>2. \/ n \in DOMAIN tokens /\ tokens'[n] = tokens[n]
            \/ tokens'[n] = [kind |-> kind, location |-> at, last |-> end - 1, text |-> text]
        BY <3>2, <4>1
      <4> QED BY <1>1, <3>2, <4>2
    <3> QED BY <1>1, <3>2, <3>3, <3>4
  <2>2. CASE Passes
    <3>1. LocatedIn(source', at')
      BY <1>1, <2>2, ForwardLocated, AdvanceLocated DEF Passes
    <3> QED BY <1>1, <2>2, <3>1 DEF Passes
  <2>3. CASE Stops
    BY <1>1, <2>3 DEF Stops
  <2>4. CASE UNCHANGED lexerVars
    BY <1>1, <2>4 DEF lexerVars
  <2> QED BY <2>1, <2>2, <2>3, <2>4, StepCases
<1>3. (\A p : IsLocation(p) <=> LocatedIn(source, p))'
  BY LocatedIs, PTL
<1> QED BY <1>2, <1>3 DEF LocationsExact

(* Diagnostics name the line and column of a character, for texts of every *)
(* length and every way a line ends (Lexer::advance, proto_parser.cpp:281).*)
THEOREM LocationsAreExact == LexerSpec => []LocationsExact
<1>1. LexerInit => LocationsExact
  <2> SUFFICES ASSUME LexerInit PROVE LocationsExact
    OBVIOUS
  <2>1. at = [offset |-> 1, line |-> 1, column |-> 1] /\ tokens = <<>> /\ comment = Nowhere
    BY DEF LexerInit, LexerInitWith
  <2>2. EndsIn(source, 1) = {}
    <3>1. \A k \in 1 .. 1 - 1 : FALSE
      OBVIOUS
    <3> QED BY <3>1 DEF EndsIn
  <2>3. Cardinality({}) = 0
    BY FS_EmptySet
  <2>4. Max({0} \cup EndsIn(source, 1)) = 0
    <3>1. {0} \cup EndsIn(source, 1) \subseteq 0 .. 0
      BY <2>2
    <3>2. Max({0} \cup EndsIn(source, 1)) \in {0} \cup EndsIn(source, 1)
      BY <3>1, GreatestNatural
    <3> QED BY <2>2, <3>2
  <2>5. LocatedIn(source, at)
    <3>1. at.offset = 1 /\ at.line = 1 /\ at.column = 1
      BY <2>1
    <3> QED BY <2>2, <2>3, <2>4, <3>1 DEF LocatedIn
  <2> QED BY <2>1, <2>5, LocatedIs DEF LocationsExact
<1>2. LexerTypeOK /\ LocationsExact /\ [LexerNext]_lexerVars => LocationsExact'
  BY LocationsStay
<1> QED BY <1>1, <1>2, LexerTypeCorrect, PTL DEF LexerSpec
-----------------------------------------------------------------------------
(* Integers.                                                               *)

IsHexText(text) ==
    /\ Len(text) > 2 /\ text[1] = "0" /\ text[2] \in {"x", "X"}
    /\ SubSeq(text, 3, Len(text)) \in Seq(Hex)
NumberText(text) == (text \in Seq(Digit) /\ Len(text) > 0) \/ (text \in Seq(Character) /\ IsHexText(text))

TextsTyped(t) ==
    /\ t.kind = "integer" => NumberText(t.text)
    /\ t.kind = "string" => t.text \in Seq(Bytes)

LEMMA SpellingIs ==
  ASSUME LexerTypeOK, NEW end \in at.offset + 1 .. Len(source) + 1, NEW chars,
         Within(source, at.offset, end - 1, chars)
  PROVE  Spelling(end) \in Seq(chars)
<1> DEFINE s == Spelling(end)
           m == end - at.offset
<1>1. s \in Seq(Character) /\ Len(s) = m /\ \A k \in 1 .. m : s[k] = source[at.offset + k - 1]
  BY SpellingType
<1>2. Len(source) \in Nat /\ at.offset \in 1 .. Len(source) + 1
  BY PeekIs
<1>3. ASSUME NEW k \in 1 .. m
      PROVE  s[k] \in chars
  <2>1. at.offset + k - 1 \in at.offset .. end - 1
    BY <1>2
  <2> QED BY <1>1, <2>1 DEF Within
<1> HIDE DEF s, m
<1>4. s = [k \in 1 .. m |-> s[k]] /\ m \in Nat
  BY <1>1
<1> QED BY <1>3, <1>4 DEF s

LEMMA HexSpelling ==
  ASSUME LexerTypeOK, NEW end, HexCut(end), end # at.offset + 2
  PROVE  NumberText(Spelling(end))
<1> DEFINE s == Spelling(end)
           i == at.offset
           n == Len(source)
<1>1. n \in Nat /\ i \in 1 .. n + 1 /\ end \in i + 3 .. n + 1
  <2>1. n \in Nat /\ i \in 1 .. n + 1
    BY PeekIs
  <2>2. end \in i + 2 .. n + 1
    BY DEF HexCut
  <2> HIDE DEF n
  <2> QED BY <2>1, <2>2
<1>2. end \in i + 1 .. n + 1
  BY <1>1
<1>3. s \in Seq(Character) /\ Len(s) = end - i /\ \A k \in 1 .. end - i : s[k] = source[i + k - 1]
  BY <1>2, SpellingType
<1>4. Len(s) > 2 /\ s[1] = source[i] /\ s[2] = source[i + 1]
  <2>1. 1 \in 1 .. end - i /\ 2 \in 1 .. end - i /\ i + 1 - 1 = i /\ i + 2 - 1 = i + 1 /\ end - i > 2
    BY <1>1
  <2> QED BY <1>3, <2>1
<1>5. ASSUME NEW k \in 3 .. end - i
      PROVE  s[k] \in Hex
  <2>1. k \in 1 .. end - i /\ i + k - 1 \in i + 2 .. end - 1
    <3> HIDE DEF i, n
    <3> QED BY <1>1
  <2>2. s[k] = source[i + k - 1]
    BY <1>3, <2>1
  <2>3. source[i + k - 1] \in Hex
    BY <2>1 DEF HexCut, Within
  <2> QED BY <2>2, <2>3
<1>6. SubSeq(s, 3, Len(s)) \in Seq(Hex)
  <2> DEFINE m == end - i
  <2>1. m \in Nat /\ m > 2
    BY <1>1
  <2>2. \A k \in 3 .. m : s[k] \in Hex
    BY <1>5
  <2>3. Len(s) = m
    BY <1>3
  <2> HIDE DEF s, m
  <2> DEFINE t == SubSeq(s, 3, m)
  <2>4. t = [k \in 1 .. m - 2 |-> s[k + 2]]
    BY <1>3, <2>1
  <2>5. \A k \in 1 .. m - 2 : k + 2 \in 3 .. m
    BY <2>1
  <2>6. m - 2 \in Nat
    BY <2>1
  <2> HIDE DEF t
  <2>7. t \in Seq(Hex)
    BY <2>2, <2>4, <2>5, <2>6
  <2> QED BY <2>3, <2>7 DEF t
<1>7. s[1] = "0" /\ s[2] \in {"x", "X"}
  BY <1>4 DEF HexCut
<1> HIDE DEF s
<1> QED BY <1>3, <1>4, <1>6, <1>7 DEF NumberText, IsHexText, s

LEMMA FreshTexts ==
  ASSUME LexerTypeOK, LexerNext
  PROVE  UNCHANGED tokens \/ \E t : tokens' = Append(tokens, t) /\ TextsTyped(t)
<1>1. Passes \/ Stops \/ Fail => UNCHANGED tokens
  BY DEF Passes, Stops, Fail
<1>2. ASSUME NEW kind, NEW end, NEW text, Take(kind, end, text),
             kind = "integer" => NumberText(text), kind = "string" => text \in Seq(Bytes)
      PROVE  \E t : tokens' = Append(tokens, t) /\ TextsTyped(t)
  <2> DEFINE t == [kind |-> kind, location |-> at, last |-> end - 1, text |-> text]
  <2>1. t.kind = kind /\ t.text = text
    OBVIOUS
  <2>2. tokens' = Append(tokens, t)
    BY <1>2 DEF Take
  <2> HIDE DEF t
  <2> QED BY <1>2, <2>1, <2>2 DEF TextsTyped
<1>3. CASE Identifier
  BY <1>2, <1>3, IdentifierCuts
<1>4. CASE HexNumber
  <2>1. PICK end : HexCut(end) /\ IF end = at.offset + 2 \/ CharAt(end) \in Word THEN Fail
                                  ELSE Take("integer", end, Spelling(end))
    BY <1>4, HexCuts
  <2>2. CASE Take("integer", end, Spelling(end)) /\ end # at.offset + 2
    BY <1>2, <2>1, <2>2, HexSpelling
  <2> QED BY <1>1, <2>1, <2>2
<1>5. CASE DecimalNumber
  <2>1. PICK w, m, x, e : /\ Decimal(w, m, x, e) /\ Cuts(e)
                          /\ IF (HasExponent(m) /\ e = x) \/ ~NumberEnds(e) THEN Fail
                             ELSE Take(IF e = w THEN "integer" ELSE "float", e, Spelling(e))
    BY <1>5, DecimalCuts
  <2>2. CASE e = w /\ Take("integer", e, Spelling(e))
    <3>1. e \in at.offset + 1 .. Len(source) + 1 /\ Within(source, at.offset, e - 1, Digit)
      BY <2>1, <2>2 DEF Decimal, Cuts
    <3>2. Spelling(e) \in Seq(Digit)
      BY <3>1, SpellingIs
    <3>3. Len(Spelling(e)) = e - at.offset /\ e - at.offset > 0
      BY <3>1, SpellingType, PeekIs
    <3>4. NumberText(Spelling(e))
      BY <3>2, <3>3 DEF NumberText
    <3> QED BY <1>2, <2>2, <3>4
  <2>3. CASE Take("float", e, Spelling(e))
    BY <1>2, <2>3
  <2> QED BY <1>1, <2>1, <2>2, <2>3
<1>6. CASE StringLiteral
  BY <1>1, <1>2, <1>6, StringCuts
<1>7. CASE Symbol
  BY <1>2, <1>7, SymbolCuts
<1>8. CASE \/ SkipSpace \/ SkipLineComment \/ OpenBlockComment \/ InBlockComment \/ CloseBlockComment
           \/ UnterminatedComment \/ UnexpectedCharacter \/ EndOfInput
  BY <1>8 DEF SkipSpace, SkipLineComment, OpenBlockComment, InBlockComment, CloseBlockComment,
     UnterminatedComment, UnexpectedCharacter, EndOfInput, Fail
<1> QED BY <1>3, <1>4, <1>5, <1>6, <1>7, <1>8 DEF LexerNext

TextsOK == \A n \in DOMAIN tokens : TextsTyped(tokens[n])

LEMMA TextsStay == LexerSpec => []TextsOK
<1>1. LexerInit => TextsOK
  BY DEF LexerInit, LexerInitWith, TextsOK
<1>2. LexerTypeOK /\ TextsOK /\ [LexerNext]_lexerVars => TextsOK'
  <2> SUFFICES ASSUME LexerTypeOK, TextsOK, [LexerNext]_lexerVars
               PROVE  \A n \in DOMAIN tokens' : TextsTyped(tokens'[n])
    BY DEF TextsOK, TextsTyped
  <2>1. CASE UNCHANGED tokens
    BY <2>1 DEF TextsOK
  <2>2. ASSUME NEW t, tokens' = Append(tokens, t), TextsTyped(t)
        PROVE  \A n \in DOMAIN tokens' : TextsTyped(tokens'[n])
    <3> SUFFICES ASSUME NEW n \in DOMAIN tokens' PROVE TextsTyped(tokens'[n])
      OBVIOUS
    <3>1. tokens \in Seq(Token)
      BY DEF LexerTypeOK
    <3>2. (n \in DOMAIN tokens /\ tokens'[n] = tokens[n]) \/ tokens'[n] = t
      BY <2>2, <3>1
    <3> QED BY <2>2, <3>2 DEF TextsOK
  <2> QED BY <2>1, <2>2, FreshTexts DEF lexerVars
<1> QED BY <1>1, <1>2, LexerTypeCorrect, PTL DEF LexerSpec

SpelledIn(base, digits) ==
    IF \A i \in DOMAIN digits : HexValue[digits[i]] < base THEN {Numeral(base, digits)} ELSE {}

LEMMA SpelledIs ==
  ASSUME NEW base \in Base, NEW digits \in Seq(Hex)
  PROVE  SpelledIn(base, digits) = Spells(base, digits)
<1>1. Numeral(base, digits) \in Nat
  BY NumeralType
<1> QED BY <1>1 DEF SpelledIn, Spells

LEMMA ReadAsSpelled ==
  ASSUME NEW text, NumberText(text)
  PROVE  ParseUnsignedInteger(text) = Spelled(text) \cap 0 .. UINT64_MAX /\ Spelled(text) \subseteq Nat
<1> DEFINE d == SubSeq(text, 3, Len(text))
<1>0. ASSUME NEW base \in Base, NEW digits \in Seq(Hex)
      PROVE  Spells(base, digits) \subseteq Nat
  BY DEF Spells
<1>1. CASE text \in Seq(Character) /\ IsHexText(text)
  <2>1. Len(text) > 2 /\ Len(text) > 1 /\ text[1] = "0" /\ text[2] \in {"x", "X"} /\ d \in Seq(Hex)
    BY <1>1 DEF IsHexText
  <2>2. ParseUnsignedInteger(text) = Digits(16, d)
    BY <2>1 DEF ParseUnsignedInteger
  <2>3. Spelled(text) = SpelledIn(16, d)
    BY <2>1, Zenon DEF Spelled, SpelledIn
  <2> HIDE DEF d
  <2>4. 16 \in Base
    BY DEF Base
  <2> QED BY <1>0, <2>1, <2>2, <2>3, <2>4, DigitsAre, SpelledIs
<1>2. CASE text \in Seq(Digit) /\ Len(text) > 0
  <2>1. text \in Seq(Hex) /\ Len(text) \in Nat /\ DOMAIN text = 1 .. Len(text) /\ \A i \in 1 .. Len(text) : text[i] \in Digit
    <3>1. Digit \subseteq Hex
      BY WordsAreCharacters
    <3> QED BY <1>2, <3>1
  <2>2. ~(Len(text) > 1 /\ text[2] \in {"x", "X"})
    <3>1. Len(text) > 1 => text[2] \in Digit
      BY <2>1
    <3> QED BY <3>1, PointIsNoDigit
  <2>3. Len(text) > 2 => Len(text) > 1
    BY <2>1
  <2>4. CASE Len(text) > 1 /\ text[1] = "0"
    <3>1. ParseUnsignedInteger(text) = Digits(8, Tail(text))
      BY <2>2, <2>3, <2>4 DEF ParseUnsignedInteger
    <3>2. Spelled(text) = SpelledIn(8, text)
      BY <2>2, <2>4, Zenon DEF Spelled, SpelledIn
    <3>3. 8 \in Base
      BY DEF Base
    <3> DEFINE t == Tail(text)
    <3>4. t \in Seq(Hex) /\ DOMAIN t = 1 .. Len(text) - 1 /\ \A i \in 1 .. Len(text) - 1 : t[i] = text[i + 1]
      BY <2>1, <2>4
    <3> HIDE DEF t
    <3>5. Numeral(8, text) = Numeral(8, t)
      BY <2>1, <2>4, <3>3, LeadingZero DEF t
    <3>6. (\A i \in DOMAIN text : HexValue[text[i]] < 8) <=> \A i \in DOMAIN t : HexValue[t[i]] < 8
      <4>1. HexValue[text[1]] = 0
        <5>1. text[1] = Printable[17] /\ text[1] \in Hex /\ 17 \in 17 .. 26
          <6>1. 1 \in 1 .. Len(text) /\ 17 \in 17 .. 26
            BY <2>1, <2>4
          <6>2. text[1] = Printable[17]
            BY <2>4, PrintableIs
          <6>3. text[1] \in Hex
            BY <2>1, <6>1
          <6> QED BY <6>1, <6>2, <6>3
        <5>2. HexValue[text[1]] = 17 - 17
          BY <5>1, HexValueIs
        <5> QED BY <5>2
      <4>2. \A i \in 1 .. Len(text) - 1 : i + 1 \in 1 .. Len(text)
        BY <2>1
      <4>3. \A i \in 1 .. Len(text) : i = 1 \/ (i - 1 \in 1 .. Len(text) - 1 /\ (i - 1) + 1 = i)
        BY <2>1
      <4>4. ASSUME \A i \in DOMAIN text : HexValue[text[i]] < 8, NEW i \in DOMAIN t
            PROVE  HexValue[t[i]] < 8
        BY <2>1, <3>4, <4>2, <4>4
      <4>5. ASSUME \A i \in DOMAIN t : HexValue[t[i]] < 8, NEW i \in DOMAIN text
            PROVE  HexValue[text[i]] < 8
        <5>1. CASE i = 1
          BY <4>1, <5>1
        <5>2. CASE i # 1
          <6>1. i - 1 \in DOMAIN t /\ t[i - 1] = text[i]
            BY <2>1, <3>4, <4>3, <5>2
          <6> QED BY <4>5, <6>1
        <5> QED BY <5>1, <5>2
      <4> QED BY <4>4, <4>5
    <3>7. SpelledIn(8, text) = SpelledIn(8, t)
      BY <3>5, <3>6 DEF SpelledIn
    <3>8. ParseUnsignedInteger(text) = Digits(8, t)
      BY <3>1 DEF t
    <3>9. Digits(8, t) = Spells(8, t) \cap 0 .. UINT64_MAX /\ SpelledIn(8, t) = Spells(8, t)
      BY <3>3, <3>4, DigitsAre, SpelledIs
    <3> QED BY <1>0, <3>2, <3>3, <3>4, <3>7, <3>8, <3>9
  <2>5. CASE ~(Len(text) > 1 /\ text[1] = "0")
    <3>1. ParseUnsignedInteger(text) = Digits(10, text)
      BY <2>2, <2>3, <2>5 DEF ParseUnsignedInteger
    <3>2. Spelled(text) = SpelledIn(10, text)
      BY <2>2, <2>5, Zenon DEF Spelled, SpelledIn
    <3>3. 10 \in Base
      BY DEF Base
    <3> QED BY <1>0, <2>1, <3>1, <3>2, <3>3, DigitsAre, SpelledIs
  <2> QED BY <2>4, <2>5
<1> QED BY <1>1, <1>2 DEF NumberText

LEMMA SignedAsSpelled ==
  ASSUME NEW text, NEW S, S \subseteq Nat, ParseUnsignedInteger(text) = S \cap 0 .. UINT64_MAX
  PROVE  /\ ParseSigned("", text, INT32_MAX) = S \cap 0 .. INT32_MAX
         /\ ParseSigned("-", text, INT32_MAX) = {-v : v \in S} \cap (-INT32_MAX - 1) .. 0
<1>1. INT32_MAX \in Nat /\ UINT64_MAX \in Nat /\ INT32_MAX < UINT64_MAX
  BY LimitsAssumption
<1> DEFINE P == ParseUnsignedInteger(text)
           M == INT32_MAX
<1>2. \A v : v \in P <=> v \in S /\ v \in Nat /\ v <= UINT64_MAX
  OBVIOUS
<1>3. ParseSigned("", text, M) = {v : v \in {m \in P : m <= M}}
  BY DEF ParseSigned
<1>4. ParseSigned("-", text, M) = {-v : v \in {m \in P : m <= M + 1}}
  BY DEF ParseSigned
<1> HIDE DEF P
<1>5. {v : v \in {m \in P : m <= M}} = S \cap 0 .. M
  BY <1>1, <1>2
<1>6. \A v \in Nat : -v \in (-M - 1) .. 0 <=> v <= M + 1
  BY <1>1
<1>7. \A v \in Nat : v <= M + 1 => v <= UINT64_MAX
  BY <1>1
<1>8. {-v : v \in {m \in P : m <= M + 1}} = {-v : v \in S} \cap (-M - 1) .. 0
  <2>1. ASSUME NEW u \in {-v : v \in {m \in P : m <= M + 1}}
        PROVE  u \in {-v : v \in S} \cap (-M - 1) .. 0
    <3>1. PICK v \in P : v <= M + 1 /\ u = -v
      OBVIOUS
    <3> QED BY <1>2, <1>6, <3>1
  <2>2. ASSUME NEW u \in {-v : v \in S} \cap (-M - 1) .. 0
        PROVE  u \in {-v : v \in {m \in P : m <= M + 1}}
    <3>1. PICK v \in S : u = -v
      OBVIOUS
    <3>2. v \in Nat /\ v <= M + 1
      BY <1>6, <3>1
    <3>3. v \in P
      BY <1>2, <1>7, <3>1, <3>2
    <3> QED BY <3>1, <3>2, <3>3
  <2> QED BY <2>1, <2>2
<1> QED BY <1>3, <1>4, <1>5, <1>8

(* The text of every integer token is read as the number it spells in its  *)
(* base, or refused, whatever its length and whatever the limits of the    *)
(* two types (parse_unsigned_integer, proto_parser.cpp:481, and            *)
(* parse_signed_32, proto_parser.cpp:510).                                 *)
THEOREM IntegersReadExactly == LexerSpec => []IntegersExact
<1>1. TextsOK => IntegersExact
  <2> SUFFICES ASSUME TextsOK, NEW n \in DOMAIN tokens, tokens[n].kind = "integer"
               PROVE  LET text == tokens[n].text
                          spelled == Spelled(text)
                      IN  /\ ParseUnsignedInteger(text) = spelled \cap 0 .. UINT64_MAX
                          /\ ParseSigned("", text, INT32_MAX) = spelled \cap 0 .. INT32_MAX
                          /\ ParseSigned("-", text, INT32_MAX) = {-v : v \in spelled} \cap (-INT32_MAX - 1) .. 0
    BY DEF IntegersExact
  <2> DEFINE text == tokens[n].text
             S == Spelled(text)
  <2>1. NumberText(text)
    BY DEF TextsOK, TextsTyped
  <2> HIDE DEF text, S
  <2>2. ParseUnsignedInteger(text) = S \cap 0 .. UINT64_MAX /\ S \subseteq Nat
    BY <2>1, ReadAsSpelled DEF S
  <2>3. /\ ParseSigned("", text, INT32_MAX) = S \cap 0 .. INT32_MAX
        /\ ParseSigned("-", text, INT32_MAX) = {-v : v \in S} \cap (-INT32_MAX - 1) .. 0
    BY <2>2, SignedAsSpelled
  <2> QED BY <2>2, <2>3 DEF text, S
<1> QED BY <1>1, TextsStay, PTL
-----------------------------------------------------------------------------
(* Bytes written as text, and read back.                                   *)

(* The three ways in which a byte is written.                              *)
Letters == <<"n", "r", "t", DoubleQuote, "'", "\\">>
Lettered == <<10, 13, 9, 34, 39, 92>>
OctalDigit(k) == Printable[17 + k]

LEMMA EscapedIs ==
  ASSUME NEW b \in Bytes
  PROVE  \/ \E k \in 1 .. 6 : b = Lettered[k] /\ EscapedByte(b) = <<"\\", Letters[k]>>
         \/ b \in (32 .. 126) \ {34, 39, 92} /\ EscapedByte(b) = <<Printable[b - 31]>>
         \/ EscapedByte(b) = <<"\\", OctalDigit(b \div 64), OctalDigit((b \div 8) % 8), OctalDigit(b % 8)>>
<1>1. EscapedByte(b) =
        CASE b = 10 -> <<"\\", "n">>
          [] b = 13 -> <<"\\", "r">>
          [] b = 9 -> <<"\\", "t">>
          [] b \in {34, 39, 92} -> <<"\\", Printable[b - 31]>>
          [] b \in (32 .. 126) \ {34, 39, 92} -> <<Printable[b - 31]>>
          [] OTHER -> OctalOf(b)
  BY Zenon DEF EscapedByte
<1> DEFINE R == (32 .. 126) \ {34, 39, 92}
           Q == {34, 39, 92}
           quoted == <<"\\", Printable[b - 31]>>
           plain == <<Printable[b - 31]>>
<1>2. /\ b = 10 => b # 13 /\ b # 9 /\ b \notin Q /\ b \notin R
      /\ b = 13 => b # 10 /\ b # 9 /\ b \notin Q /\ b \notin R
      /\ b = 9 => b # 13 /\ b # 10 /\ b \notin Q /\ b \notin R
      /\ b \in Q => b # 13 /\ b # 9 /\ b # 10 /\ b \notin R
      /\ b \in R => b # 13 /\ b # 9 /\ b # 10 /\ b \notin Q
  OBVIOUS
<1>3. EscapedByte(b) =
        CASE b = 10 -> <<"\\", "n">>
          [] b = 13 -> <<"\\", "r">>
          [] b = 9 -> <<"\\", "t">>
          [] b \in Q -> quoted
          [] b \in R -> plain
          [] OTHER -> OctalOf(b)
  BY <1>1, Zenon
<1> HIDE DEF Q, R, quoted, plain
<1>4. b = 10 => EscapedByte(b) = <<"\\", "n">>
  BY <1>2, <1>3, Zenon
<1>5. b = 13 => EscapedByte(b) = <<"\\", "r">>
  BY <1>2, <1>3, Zenon
<1>6. b = 9 => EscapedByte(b) = <<"\\", "t">>
  BY <1>2, <1>3, Zenon
<1>7. b \in Q => EscapedByte(b) = quoted
  BY <1>2, <1>3, Zenon
<1>8. b \in R => EscapedByte(b) = plain
  BY <1>2, <1>3, Zenon
<1>9. b # 10 /\ b # 13 /\ b # 9 /\ b \notin Q /\ b \notin R => EscapedByte(b) = OctalOf(b)
  BY <1>3, Zenon
<1>10. /\ Letters[1] = "n" /\ Letters[2] = "r" /\ Letters[3] = "t" /\ Letters[4] = DoubleQuote
       /\ Letters[5] = "'" /\ Letters[6] = "\\"
  BY DEF Letters
<1>11. /\ Lettered[1] = 10 /\ Lettered[2] = 13 /\ Lettered[3] = 9 /\ Lettered[4] = 34
       /\ Lettered[5] = 39 /\ Lettered[6] = 92
  BY DEF Lettered
<1>12. CASE b \in Q
  <2>1. \/ b = 34 /\ quoted = <<"\\", Printable[3]>>
        \/ b = 39 /\ quoted = <<"\\", Printable[8]>>
        \/ b = 92 /\ quoted = <<"\\", Printable[61]>>
    BY <1>12 DEF Q, quoted
  <2>2. \/ b = 34 /\ quoted = <<"\\", Letters[4]>>
        \/ b = 39 /\ quoted = <<"\\", Letters[5]>>
        \/ b = 92 /\ quoted = <<"\\", Letters[6]>>
    BY <1>10, <2>1, PrintableIs
  <2>3. 4 \in 1 .. 6 /\ 5 \in 1 .. 6 /\ 6 \in 1 .. 6
    OBVIOUS
  <2> QED BY <1>7, <1>11, <1>12, <2>2, <2>3
<1>13. CASE b \in {10, 13, 9}
  <2>1. 1 \in 1 .. 6 /\ 2 \in 1 .. 6 /\ 3 \in 1 .. 6
    OBVIOUS
  <2> QED BY <1>4, <1>5, <1>6, <1>10, <1>11, <1>13, <2>1
<1>14. OctalOf(b) = <<"\\", OctalDigit(b \div 64), OctalDigit((b \div 8) % 8), OctalDigit(b % 8)>>
  BY DEF OctalOf, OctalDigit
<1> QED BY <1>8, <1>9, <1>12, <1>13, <1>14 DEF R, plain

LEMMA LetterValues ==
  ASSUME NEW k \in 1 .. 6
  PROVE  Letters[k] \in EscapeLetter /\ CharEscape[Letters[k]] = Lettered[k]
<1> DEFINE S == {"a", "b", "f", "n", "r", "t", "v", "\\", "'", "\"", "?"}
           F(x) == CASE x = "a" -> 7 [] x = "b" -> 8 [] x = "f" -> 12 [] x = "n" -> 10 [] x = "r" -> 13
                     [] x = "t" -> 9 [] x = "v" -> 11 [] OTHER -> Byte[x]
<1>1. CharEscape = [x \in S |-> F(x)] /\ EscapeLetter = S
  BY Zenon DEF CharEscape, EscapeLetter
<1>2. "n" \in S /\ "r" \in S /\ "t" \in S /\ DoubleQuote \in S /\ "'" \in S /\ "\\" \in S
  BY Zenon DEF DoubleQuote
<1>3. F("n") = 10 /\ F("r") = 13 /\ F("t") = 9
  <2>1. /\ "n" # "a" /\ "n" # "b" /\ "n" # "f" /\ "n" # "r" /\ "n" # "t" /\ "n" # "v"
        /\ "r" # "a" /\ "r" # "b" /\ "r" # "f" /\ "r" # "t" /\ "r" # "v"
        /\ "t" # "a" /\ "t" # "b" /\ "t" # "f" /\ "t" # "v"
    OBVIOUS
  <2>2. F("n") = 10
    BY <2>1, Zenon
  <2>3. F("r") = 13
    BY <2>1, Zenon
  <2>4. F("t") = 9
    BY <2>1, Zenon
  <2> QED BY <2>2, <2>3, <2>4
<1>4. ASSUME NEW x, x \notin {"a", "b", "f", "n", "r", "t", "v"}
      PROVE  F(x) = Byte[x]
  BY <1>4, Zenon
<1> HIDE DEF S, F
<1>5. Byte[DoubleQuote] = 34 /\ Byte["'"] = 39 /\ Byte["\\"] = 92
  BY ByteIs, PrintableIs DEF Places
<1>6. /\ DoubleQuote \notin {"a", "b", "f", "n", "r", "t", "v"} /\ "'" \notin {"a", "b", "f", "n", "r", "t", "v"}
      /\ "\\" \notin {"a", "b", "f", "n", "r", "t", "v"}
  <2>1. {"a", "b", "f", "n", "r", "t", "v"} \subseteq Plain
    BY DEF Plain
  <2> QED BY <2>1, OddCharacters
<1>7. F(DoubleQuote) = 34 /\ F("'") = 39 /\ F("\\") = 92
  BY <1>4, <1>5, <1>6
<1>8. /\ CharEscape["n"] = 10 /\ CharEscape["r"] = 13 /\ CharEscape["t"] = 9
      /\ CharEscape[DoubleQuote] = 34 /\ CharEscape["'"] = 39 /\ CharEscape["\\"] = 92
  BY <1>1, <1>2, <1>3, <1>7
<1>9. k = 1 \/ k = 2 \/ k = 3 \/ k = 4 \/ k = 5 \/ k = 6
  OBVIOUS
<1>10. /\ Letters[1] = "n" /\ Letters[2] = "r" /\ Letters[3] = "t" /\ Letters[4] = DoubleQuote
       /\ Letters[5] = "'" /\ Letters[6] = "\\"
  BY DEF Letters
<1>11. /\ Lettered[1] = 10 /\ Lettered[2] = 13 /\ Lettered[3] = 9 /\ Lettered[4] = 34
       /\ Lettered[5] = 39 /\ Lettered[6] = 92
  BY DEF Lettered
<1> QED BY <1>1, <1>2, <1>8, <1>9, <1>10, <1>11

LEMMA OctalDigits ==
  ASSUME NEW k \in 0 .. 7
  PROVE  OctalDigit(k) \in Octal /\ HexValue[OctalDigit(k)] = k
<1>1. 17 + k \in 17 .. 24 /\ 17 + k \in 17 .. 26 /\ (17 + k) - 17 = k
  OBVIOUS
<1> DEFINE p == 17 + k
<1>2. OctalDigit(k) = Printable[p]
  BY DEF OctalDigit
<1> HIDE DEF p
<1>3. Printable[p] \in Octal
  BY <1>1, OctalPlaces DEF Table, p
<1>4. Octal \subseteq Hex
  BY WordsAreCharacters
<1>5. HexValue[Printable[p]] = p - 17
  <2>1. p \in 17 .. 26
    BY <1>1 DEF p
  <2> QED BY <1>3, <1>4, <2>1, HexValueIs
<1> QED BY <1>1, <1>2, <1>3, <1>5 DEF p

LEMMA ThreeDigits ==
  ASSUME NEW b \in Bytes, NEW d \in Seq(Hex), Len(d) = 3,
         d[1] = OctalDigit(b \div 64), d[2] = OctalDigit((b \div 8) % 8), d[3] = OctalDigit(b % 8)
  PROVE  Numeral(8, d) = b
<1>1. 8 \in Base
  BY DEF Base
<1>2. PICK f : Valued(f, 8, d) /\ Numeral(8, d) = f[3]
  BY <1>1, NumeralIs
<1>3. b \div 64 \in 0 .. 7 /\ (b \div 8) % 8 \in 0 .. 7 /\ b % 8 \in 0 .. 7
  BY DEF Bytes
<1>4. HexValue[d[1]] = b \div 64 /\ HexValue[d[2]] = (b \div 8) % 8 /\ HexValue[d[3]] = b % 8
  BY <1>3, OctalDigits
<1>5. 1 \in 1 .. 3 /\ 2 \in 1 .. 3 /\ 3 \in 1 .. 3
  OBVIOUS
<1>6. f[0] = 0 /\ f[1] = f[1 - 1] * 8 + HexValue[d[1]] /\ f[2] = f[2 - 1] * 8 + HexValue[d[2]] /\ f[3] = f[3 - 1] * 8 + HexValue[d[3]]
  BY <1>2, <1>5 DEF Valued
<1>7. f[1] = b \div 64
  BY <1>3, <1>4, <1>6
<1>8. f[2] = (b \div 64) * 8 + ((b \div 8) % 8)
  BY <1>4, <1>6, <1>7
<1>9. f[3] = ((b \div 64) * 8 + ((b \div 8) % 8)) * 8 + (b % 8)
  BY <1>4, <1>6, <1>8
<1>10. ((b \div 64) * 8 + ((b \div 8) % 8)) * 8 + (b % 8) = b
  BY DEF Bytes
<1> QED BY <1>2, <1>9, <1>10

LEMMA PlainByte ==
  ASSUME NEW b \in (32 .. 126) \ {34, 39, 92}
  PROVE  LET c == Printable[b - 31]
         IN  /\ c \in Character /\ c \notin {DoubleQuote, "\\", Nul} \cup Newline
             /\ Byte[c] = b
<1> DEFINE k == b - 31
           c == Printable[k]
<1>1. k \in Places /\ k # 3 /\ k # 61 /\ 31 + k = b
  BY DEF Places
<1> HIDE DEF k
<1>2. Byte[c] = b
  BY <1>1, ByteIs
<1>3. c # Printable[3] /\ c # Printable[61]
  <2>1. 3 \in Places /\ 61 \in Places
    BY DEF Places
  <2>2. Printable[k] = Printable[3] => k = 3
    BY <1>1, <2>1, PrintableDiffer
  <2>3. Printable[k] = Printable[61] => k = 61
    BY <1>1, <2>1, PrintableDiffer
  <2> QED BY <1>1, <2>2, <2>3
<1>4. c # DoubleQuote /\ c # "\\"
  BY <1>3, PrintableIs
<1>5. Table({k}) \subseteq Character /\ Table({k}) \cap Newline = {} /\ Nul \notin Table({k})
  BY <1>1, TableIsCharacter
<1>6. c \in Table({k})
  BY DEF Table
<1> QED BY <1>2, <1>4, <1>5, <1>6 DEF k

LEMMA BackslashIs == "\\" \in Character /\ "\\" # DoubleQuote
<1>1. {61} \in SUBSET Places
  BY DEF Places
<1>3. Table({61}) \subseteq Character
  BY <1>1, TableIsCharacter
<1>4. Printable[61] \in Table({61})
  BY DEF Table
<1>2. "\\" \in Plain
  BY DEF Plain
<1> QED BY <1>2, <1>3, <1>4, PrintableIs, OddCharacters

LEMMA EscapedType ==
  ASSUME NEW b \in Bytes
  PROVE  EscapedByte(b) \in Seq(Character) /\ EscapedByte(b) # <<>>
<1>1. ASSUME NEW k \in 1 .. 6, EscapedByte(b) = <<"\\", Letters[k]>>
      PROVE  EscapedByte(b) \in Seq(Character) /\ EscapedByte(b) # <<>>
  <2>1. Letters[k] \in Character
    BY LetterValues, LetterIsCharacter
  <2> QED BY <1>1, <2>1, BackslashIs
<1>2. CASE b \in (32 .. 126) \ {34, 39, 92} /\ EscapedByte(b) = <<Printable[b - 31]>>
  BY <1>2, PlainByte
<1>3. CASE EscapedByte(b) = <<"\\", OctalDigit(b \div 64), OctalDigit((b \div 8) % 8), OctalDigit(b % 8)>>
  <2>1. b \div 64 \in 0 .. 7 /\ (b \div 8) % 8 \in 0 .. 7 /\ b % 8 \in 0 .. 7
    BY DEF Bytes
  <2>2. Octal \subseteq Character
    BY WordsAreCharacters
  <2>3. OctalDigit(b \div 64) \in Character /\ OctalDigit((b \div 8) % 8) \in Character /\ OctalDigit(b % 8) \in Character
    BY <2>1, <2>2, OctalDigits
  <2> QED BY <1>3, <2>3, BackslashIs
<1> QED BY <1>1, <1>2, <1>3, EscapedIs

LEMMA EscapedReads ==
  ASSUME NEW s \in Seq(Character), NEW b \in Bytes, NEW i \in 1 .. Len(s), NEW e \in i .. Len(s),
         Len(EscapedByte(b)) = (e - i) + 1, \A k \in 0 .. e - i : s[i + k] = EscapedByte(b)[k + 1]
  PROVE  /\ s[i] # DoubleQuote /\ ElementEnd(s, i, DoubleQuote) = e
         /\ ElementBytes(SubSeq(s, i, e)) = <<b>>
<1>1. Len(s) \in Nat /\ i \in Nat /\ e \in Nat /\ i <= e /\ e <= Len(s) /\ i + 0 = i
  OBVIOUS
<1>2. CASE \E k \in 1 .. 6 : b = Lettered[k] /\ EscapedByte(b) = <<"\\", Letters[k]>>
  <2>1. PICK k \in 1 .. 6 : b = Lettered[k] /\ EscapedByte(b) = <<"\\", Letters[k]>>
    BY <1>2
  <2>2. Len(EscapedByte(b)) = 2 /\ EscapedByte(b)[0 + 1] = "\\" /\ EscapedByte(b)[1 + 1] = Letters[k]
    BY <2>1
  <2>3. e = i + 1 /\ 0 \in 0 .. e - i /\ 1 \in 0 .. e - i
    <3>1. (e - i) + 1 = 2
      BY <2>2
    <3> QED BY <1>1, <3>1
  <2>4. s[i] = "\\" /\ s[i + 1] = Letters[k]
    BY <1>1, <2>2, <2>3
  <2>5. Letters[k] \in EscapeLetter /\ CharEscape[Letters[k]] = b
    BY <2>1, LetterValues
  <2>6. LetterSpan(s, i, e)
    BY <2>3, <2>4, <2>5 DEF LetterSpan
  <2>7. Span(s, i, e, DoubleQuote)
    BY <2>4, <2>6 DEF Span
  <2>8. ASSUME NEW j \in e + 1 .. Len(s)
        PROVE  ~Span(s, i, j, DoubleQuote)
    <3>1. j # i /\ j # i + 1 /\ i + 1 \in i + 1 .. j
      BY <1>1, <2>3, SMTT(30)
    <3>2. s[i + 1] \notin Octal /\ s[i + 1] # "x" /\ s[i + 1] # "u" /\ s[i + 1] # "U"
      BY <2>4, <2>5, EscapeLetters
    <3> QED BY <3>1, <3>2 DEF Span, PlainSpan, LetterSpan, OctalSpan, HexSpan, UnicodeSpan, Within
  <2>9. Longest(s, i, e, DoubleQuote)
    BY <2>7, <2>8 DEF Longest
  <2>10. ElementEnd(s, i, DoubleQuote) = e
    BY <2>9, ElementEndIs
  <2>11. ElementBytes(SubSeq(s, i, e)) = <<b>>
    BY <2>4, <2>5, <2>6, ElementBytesIs, ZenonT(60)
  <2> QED BY <2>4, <2>10, <2>11, BackslashIs
<1>3. CASE b \in (32 .. 126) \ {34, 39, 92} /\ EscapedByte(b) = <<Printable[b - 31]>>
  <2> DEFINE c == Printable[b - 31]
  <2>1. c \notin {DoubleQuote, "\\", Nul} \cup Newline /\ Byte[c] = b
    BY <1>3, PlainByte
  <2> HIDE DEF c
  <2>2. EscapedByte(b) = <<c>>
    BY <1>3 DEF c
  <2>3. Len(EscapedByte(b)) = 1 /\ EscapedByte(b)[0 + 1] = c
    BY <2>2
  <2>4. e = i /\ 0 \in 0 .. e - i
    <3>1. (e - i) + 1 = 1
      BY <2>3
    <3> QED BY <1>1, <3>1
  <2>5. s[i] = c
    BY <1>1, <2>3, <2>4
  <2>6. Span(s, i, e, DoubleQuote)
    BY <2>1, <2>4, <2>5 DEF Span, PlainSpan
  <2>7. ASSUME NEW j \in e + 1 .. Len(s)
        PROVE  ~Span(s, i, j, DoubleQuote)
    <3>1. j # i
      BY <1>1, <2>4
    <3>2. s[i] # "\\"
      BY <2>1, <2>5
    <3> QED BY <3>1, <3>2 DEF Span, PlainSpan
  <2>8. Longest(s, i, e, DoubleQuote)
    BY <2>6, <2>7 DEF Longest
  <2>9. ElementEnd(s, i, DoubleQuote) = e
    BY <2>8, ElementEndIs
  <2>10. ElementBytes(SubSeq(s, i, e)) = <<b>>
    BY <2>1, <2>4, <2>5, ElementBytesIs, ZenonT(60)
  <2> QED BY <2>1, <2>5, <2>9, <2>10
<1>4. CASE EscapedByte(b) = <<"\\", OctalDigit(b \div 64), OctalDigit((b \div 8) % 8), OctalDigit(b % 8)>>
  <2> DEFINE x == OctalDigit(b \div 64)
             y == OctalDigit((b \div 8) % 8)
             z == OctalDigit(b % 8)
  <2>1. b \div 64 \in 0 .. 7 /\ (b \div 8) % 8 \in 0 .. 7 /\ b % 8 \in 0 .. 7
    BY DEF Bytes
  <2>2. x \in Octal /\ y \in Octal /\ z \in Octal
    BY <2>1, OctalDigits
  <2> HIDE DEF x, y, z
  <2>3. EscapedByte(b) = <<"\\", x, y, z>>
    BY <1>4 DEF x, y, z
  <2>4. /\ Len(EscapedByte(b)) = 4 /\ EscapedByte(b)[0 + 1] = "\\" /\ EscapedByte(b)[1 + 1] = x
        /\ EscapedByte(b)[2 + 1] = y /\ EscapedByte(b)[3 + 1] = z
    BY <2>3
  <2>5. e = i + 3 /\ 0 \in 0 .. e - i /\ 1 \in 0 .. e - i /\ 2 \in 0 .. e - i /\ 3 \in 0 .. e - i
    <3>1. (e - i) + 1 = 4
      BY <2>4
    <3> QED BY <1>1, <3>1
  <2>6. s[i] = "\\" /\ s[i + 1] = x /\ s[i + 2] = y /\ s[i + 3] = z
    BY <1>1, <2>4, <2>5
  <2>7. \A k \in i + 1 .. e : k = i + 1 \/ k = i + 2 \/ k = i + 3
    BY <1>1, <2>5
  <2>8. OctalSpan(s, i, e)
    <3>1. e - i \in 1 .. 3
      BY <1>1, <2>5
    <3> QED BY <2>2, <2>6, <2>7, <3>1 DEF OctalSpan, Within
  <2>9. Span(s, i, e, DoubleQuote)
    BY <2>6, <2>8 DEF Span
  <2>10. ASSUME NEW j \in e + 1 .. Len(s)
        PROVE  ~Span(s, i, j, DoubleQuote)
    <3>1. j # i /\ j # i + 1 /\ ~(j - i \in 1 .. 3)
      BY <1>1, <2>5
    <3>2. s[i + 1] \in Octal
      BY <2>2, <2>6
    <3>3. s[i + 1] # "x" /\ s[i + 1] # "u" /\ s[i + 1] # "U"
      BY <3>2, EscapeLetters
    <3> QED BY <3>1, <3>3 DEF Span, PlainSpan, LetterSpan, OctalSpan, HexSpan, UnicodeSpan, Within
  <2>11. Longest(s, i, e, DoubleQuote)
    BY <2>9, <2>10 DEF Longest
  <2>12. ElementEnd(s, i, DoubleQuote) = e
    BY <2>11, ElementEndIs
  <2> DEFINE d == SubSeq(s, i + 1, e)
  <2>13. d \in Seq(Hex) /\ Len(d) = 3 /\ d[1] = x /\ d[2] = y /\ d[3] = z
    <3>1. d = [k \in 1 .. 3 |-> s[k + i]]
      BY <1>1, <2>5
    <3> HIDE DEF d
    <3>2. d[1] = s[i + 1] /\ d[2] = s[i + 2] /\ d[3] = s[i + 3] /\ Len(d) = 3
      BY <1>1, <3>1
    <3>3. \A k \in 1 .. 3 : k + i = i + 1 \/ k + i = i + 2 \/ k + i = i + 3
      BY <1>1
    <3>4. \A k \in 1 .. 3 : s[k + i] \in Octal
      BY <2>2, <2>6, <3>3
    <3>5. Octal \subseteq Hex
      BY WordsAreCharacters
    <3> QED BY <2>6, <3>1, <3>2, <3>4, <3>5
  <2> HIDE DEF d
  <2>14. Numeral(8, d) = b
    BY <2>13, ThreeDigits DEF x, y, z
  <2>15. ElementBytes(SubSeq(s, i, e)) = IF Numeral(8, d) < 256 THEN <<Numeral(8, d)>> ELSE <<>>
    BY <2>8, ElementBytesIs DEF d
  <2>16. b < 256
    BY DEF Bytes
  <2> QED BY <2>6, <2>12, <2>14, <2>15, <2>16, BackslashIs
<1> QED BY <1>2, <1>3, <1>4, EscapedIs

LEMMA QuotedIs ==
  ASSUME NEW text \in Seq(Character)
  PROVE  /\ Quoted(text) \in Seq(Character) /\ Len(Quoted(text)) = Len(text) + 2
         /\ Quoted(text)[1] = DoubleQuote /\ Quoted(text)[Len(text) + 2] = DoubleQuote
         /\ \A k \in 1 .. Len(text) : Quoted(text)[k + 1] = text[k]
<1>1. Quoted(text) = (<<DoubleQuote>> \o text) \o <<DoubleQuote>>
  BY Zenon DEF Quoted, DoubleQuote
<1>2. DoubleQuote \in Character
  <2>1. {3} \in SUBSET Places
    BY DEF Places
  <2>2. Table({3}) \subseteq Character
    BY <2>1, TableIsCharacter
  <2>3. Printable[3] \in Table({3})
    BY DEF Table
  <2> QED BY <2>2, <2>3, PrintableIs
<1> DEFINE q == <<DoubleQuote>>
           p == q \o text
<1>3. q \in Seq(Character) /\ Len(q) = 1 /\ q[1] = DoubleQuote
  BY <1>2
<1> HIDE DEF q
<1>4. /\ p \in Seq(Character) /\ Len(p) = 1 + Len(text) /\ Len(text) \in Nat
      /\ \A k \in 1 .. 1 : p[k] = q[k]
      /\ \A k \in 1 .. Len(text) : p[1 + k] = text[k]
  BY <1>3, JoinedTexts
<1> HIDE DEF p
<1>5. Quoted(text) = p \o q
  BY <1>1 DEF p, q
<1>6. /\ p \o q \in Seq(Character) /\ Len(p \o q) = Len(p) + 1
      /\ \A k \in 1 .. Len(p) : (p \o q)[k] = p[k]
      /\ \A k \in 1 .. 1 : (p \o q)[Len(p) + k] = q[k]
  <2>1. p \in Seq(Character) /\ q \in Seq(Character)
    BY <1>3, <1>4
  <2>2. /\ p \o q \in Seq(Character) /\ Len(p \o q) = Len(p) + Len(q)
        /\ \A k \in 1 .. Len(p) : (p \o q)[k] = p[k]
        /\ \A k \in 1 .. Len(q) : (p \o q)[Len(p) + k] = q[k]
    BY <2>1, JoinedTexts
  <2>3. Len(q) = 1
    BY <1>3
  <2> DEFINE r == p \o q
  <2> HIDE DEF r
  <2> QED BY <2>2, <2>3 DEF r
<1>7. 1 \in 1 .. 1 /\ (1 + Len(text)) + 1 = Len(text) + 2 /\ \A k \in 1 .. Len(text) : 1 + k = k + 1
  BY <1>4
<1>8. 1 \in 1 .. 1 + Len(text) /\ \A k \in 1 .. Len(text) : k + 1 \in 1 .. 1 + Len(text)
  BY <1>4
<1> DEFINE r == Quoted(text)
<1> HIDE DEF r
<1>9. /\ r \in Seq(Character) /\ Len(r) = (1 + Len(text)) + 1 /\ \A k \in 1 .. 1 + Len(text) : r[k] = p[k]
      /\ r[(1 + Len(text)) + 1] = q[1]
  BY <1>4, <1>5, <1>6, <1>7 DEF r
<1>10. \A k \in 1 .. Len(text) : r[k + 1] = text[k]
  BY <1>4, <1>7, <1>8, <1>9
<1>11. r[1] = DoubleQuote
  BY <1>3, <1>4, <1>7, <1>8, <1>9
<1> QED BY <1>3, <1>7, <1>9, <1>10, <1>11 DEF r

LEMMA WithBytes ==
  ASSUME NEW x, NEW y, NEW m \in Nat \ {0}, x # <<>>
  PROVE  With(x, [bytes |-> y, close |-> m]) = [bytes |-> x \o y, close |-> m]
<1> DEFINE r == [bytes |-> y, close |-> m]
<1>1. r # None
  <2>1. r.close = m /\ None.close = 0
    BY DEF None
  <2> QED BY <2>1
<1>2. With(x, r) = [r EXCEPT !.bytes = x \o @]
  BY <1>1 DEF With
<1> QED BY <1>2

LEMMA ReadsBack ==
  ASSUME NEW bytes \in Seq(Bytes)
  PROVE  LET literal == Quoted(EscapeBytes(bytes))
         IN  LiteralAt(literal, 1) = [bytes |-> bytes, close |-> Len(literal)]
<1> DEFINE P == [i \in DOMAIN bytes |-> EscapedByte(bytes[i])]
           E == FlattenSeq(P)
           s == Quoted(E)
           n == Len(bytes)
           m == Len(s)
           before(i) == Len(FlattenSeq(SubSeq(P, 1, i - 1)))
           from(i) == before(i) + 2
<1>1. n \in Nat /\ P \in Seq(Seq(Character)) /\ Len(P) = n /\ \A i \in 1 .. n : P[i] = EscapedByte(bytes[i]) /\ bytes[i] \in Bytes
  <2>1. n \in Nat /\ DOMAIN bytes = 1 .. n /\ \A i \in 1 .. n : bytes[i] \in Bytes
    OBVIOUS
  <2>2. \A i \in 1 .. n : EscapedByte(bytes[i]) \in Seq(Character)
    BY <2>1, EscapedType
  <2> HIDE DEF n
  <2>3. P = [i \in 1 .. n |-> EscapedByte(bytes[i])]
    BY <2>1
  <2> HIDE DEF P
  <2>4. P \in Seq(Seq(Character)) /\ Len(P) = n
    BY <2>1, <2>2, <2>3
  <2> QED BY <2>1, <2>3, <2>4
<1>2. EscapeBytes(bytes) = E
  BY DEF EscapeBytes
<1>3. SubSeq(P, 1, n) = P /\ SubSeq(P, 1, 0) = <<>>
  <2> HIDE DEF P
  <2> QED BY <1>1
<1> HIDE DEF P
<1>4. E \in Seq(Character) /\ Len(E) \in Nat
  BY <1>1, FlattenType
<1> HIDE DEF E
<1>5. /\ s \in Seq(Character) /\ m = Len(E) + 2 /\ s[1] = DoubleQuote /\ s[m] = DoubleQuote
      /\ \A k \in 1 .. Len(E) : s[k + 1] = E[k]
  BY <1>4, QuotedIs
<1> HIDE DEF s
<1>6. from(1) = 2 /\ from(n + 1) = m
  <2>1. SubSeq(P, 1, 1 - 1) = <<>> /\ SubSeq(P, 1, (n + 1) - 1) = P
    BY <1>1, <1>3
  <2>2. Len(<<>>) = 0
    OBVIOUS
  <2>3. before(1) = 0
    BY <2>1, <2>2, FlattenEmpty
  <2>4. before(n + 1) = Len(E)
    BY <2>1 DEF E
  <2> HIDE DEF before
  <2> QED BY <1>5, <2>3, <2>4
<1>7. ASSUME NEW i \in 1 .. n
      PROVE  /\ from(i) \in Nat /\ from(i) >= 2 /\ Len(P[i]) \in Nat \ {0}
             /\ from(i + 1) = from(i) + Len(P[i]) /\ from(i + 1) <= m
             /\ \A k \in 1 .. Len(P[i]) : s[from(i) + (k - 1)] = P[i][k]
  <2>1. (i + 1) - 1 = i /\ i \in 1 .. Len(P)
    BY <1>1
  <2>2. /\ before(i) \in Nat /\ before(i + 1) = before(i) + Len(P[i]) /\ before(i + 1) <= Len(E)
        /\ \A k \in 1 .. Len(P[i]) : E[before(i) + k] = P[i][k]
    BY <1>1, <2>1, PiecePlaced DEF E
  <2>3. P[i] \in Seq(Character) /\ P[i] # <<>>
    BY <1>1, EscapedType
  <2>4. Len(P[i]) \in Nat \ {0}
    BY <2>3
  <2> HIDE DEF before
  <2>5. /\ from(i) \in Nat /\ from(i) >= 2
        /\ from(i + 1) = from(i) + Len(P[i]) /\ from(i + 1) <= m
    <3> DEFINE x == before(i)
               y == before(i + 1)
               z == Len(P[i])
    <3>1. x \in Nat /\ y = x + z /\ y <= Len(E) /\ z \in Nat \ {0} /\ m = Len(E) + 2 /\ Len(E) \in Nat
      BY <1>4, <1>5, <2>2, <2>4
    <3> HIDE DEF x, y, z, m
    <3>2. x + 2 \in Nat /\ x + 2 >= 2 /\ y + 2 = (x + 2) + z /\ y + 2 <= m
      BY <3>1
    <3> QED BY <3>2 DEF x, y, z
  <2>6. ASSUME NEW k \in 1 .. Len(P[i])
        PROVE  s[from(i) + (k - 1)] = P[i][k]
    <3>1. before(i) + k \in 1 .. Len(E) /\ (before(i) + k) + 1 = from(i) + (k - 1)
      BY <1>4, <2>2, <2>4, SMTT(30)
    <3> QED BY <1>5, <2>2, <3>1
  <2> QED BY <2>4, <2>5, <2>6
<1> HIDE DEF m, from
<1>8. m \in Nat /\ m >= 2
  BY <1>4, <1>5
<1>9. 1 \in 1 .. Len(s)
  BY <1>8 DEF m
<1>10. PICK h : IsGrammar(h, s, 1) /\ LiteralAt(s, 1) = h[1 + 1]
  BY <1>5, <1>9, GrammarReads
<1>11. \A i \in 2 .. m + 1 : h[i] = GrammarBody(h, s, 1, i)
  <2>1. h = [i \in 1 + 1 .. m + 1 |-> GrammarBody(h, s, 1, i)]
    BY <1>10 DEF IsGrammar, m
  <2>2. 1 + 1 = 2
    OBVIOUS
  <2> QED BY <2>1, <2>2
<1> DEFINE Read(i) == h[from(i)] = [bytes |-> SubSeq(bytes, i, n), close |-> m]
           T == {i \in 1 .. n + 1 : Read(i)}
<1>12. Read(n + 1)
  <2>1. m <= Len(s) /\ m \in 2 .. m + 1
    BY <1>8 DEF m
  <2>2. h[m] = [bytes |-> <<>>, close |-> m]
    BY <1>5, <1>11, <2>1 DEF GrammarBody
  <2>3. SubSeq(bytes, n + 1, n) = <<>>
    BY <1>1
  <2> QED BY <1>6, <2>2, <2>3
<1>13. ASSUME NEW i \in 1 .. n, Read(i + 1)
       PROVE  Read(i)
  <2> DEFINE a == from(i)
             e == from(i + 1) - 1
             b == bytes[i]
             l == Len(EscapedByte(b))
  <2>1. b \in Bytes /\ P[i] = EscapedByte(b)
    BY <1>1
  <2>2. /\ a \in Nat /\ a >= 2 /\ l \in Nat \ {0} /\ from(i + 1) = a + l /\ a + l <= m
        /\ \A k \in 1 .. l : s[a + (k - 1)] = EscapedByte(b)[k]
    BY <1>7, <2>1
  <2>3. \A k \in 0 .. e - a : s[a + k] = EscapedByte(b)[k + 1]
    <3>1. \A k \in 0 .. e - a : k + 1 \in 1 .. l /\ a + ((k + 1) - 1) = a + k
      BY <2>2
    <3> QED BY <2>2, <3>1
  <2>4. /\ a \in 1 .. m /\ e \in a .. m /\ l = (e - a) + 1 /\ e # 0 /\ e + 1 = from(i + 1)
        /\ a \in 2 .. m + 1
    BY <1>8, <2>2, SMTT(30)
  <2> HIDE DEF a, e, b
  <2>5. /\ s[a] # DoubleQuote /\ ElementEnd(s, a, DoubleQuote) = e
        /\ ElementBytes(SubSeq(s, a, e)) = <<b>>
    BY <1>5, <2>1, <2>3, <2>4, EscapedReads DEF m
  <2>6. ~(a > Len(s))
    BY <2>4, <1>8 DEF m
  <2>7. h[a] = With(<<b>>, h[e + 1])
    <3>1. h[a] = GrammarBody(h, s, 1, a)
      BY <1>11, <2>4
    <3>2. s[1] = DoubleQuote
      BY <1>5
    <3>3. ~(a <= Len(s) /\ s[a] = s[1]) /\ ~(a > Len(s) \/ ElementEnd(s, a, s[1]) = 0)
      BY <2>4, <2>5, <2>6, <3>2
    <3>4. h[a] = With(ElementBytes(SubSeq(s, a, ElementEnd(s, a, s[1]))), h[ElementEnd(s, a, s[1]) + 1])
      BY <3>1, <3>3, Zenon DEF GrammarBody
    <3>5. ElementEnd(s, a, s[1]) = e
      BY <2>5, <3>2
    <3> QED BY <2>5, <3>4, <3>5
  <2>8. h[e + 1] = [bytes |-> SubSeq(bytes, i + 1, n), close |-> m]
    BY <1>13, <2>4
  <2>9. h[a] = [bytes |-> <<b>> \o SubSeq(bytes, i + 1, n), close |-> m]
    <3> DEFINE x == <<b>>
               y == SubSeq(bytes, i + 1, n)
    <3>1. x # <<>> /\ m \in Nat \ {0}
      BY <1>8
    <3>2. h[a] = With(x, [bytes |-> y, close |-> m])
      BY <2>7, <2>8
    <3> HIDE DEF x, y
    <3>3. h[a] = [bytes |-> x \o y, close |-> m]
      BY <3>1, <3>2, WithBytes
    <3> QED BY <3>3 DEF x, y
  <2>10. <<b>> \o SubSeq(bytes, i + 1, n) = SubSeq(bytes, i, n)
    BY HeadAndRest DEF b
  <2> QED BY <2>9, <2>10 DEF a
<1>14. ASSUME NEW i \in 1 .. n + 1, \A j \in i + 1 .. n + 1 : j \in T
       PROVE  i \in T
  <2>1. CASE i = n + 1
    BY <1>12, <2>1
  <2>2. CASE i # n + 1
    <3>1. i \in 1 .. n /\ i + 1 \in i + 1 .. n + 1
      BY <1>1, <2>2
    <3>2. Read(i + 1)
      BY <1>14, <3>1
    <3> HIDE DEF Read
    <3> QED BY <1>13, <3>1, <3>2
  <2> QED BY <2>1, <2>2
<1>15. Read(1)
  <2> HIDE DEF T
  <2>1. 1 .. n + 1 \subseteq T
    <3>1. 1 \in Int /\ n + 1 \in Int
      BY <1>1
    <3> QED BY <1>14, <3>1, DownInduction
  <2>2. 1 \in 1 .. n + 1
    BY <1>1
  <2>3. 1 \in T
    BY <2>1, <2>2
  <2> QED BY <2>3 DEF T
<1>16. SubSeq(bytes, 1, n) = bytes
  OBVIOUS
<1>17. LiteralAt(s, 1) = [bytes |-> bytes, close |-> m]
  <2>1. 1 + 1 = 2
    OBVIOUS
  <2> QED BY <1>6, <1>10, <1>15, <1>16, <2>1
<1> QED BY <1>2, <1>17 DEF s, m

(* The text stored for a default of type bytes, whatever its bytes and     *)
(* however many, gives them back when it is read as a literal              *)
(* (escape_bytes, proto_parser.cpp:618, and Lexer::string_literal, 395).   *)
THEOREM StoredBytesReadBack == LexerSpec => []BytesReadBack
<1>1. TextsOK => BytesReadBack
  BY ReadsBack DEF TextsOK, TextsTyped, BytesReadBack
<1> QED BY <1>1, TextsStay, PTL
-----------------------------------------------------------------------------
(* Where the rules of the grammar derive a text of the source: by places   *)
(* instead of pieces.                                                      *)

NameStart == Alpha \cup {"_"}

LEMMA FirstCharacters ==
  /\ NameStart \cap Digit = {} /\ NameStart \cap Punctuation = {} /\ Digit \cap Punctuation = {}
  /\ Quote \cap (Word \cup Punctuation) = {}
  /\ "." \in Punctuation /\ "0" \in Digit
<1> DEFINE P == {92, 94, 60, 62, 9, 10, 29, 31, 30, 28, 13, 15, 12, 14, 27}
           W == (17 .. 26) \cup (34 .. 59) \cup {64} \cup (66 .. 91)
           Q == {3, 8}
<1>1. Punctuation = Table(P) /\ Word = Table(W)
  BY PunctuationPlaces, WordPlaces
<1>2. Quote = Table(Q)
  <2>1. Quote = {"'", DoubleQuote}
    BY Zenon DEF Quote, DoubleQuote
  <2>2. Quote = {Printable[8], Printable[3]}
    BY <2>1, PrintableIs
  <2> QED BY <2>2 DEF Table
<1>3. P \in SUBSET Places
  BY DEF Places
<1>4. W \in SUBSET Places
  BY DEF Places
<1>5. Q \in SUBSET Places
  BY DEF Places
<1>6. P \cap W = {} /\ P \cap Q = {} /\ W \cap Q = {}
  OBVIOUS
<1>7. Table({}) = {}
  BY DEF Table
<1> HIDE DEF P, W, Q
<1>8. Punctuation \cap Word = {} /\ Punctuation \cap Quote = {} /\ Word \cap Quote = {}
  <2>1. Punctuation \cap Word = Table(P \cap W)
    BY <1>1, <1>3, <1>4, TablesMeet
  <2>2. Punctuation \cap Quote = Table(P \cap Q)
    BY <1>1, <1>2, <1>3, <1>5, TablesMeet
  <2>3. Word \cap Quote = Table(W \cap Q)
    BY <1>1, <1>2, <1>4, <1>5, TablesMeet
  <2> QED BY <1>6, <1>7, <2>1, <2>2, <2>3
<1>9. NameStart \subseteq Word /\ Digit \subseteq Word /\ NameStart \cap Digit = {}
  <2> HIDE DEF NameStart
  <2> QED BY Zenon, WordsAreCharacters DEF NameStart
<1>10. "." \in Punctuation
  BY <1>1, PrintableIs DEF Table, P
<1> QED BY <1>8, <1>9, <1>10, PointIsNoDigit

NameSpan(s, i, j) == s[i] \in NameStart /\ Within(s, i, j, Word)
HexNumberSpan(s, i, j) == j >= i + 2 /\ s[i] = "0" /\ s[i + 1] \in {"x", "X"} /\ Within(s, i + 2, j, Hex)
MantissaSpan(s, i, j) ==
    \E p \in i .. j : s[p] = "." /\ j > i /\ Within(s, i, p - 1, Digit) /\ Within(s, p + 1, j, Digit)
ExponentSpan(s, i, j) ==
    /\ j > i /\ s[i] \in {"e", "E"}
    /\ \/ Within(s, i + 1, j, Digit)
       \/ s[i + 1] \in {"+", "-"} /\ j >= i + 2 /\ Within(s, i + 2, j, Digit)
FloatSpan(s, i, j) ==
    \/ MantissaSpan(s, i, j)
    \/ \E k \in i .. j - 1 : (MantissaSpan(s, i, k) \/ Within(s, i, k, Digit)) /\ ExponentSpan(s, k + 1, j)

LEMMA PieceIs ==
  ASSUME NEW s \in Seq(Character), NEW i \in 1 .. Len(s), NEW j \in i .. Len(s)
  PROVE  /\ SubSeq(s, i, j) \in Seq(Character) /\ Len(SubSeq(s, i, j)) = (j - i) + 1
         /\ \A k \in 1 .. (j - i) + 1 : SubSeq(s, i, j)[k] = s[(i + k) - 1]
         /\ Head(SubSeq(s, i, j)) = s[i] /\ SubSeq(s, i, j)[1] = s[i] /\ SubSeq(s, i, j) # <<>>
         /\ (j > i => SubSeq(s, i, j)[2] = s[i + 1])
         /\ Len(s) \in Nat /\ i \in Nat /\ j \in Nat /\ \A k \in i .. j : s[k] \in Character
<1>1. Len(s) \in Nat /\ i \in Nat /\ j \in Nat /\ 1 <= i /\ i <= j /\ j <= Len(s)
  OBVIOUS
<1>2. \A k \in i .. j : s[k] \in Character
  BY <1>1
<1>3. /\ SubSeq(s, i, j) \in Seq(Character) /\ Len(SubSeq(s, i, j)) = (j - i) + 1
      /\ \A k \in 1 .. (j - i) + 1 : SubSeq(s, i, j)[k] = s[(i + k) - 1]
  BY <1>1, <1>2, SubSeqProperties
<1>4. 1 \in 1 .. (j - i) + 1 /\ (i + 1) - 1 = i /\ (j > i => 2 \in 1 .. (j - i) + 1) /\ (i + 2) - 1 = i + 1
  BY <1>1
<1>5. SubSeq(s, i, j)[1] = s[i] /\ (j > i => SubSeq(s, i, j)[2] = s[i + 1])
  BY <1>3, <1>4
<1>6. SubSeq(s, i, j) # <<>> /\ Head(SubSeq(s, i, j)) = SubSeq(s, i, j)[1]
  BY <1>1, <1>3
<1> QED BY <1>1, <1>2, <1>3, <1>5, <1>6

LEMMA PiecesOfPieces ==
  ASSUME NEW s \in Seq(Character), NEW i \in 1 .. Len(s), NEW j \in i .. Len(s),
         NEW a \in Nat \ {0}, NEW b \in Nat, b <= (j - i) + 1
  PROVE  SubSeq(SubSeq(s, i, j), a, b) = SubSeq(s, (i + a) - 1, (i + b) - 1)
<1> DEFINE t == SubSeq(s, i, j)
           l == SubSeq(t, a, b)
           r == SubSeq(s, (i + a) - 1, (i + b) - 1)
           n == IF a <= b THEN (b - a) + 1 ELSE 0
<1>1. /\ t \in Seq(Character) /\ Len(t) = (j - i) + 1 /\ \A k \in 1 .. (j - i) + 1 : t[k] = s[(i + k) - 1]
      /\ Len(s) \in Nat /\ i \in Nat /\ j \in Nat /\ 1 <= i /\ i <= j /\ j <= Len(s)
  BY PieceIs
<1> HIDE DEF t
<1>2. l \in Seq(Character) /\ Len(l) = n /\ \A k \in 1 .. (b - a) + 1 : l[k] = t[(a + k) - 1]
  <2>1. \A k \in a .. b : t[k] \in Character
    BY <1>1
  <2> QED BY <1>1, <2>1, SubSeqProperties
<1>3. r \in Seq(Character) /\ Len(r) = n /\ \A k \in 1 .. (b - a) + 1 : r[k] = s[(i + a) - 1 + k - 1]
  <2> DEFINE x == (i + a) - 1
             y == (i + b) - 1
  <2>1. x \in Nat /\ y \in Nat /\ (x <= y <=> a <= b) /\ (y - x) + 1 = (b - a) + 1
    BY <1>1
  <2>2. \A k \in x .. y : s[k] \in Character
    BY <1>1
  <2> HIDE DEF x, y
  <2>3. /\ SubSeq(s, x, y) \in Seq(Character) /\ Len(SubSeq(s, x, y)) = n
        /\ \A k \in 1 .. (b - a) + 1 : SubSeq(s, x, y)[k] = s[x + k - 1]
    BY <2>1, <2>2, SubSeqProperties
  <2> QED BY <2>3 DEF x, y
<1> HIDE DEF l, r
<1>4. \A k \in 1 .. n : l[k] = r[k]
  <2>1. ASSUME NEW k \in 1 .. n
        PROVE  l[k] = r[k]
    <3>1. k \in 1 .. (b - a) + 1 /\ (a + k) - 1 \in 1 .. (j - i) + 1
      BY <1>1
    <3>2. (i + ((a + k) - 1)) - 1 = (i + a) - 1 + k - 1
      BY <1>1
    <3> HIDE DEF n
    <3>3. l[k] = s[(i + ((a + k) - 1)) - 1]
      BY <1>1, <1>2, <3>1
    <3> QED BY <1>3, <3>1, <3>2, <3>3
  <2> QED BY <2>1
<1> HIDE DEF n
<1>5. l = r
  BY <1>2, <1>3, <1>4
<1> QED BY <1>5 DEF l, r, t

LEMMA DigitsTexts ==
  ASSUME NEW s \in Seq(Character), NEW i \in 1 .. Len(s), NEW j \in i .. Len(s)
  PROVE  IsDigits(SubSeq(s, i, j)) <=> Within(s, i, j, Digit)
<1>1. SubSeq(s, i, j) # <<>> /\ i \in Nat /\ j \in Nat /\ \A k \in i .. j : s[k] \in Character
  BY PieceIs
<1>2. AllIn(SubSeq(s, i, j), Digit) <=> Within(s, i, j, Digit)
  BY <1>1, AllInIs
<1> QED BY <1>1, <1>2 DEF IsDigits

LEMMA NameTexts ==
  ASSUME NEW s \in Seq(Character), NEW i \in 1 .. Len(s), NEW j \in i .. Len(s)
  PROVE  IsIdentifier(SubSeq(s, i, j)) <=> NameSpan(s, i, j)
<1> DEFINE t == SubSeq(s, i, j)
<1>1. t # <<>> /\ Head(t) = s[i] /\ i \in Nat /\ j \in Nat /\ \A k \in i .. j : s[k] \in Character
  BY PieceIs
<1>2. AllIn(t, Word) <=> Within(s, i, j, Word)
  BY <1>1, AllInIs
<1>3. IsIdentifier(t) <=> t # <<>> /\ Head(t) \in NameStart /\ AllIn(t, Word)
  BY Zenon DEF IsIdentifier, NameStart
<1> HIDE DEF t
<1> QED BY <1>1, <1>2, <1>3 DEF NameSpan, t

LEMMA HexTexts ==
  ASSUME NEW s \in Seq(Character), NEW i \in 1 .. Len(s), NEW j \in i .. Len(s)
  PROVE  IsHexInteger(SubSeq(s, i, j)) <=> HexNumberSpan(s, i, j)
<1> DEFINE t == SubSeq(s, i, j)
           d == SubSeq(t, 3, Len(t))
<1>1. /\ Len(t) = (j - i) + 1 /\ t[1] = s[i] /\ (j > i => t[2] = s[i + 1])
      /\ i \in Nat /\ j \in Nat /\ i <= j /\ t \in Seq(Character)
  BY PieceIs
<1>2. CASE j >= i + 2
  <2>1. d = SubSeq(s, i + 2, j)
    BY <1>1, <1>2, PiecesOfPieces
  <2>2. AllIn(SubSeq(s, i + 2, j), Hex) <=> Within(s, i + 2, j, Hex)
    <3>1. \A k \in i + 2 .. j : s[k] \in Character
      BY <1>1
    <3>2. i + 2 \in Nat
      BY <1>1
    <3> QED BY <1>1, <3>1, <3>2, AllInIs
  <2>3. Len(t) > 2
    BY <1>1, <1>2
  <2> HIDE DEF t
  <2>4. AllIn(d, Hex) <=> Within(s, i + 2, j, Hex)
    BY <2>1, <2>2
  <2>5. j > i
    BY <1>1, <1>2
  <2> HIDE DEF d
  <2>6. IsHexInteger(t) <=> t[1] = "0" /\ t[2] \in {"x", "X"} /\ AllIn(d, Hex)
    BY <2>3 DEF IsHexInteger, d
  <2> QED BY <1>1, <1>2, <2>4, <2>5, <2>6 DEF HexNumberSpan, t
<1>3. CASE ~(j >= i + 2)
  <2>1. ~(Len(t) > 2)
    BY <1>1, <1>3
  <2> QED BY <1>3, <2>1 DEF IsHexInteger, HexNumberSpan
<1> QED BY <1>2, <1>3

LEMMA ExponentTexts ==
  ASSUME NEW s \in Seq(Character), NEW i \in 1 .. Len(s), NEW j \in i .. Len(s)
  PROVE  IsExponent(SubSeq(s, i, j)) <=> ExponentSpan(s, i, j)
<1> DEFINE t == SubSeq(s, i, j)
           d == SubSeq(t, 3, Len(t))
<1>1. /\ Len(t) = (j - i) + 1 /\ t[1] = s[i] /\ Head(t) = s[i] /\ (j > i => t[2] = s[i + 1])
      /\ i \in Nat /\ j \in Nat /\ i <= j /\ t \in Seq(Character) /\ Len(s) \in Nat /\ j <= Len(s) /\ 1 <= i
  BY PieceIs
<1>2. CASE j > i
  <2>1. Tail(t) = SubSeq(s, i + 1, j)
    BY <1>1, <1>2
  <2>2. IsDigits(Tail(t)) <=> Within(s, i + 1, j, Digit)
    <3>1. i + 1 \in 1 .. Len(s) /\ j \in i + 1 .. Len(s)
      BY <1>1, <1>2
    <3> HIDE DEF t
    <3> QED BY <2>1, <3>1, DigitsTexts
  <2>3. IsDigits(d) <=> j >= i + 2 /\ Within(s, i + 2, j, Digit)
    <3>1. CASE j >= i + 2
      <4>1. i + 2 \in 1 .. Len(s) /\ j \in i + 2 .. Len(s)
        BY <1>1, <3>1
      <4>2. d = SubSeq(s, i + 2, j)
        BY <1>1, <3>1, PiecesOfPieces
      <4> HIDE DEF d
      <4> QED BY <3>1, <4>1, <4>2, DigitsTexts
    <3>2. CASE ~(j >= i + 2)
      <4>1. Len(t) < 3 /\ Len(t) \in Nat
        BY <1>1, <3>2
      <4> HIDE DEF t
      <4>2. d = <<>>
        BY <1>1, <4>1
      <4> QED BY <3>2, <4>2 DEF IsDigits
    <3> QED BY <3>1, <3>2
  <2>4. Len(t) > 1 /\ t[2] = s[i + 1]
    BY <1>1, <1>2
  <2> HIDE DEF t
  <2>5. IsExponent(t) <=> Head(t) \in {"e", "E"} /\ (IsDigits(Tail(t)) \/ (t[2] \in {"+", "-"} /\ IsDigits(d)))
    <3>1. Len(t) > 1 => (IsExponent(t) <=> Head(t) \in {"e", "E"} /\ (IsDigits(Tail(t)) \/ (t[2] \in {"+", "-"} /\ IsDigits(d))))
      BY Zenon DEF IsExponent, d
    <3> QED BY <2>4, <3>1
  <2> HIDE DEF d
  <2> QED BY <1>1, <1>2, <2>2, <2>3, <2>4, <2>5 DEF ExponentSpan, t
<1>3. CASE ~(j > i)
  <2>1. ~(Len(t) > 1)
    BY <1>1, <1>3
  <2> QED BY <1>3, <2>1 DEF IsExponent, ExponentSpan
<1> QED BY <1>2, <1>3

LEMMA PointTaken ==
  ASSUME NEW t \in Seq(Character), NEW p \in 1 .. Len(t)
  PROVE  AllIn(RemoveAt(t, p), Digit) <=> Within(t, 1, p - 1, Digit) /\ Within(t, p + 1, Len(t), Digit)
<1> DEFINE x == SubSeq(t, 1, p - 1)
           y == SubSeq(t, p + 1, Len(t))
           r == x \o y
<1>1. RemoveAt(t, p) = r
  BY DEF RemoveAt
<1>2. Len(t) \in Nat /\ p \in Nat /\ \A k \in 1 .. Len(t) : t[k] \in Character
  OBVIOUS
<1>3. x \in Seq(Character) /\ y \in Seq(Character)
  BY <1>2, SubSeqProperties
<1>4. AllIn(x, Digit) <=> Within(t, 1, p - 1, Digit)
  <2>1. 1 \in Nat /\ p - 1 \in Nat /\ \A k \in 1 .. p - 1 : t[k] \in Character
    BY <1>2
  <2> QED BY <2>1, AllInIs
<1>5. AllIn(y, Digit) <=> Within(t, p + 1, Len(t), Digit)
  <2>1. p + 1 \in Nat /\ \A k \in p + 1 .. Len(t) : t[k] \in Character
    BY <1>2
  <2> QED BY <1>2, <2>1, AllInIs
<1> HIDE DEF x, y
<1>6. r \in Seq(Character) /\ Len(r) = Len(x) + Len(y) /\ Len(x) \in Nat /\ Len(y) \in Nat
      /\ (\A k \in 1 .. Len(x) : r[k] = x[k]) /\ (\A k \in 1 .. Len(y) : r[Len(x) + k] = y[k])
  BY <1>3, JoinedTexts
<1> HIDE DEF r
<1>7. ToSet(r) = ToSet(x) \cup ToSet(y)
  <2>1. /\ ToSet(r) = {r[k] : k \in 1 .. Len(r)} /\ ToSet(x) = {x[k] : k \in 1 .. Len(x)}
        /\ ToSet(y) = {y[k] : k \in 1 .. Len(y)}
    <3>1. DOMAIN r = 1 .. Len(r) /\ DOMAIN x = 1 .. Len(x) /\ DOMAIN y = 1 .. Len(y)
      BY <1>3, <1>6
    <3> QED BY <3>1 DEF ToSet
  <2>2. \A k \in 1 .. Len(r) : k \in 1 .. Len(x) \/ (k - Len(x) \in 1 .. Len(y) /\ k = Len(x) + (k - Len(x)))
    BY <1>6
  <2>3. \A k \in 1 .. Len(r) : r[k] \in ToSet(x) \cup ToSet(y)
    <3>1. ASSUME NEW k \in 1 .. Len(r)
          PROVE  r[k] \in ToSet(x) \cup ToSet(y)
      <4>1. CASE k \in 1 .. Len(x)
        BY <1>6, <2>1, <4>1
      <4>2. CASE k - Len(x) \in 1 .. Len(y) /\ k = Len(x) + (k - Len(x))
        <5>1. r[Len(x) + (k - Len(x))] = y[k - Len(x)]
          BY <1>6, <4>2
        <5> QED BY <2>1, <4>2, <5>1
      <4> QED BY <2>2, <4>1, <4>2
    <3> QED BY <3>1
  <2>4. (\A k \in 1 .. Len(x) : k \in 1 .. Len(r)) /\ (\A k \in 1 .. Len(y) : Len(x) + k \in 1 .. Len(r))
    BY <1>6
  <2>5. ToSet(x) \subseteq ToSet(r)
    BY <1>6, <2>1, <2>4
  <2>6. ToSet(y) \subseteq ToSet(r)
    BY <1>6, <2>1, <2>4
  <2>7. ToSet(r) \subseteq ToSet(x) \cup ToSet(y)
    BY <2>1, <2>3
  <2> QED BY <2>5, <2>6, <2>7
<1> QED BY <1>1, <1>4, <1>5, <1>7 DEF AllIn, r

LEMMA WithinPiece ==
  ASSUME NEW s \in Seq(Character), NEW i \in 1 .. Len(s), NEW j \in i .. Len(s),
         NEW a \in Nat \ {0}, NEW b \in Nat, b <= (j - i) + 1, NEW chars
  PROVE  Within(SubSeq(s, i, j), a, b, chars) <=> Within(s, (i + a) - 1, (i + b) - 1, chars)
<1> DEFINE t == SubSeq(s, i, j)
<1>1. /\ \A k \in 1 .. (j - i) + 1 : t[k] = s[(i + k) - 1]
      /\ i \in Nat /\ j \in Nat /\ 1 <= i /\ i <= j
  BY PieceIs
<1> HIDE DEF t
<1>2. \A k \in a .. b : k \in 1 .. (j - i) + 1 /\ (i + k) - 1 \in (i + a) - 1 .. (i + b) - 1
  BY <1>1
<1>3. \A k \in (i + a) - 1 .. (i + b) - 1 : (k - i) + 1 \in a .. b /\ (i + ((k - i) + 1)) - 1 = k
  BY <1>1
<1>4. Within(s, (i + a) - 1, (i + b) - 1, chars) => Within(t, a, b, chars)
  BY <1>1, <1>2 DEF Within
<1>5. ASSUME Within(t, a, b, chars), NEW k \in (i + a) - 1 .. (i + b) - 1
      PROVE  s[k] \in chars
  <2>1. (k - i) + 1 \in a .. b /\ (i + ((k - i) + 1)) - 1 = k
    BY <1>3
  <2>2. (k - i) + 1 \in 1 .. (j - i) + 1
    BY <1>2, <2>1
  <2>3. t[(k - i) + 1] = s[k]
    BY <1>1, <2>1, <2>2
  <2> QED BY <1>5, <2>1, <2>3 DEF Within
<1>6. Within(t, a, b, chars) => Within(s, (i + a) - 1, (i + b) - 1, chars)
  BY <1>5 DEF Within
<1> QED BY <1>4, <1>6 DEF t

LEMMA MantissaTexts ==
  ASSUME NEW s \in Seq(Character), NEW i \in 1 .. Len(s), NEW j \in i .. Len(s)
  PROVE  IsMantissa(SubSeq(s, i, j)) <=> MantissaSpan(s, i, j)
<1> DEFINE t == SubSeq(s, i, j)
           n == (j - i) + 1
<1>1. /\ t \in Seq(Character) /\ Len(t) = n /\ \A k \in 1 .. n : t[k] = s[(i + k) - 1]
      /\ i \in Nat /\ j \in Nat /\ i <= j /\ 1 <= i
  BY PieceIs
<1>2. \A q \in 1 .. n : /\ Within(t, 1, q - 1, Digit) <=> Within(s, i, ((i + q) - 1) - 1, Digit)
                        /\ Within(t, q + 1, n, Digit) <=> Within(s, ((i + q) - 1) + 1, j, Digit)
  <2>1. ASSUME NEW q \in 1 .. n
        PROVE  /\ Within(t, 1, q - 1, Digit) <=> Within(s, i, ((i + q) - 1) - 1, Digit)
               /\ Within(t, q + 1, n, Digit) <=> Within(s, ((i + q) - 1) + 1, j, Digit)
    <3>1. q \in Nat /\ q >= 1 /\ q - 1 \in Nat /\ q - 1 <= n /\ q + 1 \in Nat \ {0} /\ n \in Nat /\ n <= n /\ 1 \in Nat \ {0}
      BY <1>1
    <3>2. (i + 1) - 1 = i /\ (i + (q - 1)) - 1 = ((i + q) - 1) - 1 /\ (i + (q + 1)) - 1 = ((i + q) - 1) + 1 /\ (i + n) - 1 = j
      BY <1>1
    <3>3. Within(t, 1, q - 1, Digit) <=> Within(s, (i + 1) - 1, (i + (q - 1)) - 1, Digit)
      BY <3>1, WithinPiece
    <3>4. Within(t, q + 1, n, Digit) <=> Within(s, (i + (q + 1)) - 1, (i + n) - 1, Digit)
      BY <3>1, WithinPiece
    <3> HIDE DEF t, n
    <3> QED BY <3>2, <3>3, <3>4
  <2> QED BY <2>1
<1>3. \A q \in 1 .. n : (i + q) - 1 \in i .. j
  BY <1>1
<1>4. \A p \in i .. j : (p - i) + 1 \in 1 .. n /\ (i + ((p - i) + 1)) - 1 = p
  BY <1>1
<1>5. Len(t) > 1 <=> j > i
  BY <1>1
<1> HIDE DEF t
<1>6. DOMAIN t = 1 .. n
  BY <1>1
<1> HIDE DEF n
<1>7. \A q \in 1 .. n : AllIn(RemoveAt(t, q), Digit) <=> /\ Within(s, i, ((i + q) - 1) - 1, Digit)
                                                        /\ Within(s, ((i + q) - 1) + 1, j, Digit)
  BY <1>1, <1>2, PointTaken
<1>8. IsMantissa(t) <=> \E q \in 1 .. n : t[q] = "." /\ Len(t) > 1 /\ AllIn(RemoveAt(t, q), Digit)
  BY <1>6 DEF IsMantissa
<1>9. ASSUME IsMantissa(t)
      PROVE  MantissaSpan(s, i, j)
  <2>1. PICK q \in 1 .. n : t[q] = "." /\ Len(t) > 1 /\ AllIn(RemoveAt(t, q), Digit)
    BY <1>8, <1>9
  <2> DEFINE p == (i + q) - 1
  <2>2. p \in i .. j /\ s[p] = "."
    BY <1>1, <1>3, <2>1
  <2>3. Within(s, i, p - 1, Digit) /\ Within(s, p + 1, j, Digit)
    BY <1>7, <2>1
  <2> HIDE DEF p
  <2> QED BY <1>5, <2>1, <2>2, <2>3 DEF MantissaSpan
<1>10. ASSUME MantissaSpan(s, i, j)
       PROVE  IsMantissa(t)
  <2>1. PICK p \in i .. j : s[p] = "." /\ j > i /\ Within(s, i, p - 1, Digit) /\ Within(s, p + 1, j, Digit)
    BY <1>10 DEF MantissaSpan
  <2> DEFINE q == (p - i) + 1
  <2>2. q \in 1 .. n /\ (i + q) - 1 = p
    BY <1>4
  <2> HIDE DEF q
  <2>3. t[q] = "." /\ AllIn(RemoveAt(t, q), Digit)
    BY <1>1, <1>7, <2>1, <2>2
  <2> QED BY <1>5, <1>8, <2>1, <2>2, <2>3
<1> QED BY <1>9, <1>10 DEF t

LEMMA FloatTexts ==
  ASSUME NEW s \in Seq(Character), NEW i \in 1 .. Len(s), NEW j \in i .. Len(s)
  PROVE  IsFloat(SubSeq(s, i, j)) <=> FloatSpan(s, i, j)
<1> DEFINE t == SubSeq(s, i, j)
           n == (j - i) + 1
           F(k) == (IsMantissa(SubSeq(t, 1, k)) \/ IsDigits(SubSeq(t, 1, k))) /\ IsExponent(SubSeq(t, k + 1, Len(t)))
           S(k) == (MantissaSpan(s, i, k) \/ Within(s, i, k, Digit)) /\ ExponentSpan(s, k + 1, j)
<1>1. /\ t \in Seq(Character) /\ Len(t) = n
      /\ i \in Nat /\ j \in Nat /\ i <= j /\ 1 <= i /\ j <= Len(s) /\ Len(s) \in Nat
  BY PieceIs
<1>2. \A k \in 1 .. n - 1 : F(k) <=> S((i + k) - 1)
  <2>1. ASSUME NEW k \in 1 .. n - 1
        PROVE  F(k) <=> S((i + k) - 1)
    <3> DEFINE m == (i + k) - 1
    <3>1. k \in Nat /\ k <= n /\ m \in i .. Len(s) /\ m + 1 \in 1 .. Len(s) /\ j \in m + 1 .. Len(s)
      BY <1>1
    <3>2. SubSeq(t, 1, k) = SubSeq(s, i, m)
      <4>1. SubSeq(t, 1, k) = SubSeq(s, (i + 1) - 1, (i + k) - 1)
        BY <1>1, <3>1, PiecesOfPieces
      <4>2. (i + 1) - 1 = i
        BY <1>1
      <4> HIDE DEF t
      <4> QED BY <4>1, <4>2
    <3>3. SubSeq(t, k + 1, n) = SubSeq(s, m + 1, j)
      <4>1. k + 1 \in Nat \ {0} /\ n \in Nat /\ n <= n /\ (i + (k + 1)) - 1 = m + 1 /\ (i + n) - 1 = j
        BY <1>1, <3>1
      <4>2. SubSeq(t, k + 1, n) = SubSeq(s, (i + (k + 1)) - 1, (i + n) - 1)
        BY <4>1, PiecesOfPieces
      <4> HIDE DEF t, n, m
      <4> QED BY <4>1, <4>2
    <3> HIDE DEF t, n, m
    <3>4. F(k) <=> (IsMantissa(SubSeq(s, i, m)) \/ IsDigits(SubSeq(s, i, m))) /\ IsExponent(SubSeq(s, m + 1, j))
      BY <1>1, <3>2, <3>3
    <3>5. (IsMantissa(SubSeq(s, i, m)) <=> MantissaSpan(s, i, m)) /\ (IsDigits(SubSeq(s, i, m)) <=> Within(s, i, m, Digit))
      BY <3>1, MantissaTexts, DigitsTexts
    <3>6. IsExponent(SubSeq(s, m + 1, j)) <=> ExponentSpan(s, m + 1, j)
      BY <3>1, ExponentTexts
    <3>7. S(m) <=> (MantissaSpan(s, i, m) \/ Within(s, i, m, Digit)) /\ ExponentSpan(s, m + 1, j)
      OBVIOUS
    <3> HIDE DEF F, S
    <3> QED BY <3>4, <3>5, <3>6, <3>7 DEF m
  <2> QED BY <2>1
<1>3. \A k \in 1 .. n - 1 : (i + k) - 1 \in i .. j - 1
  BY <1>1
<1>4. \A k \in i .. j - 1 : (k - i) + 1 \in 1 .. n - 1 /\ (i + ((k - i) + 1)) - 1 = k
  BY <1>1
<1>5. IsMantissa(t) <=> MantissaSpan(s, i, j)
  BY MantissaTexts
<1>6. IsFloat(t) <=> IsMantissa(t) \/ \E k \in 1 .. n - 1 : F(k)
  <2>1. IsFloat(t) <=> IsMantissa(t) \/ \E k \in 1 .. Len(t) - 1 : F(k)
    BY Zenon DEF IsFloat
  <2> HIDE DEF t, n, F
  <2> QED BY <1>1, <2>1
<1>7. FloatSpan(s, i, j) <=> MantissaSpan(s, i, j) \/ \E k \in i .. j - 1 : S(k)
  BY Zenon DEF FloatSpan
<1> HIDE DEF F, S, n
<1>8. (\E k \in 1 .. n - 1 : F(k)) => \E k \in i .. j - 1 : S(k)
  BY <1>2, <1>3
<1>9. ASSUME NEW k \in i .. j - 1, S(k)
      PROVE  \E q \in 1 .. n - 1 : F(q)
  <2> DEFINE q == (k - i) + 1
  <2>1. q \in 1 .. n - 1 /\ (i + q) - 1 = k
    BY <1>4
  <2> HIDE DEF q
  <2>2. S((i + q) - 1)
    BY <1>9, <2>1
  <2> QED BY <1>2, <2>1, <2>2
<1> QED BY <1>5, <1>6, <1>7, <1>8, <1>9

(* The kinds of the text from i to j.                                      *)
SymbolSpan(s, i, j) == j = i /\ s[i] \in Punctuation
IntegerSpan(s, i, j) == Within(s, i, j, Digit) \/ HexNumberSpan(s, i, j)

LEMMA KindsAre ==
  ASSUME NEW t
  PROVE  /\ Kinds(t) \subseteq {"identifier", "integer", "float", "symbol"}
         /\ ("identifier" \in Kinds(t)) <=> IsIdentifier(t)
         /\ ("integer" \in Kinds(t)) <=> (IsDigits(t) \/ IsHexInteger(t))
         /\ ("float" \in Kinds(t)) <=> IsFloat(t)
         /\ ("symbol" \in Kinds(t)) <=> (Len(t) = 1 /\ t[1] \in Punctuation)
<1>1. Kinds(t) \subseteq {"identifier", "integer", "float", "symbol"}
  BY Zenon DEF Kinds
<1>2. ("identifier" \in Kinds(t)) <=> IsIdentifier(t)
  BY Zenon DEF Kinds
<1>3. ("integer" \in Kinds(t)) <=> (IsDigits(t) \/ IsHexInteger(t))
  BY Zenon DEF Kinds
<1>4. ("float" \in Kinds(t)) <=> IsFloat(t)
  BY Zenon DEF Kinds
<1>5. ("symbol" \in Kinds(t)) <=> (Len(t) = 1 /\ t[1] \in Punctuation)
  BY Zenon DEF Kinds
<1> QED BY <1>1, <1>2, <1>3, <1>4, <1>5

LEMMA KindSpans ==
  ASSUME NEW s \in Seq(Character), NEW i \in 1 .. Len(s), NEW j \in i .. Len(s)
  PROVE  /\ Kinds(SubSeq(s, i, j)) \subseteq {"identifier", "integer", "float", "symbol"}
         /\ ("identifier" \in Kinds(SubSeq(s, i, j))) <=> NameSpan(s, i, j)
         /\ ("integer" \in Kinds(SubSeq(s, i, j))) <=> IntegerSpan(s, i, j)
         /\ ("float" \in Kinds(SubSeq(s, i, j))) <=> FloatSpan(s, i, j)
         /\ ("symbol" \in Kinds(SubSeq(s, i, j))) <=> SymbolSpan(s, i, j)
<1> DEFINE t == SubSeq(s, i, j)
<1>1. Len(t) = (j - i) + 1 /\ t[1] = s[i] /\ i \in Nat /\ j \in Nat
  BY PieceIs
<1>2. /\ IsIdentifier(t) <=> NameSpan(s, i, j)
      /\ IsDigits(t) <=> Within(s, i, j, Digit)
      /\ IsHexInteger(t) <=> HexNumberSpan(s, i, j)
      /\ IsFloat(t) <=> FloatSpan(s, i, j)
  BY NameTexts, DigitsTexts, HexTexts, FloatTexts
<1>3. Len(t) = 1 <=> j = i
  BY <1>1
<1> HIDE DEF t
<1>4. (Len(t) = 1 /\ t[1] \in Punctuation) <=> SymbolSpan(s, i, j)
  BY <1>1, <1>3 DEF SymbolSpan
<1>5. (IsDigits(t) \/ IsHexInteger(t)) <=> IntegerSpan(s, i, j)
  BY <1>2 DEF IntegerSpan
<1> QED BY <1>2, <1>4, <1>5, KindsAre DEF t

LongestIn(s, i) == Max({i - 1} \cup {j \in i .. Len(s) : Kinds(SubSeq(s, i, j)) # {}})

(* A text of the kinds goes from i to last, and no longer one.             *)
Goes(s, i, last, kinds) ==
    /\ last \in i - 1 .. Len(s) /\ (last >= i => Kinds(SubSeq(s, i, last)) = kinds /\ kinds # {})
    /\ \A j \in last + 1 .. Len(s) : Kinds(SubSeq(s, i, j)) = {}

LEMMA LongestIs ==
  ASSUME NEW s \in Seq(Character), NEW i \in 1 .. Len(s), NEW last, NEW kinds, Goes(s, i, last, kinds)
  PROVE  LongestIn(s, i) = last
<1> DEFINE n == Len(s)
           K(j) == Kinds(SubSeq(s, i, j)) # {}
           M == {i - 1} \cup {j \in i .. n : K(j)}
<1>1. n \in Nat /\ i \in Nat /\ 1 <= i /\ i <= n /\ last \in Nat /\ i - 1 <= last /\ last <= n
  BY DEF Goes
<1>2. (last >= i => K(last)) /\ \A j \in last + 1 .. n : ~K(j)
  BY <1>1 DEF Goes
<1> HIDE DEF K
<1>3. M \subseteq 0 .. n /\ M # {}
  BY <1>1
<1>4. last \in M
  BY <1>1, <1>2
<1>5. \A j \in M : j <= last
  BY <1>1, <1>2
<1>6. LongestIn(s, i) = Max(M)
  BY DEF LongestIn, K
<1> HIDE DEF M, n
<1>7. Max(M) \in M /\ Max(M) >= last /\ Max(M) \in Nat
  <2>1. Max(M) \in M /\ \A y \in M : Max(M) >= y
    BY <1>1, <1>3, GreatestNatural
  <2> DEFINE x == Max(M)
  <2>2. x \in M /\ x >= last
    BY <1>4, <2>1
  <2> HIDE DEF x
  <2>3. x \in 0 .. n
    BY <1>3, <2>2
  <2>4. x \in Nat
    BY <1>1, <2>3
  <2> QED BY <2>2, <2>4 DEF x
<1>8. Max(M) <= last
  BY <1>5, <1>7
<1> QED BY <1>1, <1>6, <1>7, <1>8

LEMMA NoNumber ==
  ASSUME NEW s \in Seq(Character), NEW i \in 1 .. Len(s), s[i] \notin Digit,
         s[i] = "." /\ i < Len(s) => s[i + 1] \notin Digit
  PROVE  \A j \in i .. Len(s) : ~IntegerSpan(s, i, j) /\ ~FloatSpan(s, i, j)
<1> DEFINE n == Len(s)
<1>1. n \in Nat /\ i \in Nat /\ 1 <= i /\ i <= n
  OBVIOUS
<1>2. ASSUME NEW k \in i .. n
      PROVE  ~Within(s, i, k, Digit)
  BY <1>1 DEF Within
<1>3. ASSUME NEW k \in i .. n, MantissaSpan(s, i, k)
      PROVE  FALSE
  <2>1. PICK p \in i .. k : s[p] = "." /\ k > i /\ Within(s, i, p - 1, Digit) /\ Within(s, p + 1, k, Digit)
    BY <1>3 DEF MantissaSpan
  <2>2. p = i
    BY <1>1, <2>1 DEF Within
  <2>3. i + 1 \in p + 1 .. k /\ i < n
    BY <1>1, <2>1, <2>2
  <2> QED BY <2>1, <2>2, <2>3 DEF Within
<1>4. ASSUME NEW j \in i .. n
      PROVE  ~IntegerSpan(s, i, j) /\ ~FloatSpan(s, i, j)
  <2>1. \A k \in i .. j - 1 : k \in i .. n
    BY <1>1
  <2>2. ~FloatSpan(s, i, j)
    BY <1>2, <1>3, <1>4, <2>1 DEF FloatSpan
  <2>3. s[i] # "0"
    BY FirstCharacters
  <2> QED BY <1>2, <2>2, <2>3 DEF IntegerSpan, HexNumberSpan
<1> QED BY <1>4

(* What begins with a letter or an underscore.                             *)
LEMMA NameGoes ==
  ASSUME NEW s \in Seq(Character), NEW i \in 1 .. Len(s), NEW end \in i + 1 .. Len(s) + 1,
         s[i] \in NameStart, Within(s, i, end - 1, Word), end <= Len(s) => s[end] \notin Word
  PROVE  Goes(s, i, end - 1, {"identifier"})
<1> DEFINE n == Len(s)
<1>1. n \in Nat /\ i \in Nat /\ 1 <= i /\ i <= n /\ end \in Nat /\ end >= i + 1 /\ end <= n + 1 /\ end - 1 \in i .. n
  OBVIOUS
<1>2. s[i] \notin Digit /\ s[i] \notin Punctuation /\ s[i] # "."
  BY FirstCharacters
<1>3. \A j \in i .. n : ~IntegerSpan(s, i, j) /\ ~FloatSpan(s, i, j) /\ ~SymbolSpan(s, i, j)
  BY <1>2, NoNumber DEF SymbolSpan
<1>4. ASSUME NEW j \in i .. n
      PROVE  NameSpan(s, i, j) <=> j <= end - 1
  <2>1. j <= end - 1 => Within(s, i, j, Word)
    BY <1>1 DEF Within
  <2>2. ~(j <= end - 1) => ~Within(s, i, j, Word)
    BY <1>1 DEF Within
  <2> QED BY <2>1, <2>2 DEF NameSpan
<1>5. \A j \in i .. n : Kinds(SubSeq(s, i, j)) = IF j <= end - 1 THEN {"identifier"} ELSE {}
  BY <1>3, <1>4, KindSpans
<1>6. \A j \in (end - 1) + 1 .. n : j \in i .. n /\ ~(j <= end - 1)
  BY <1>1
<1> QED BY <1>1, <1>5, <1>6 DEF Goes

(* A symbol that does not begin a number.                                  *)
LEMMA SymbolGoes ==
  ASSUME NEW s \in Seq(Character), NEW i \in 1 .. Len(s), s[i] \in Punctuation,
         s[i] = "." /\ i < Len(s) => s[i + 1] \notin Digit
  PROVE  Goes(s, i, i, {"symbol"})
<1> DEFINE n == Len(s)
<1>1. n \in Nat /\ i \in Nat /\ 1 <= i /\ i <= n
  OBVIOUS
<1>2. s[i] \notin Digit /\ s[i] \notin NameStart
  BY FirstCharacters
<1>3. \A j \in i .. n : ~NameSpan(s, i, j) /\ ~IntegerSpan(s, i, j) /\ ~FloatSpan(s, i, j)
  BY <1>2, NoNumber DEF NameSpan
<1>4. \A j \in i .. n : SymbolSpan(s, i, j) <=> j = i
  BY DEF SymbolSpan
<1>5. \A j \in i .. n : Kinds(SubSeq(s, i, j)) = IF j = i THEN {"symbol"} ELSE {}
  BY <1>3, <1>4, KindSpans
<1>6. (\A j \in i + 1 .. n : j \in i .. n /\ j # i) /\ i \in i - 1 .. n /\ i \in i .. n
  BY <1>1
<1> QED BY <1>1, <1>5, <1>6 DEF Goes

(* Nothing begins with another character.                                  *)
LEMMA NothingGoes ==
  ASSUME NEW s \in Seq(Character), NEW i \in 1 .. Len(s), s[i] \notin Word, s[i] \notin Punctuation
  PROVE  Goes(s, i, i - 1, {})
<1> DEFINE n == Len(s)
<1>1. n \in Nat /\ i \in Nat /\ 1 <= i /\ i <= n
  OBVIOUS
<1>2. s[i] \notin Digit /\ s[i] \notin NameStart /\ s[i] # "."
  <2>1. NameStart \subseteq Word /\ Digit \subseteq Word
    BY Zenon, WordsAreCharacters DEF NameStart
  <2> QED BY <2>1, FirstCharacters
<1>3. \A j \in i .. n : ~NameSpan(s, i, j) /\ ~IntegerSpan(s, i, j) /\ ~FloatSpan(s, i, j) /\ ~SymbolSpan(s, i, j)
  BY <1>2, NoNumber DEF NameSpan, SymbolSpan
<1>4. \A j \in i .. n : Kinds(SubSeq(s, i, j)) = {}
  BY <1>3, KindSpans
<1>5. (\A j \in (i - 1) + 1 .. n : j \in i .. n) /\ i - 1 \in i - 1 .. n /\ ~(i - 1 >= i)
  BY <1>1
<1> QED BY <1>4, <1>5 DEF Goes

(* 0x and the hexadecimal digits after it, which may be missing.           *)
LEMMA HexGoes ==
  ASSUME NEW s \in Seq(Character), NEW i \in 1 .. Len(s), NEW end \in i + 2 .. Len(s) + 1,
         s[i] = "0", s[i + 1] \in {"x", "X"}, Within(s, i + 2, end - 1, Hex), end <= Len(s) => s[end] \notin Hex
  PROVE  Goes(s, i, IF end = i + 2 THEN i ELSE end - 1, {"integer"})
<1> DEFINE n == Len(s)
           last == IF end = i + 2 THEN i ELSE end - 1
<1>1. n \in Nat /\ i \in Nat /\ 1 <= i /\ i + 1 <= n /\ end \in Nat /\ end >= i + 2 /\ end <= n + 1 /\ last \in i .. n
  OBVIOUS
<1>2. /\ s[i] \notin NameStart /\ s[i] \notin Punctuation /\ s[i] # "." /\ s[i] \in Digit
      /\ s[i + 1] \notin Digit /\ s[i + 1] # "." /\ s[i + 1] \notin {"e", "E"}
  <2>1. "x" # "." /\ "X" # "." /\ "x" \notin {"e", "E"} /\ "X" \notin {"e", "E"} /\ "0" # "."
    OBVIOUS
  <2> QED BY <2>1, FirstCharacters, PointIsNoDigit
<1>3. ASSUME NEW k \in i .. n
      PROVE  (Within(s, i, k, Digit) <=> k = i) /\ ~MantissaSpan(s, i, k)
  <2>1. k = i => Within(s, i, k, Digit)
    BY <1>1, <1>2 DEF Within
  <2>2. k # i => ~Within(s, i, k, Digit)
    BY <1>1, <1>2 DEF Within
  <2>3. ASSUME MantissaSpan(s, i, k)
        PROVE  FALSE
    <3>1. PICK p \in i .. k : s[p] = "." /\ Within(s, i, p - 1, Digit)
      BY <2>3 DEF MantissaSpan
    <3>2. p # i /\ p # i + 1
      BY <1>2, <3>1
    <3>3. i + 1 \in i .. p - 1
      BY <1>1, <3>2
    <3> QED BY <1>2, <3>1, <3>3 DEF Within
  <2> QED BY <2>1, <2>2, <2>3
<1>4. ASSUME NEW j \in i .. n
      PROVE  ~NameSpan(s, i, j) /\ ~FloatSpan(s, i, j) /\ ~SymbolSpan(s, i, j)
  <2>1. ASSUME NEW k \in i .. j - 1, MantissaSpan(s, i, k) \/ Within(s, i, k, Digit), ExponentSpan(s, k + 1, j)
        PROVE  FALSE
    <3>1. k \in i .. n
      BY <1>1
    <3>2. k = i
      BY <1>3, <2>1, <3>1
    <3> QED BY <1>2, <2>1, <3>2 DEF ExponentSpan
  <2>2. ~FloatSpan(s, i, j)
    BY <1>3, <2>1 DEF FloatSpan
  <2> QED BY <1>2, <2>2 DEF NameSpan, SymbolSpan
<1>5. ASSUME NEW j \in i .. n
      PROVE  IntegerSpan(s, i, j) <=> j = i \/ j \in i + 2 .. end - 1
  <2>1. j \in i + 2 .. end - 1 => Within(s, i + 2, j, Hex)
    BY <1>1 DEF Within
  <2>2. j >= end => ~Within(s, i + 2, j, Hex)
    BY <1>1 DEF Within
  <2>3. HexNumberSpan(s, i, j) <=> j \in i + 2 .. end - 1
    BY <1>1, <2>1, <2>2 DEF HexNumberSpan
  <2> QED BY <1>3, <2>3 DEF IntegerSpan
<1>6. \A j \in i .. n : Kinds(SubSeq(s, i, j)) = IF j = i \/ j \in i + 2 .. end - 1 THEN {"integer"} ELSE {}
  BY <1>4, <1>5, KindSpans
<1>7. /\ \A j \in last + 1 .. n : j \in i .. n /\ ~(j = i \/ j \in i + 2 .. end - 1)
      /\ last = i \/ last \in i + 2 .. end - 1
      /\ last \in i - 1 .. n
  BY <1>1
<1> HIDE DEF last
<1>8. Goes(s, i, last, {"integer"})
  BY <1>1, <1>6, <1>7 DEF Goes
<1> QED BY <1>8 DEF last

(* A decimal number at i: its digits end before w, its fraction before m,  *)
(* and the digits of its exponent go from x up to e.                       *)
NumberIn(s, i, w, m, x, e) ==
    /\ w \in i .. Len(s) + 1 /\ Within(s, i, w - 1, Digit) /\ (w <= Len(s) => s[w] \notin Digit)
    /\ \/ m = w /\ w > i /\ (w <= Len(s) => s[w] # ".")
       \/ /\ w <= Len(s) /\ s[w] = "." /\ m \in w + 1 .. Len(s) + 1 /\ m > i + 1
          /\ Within(s, w + 1, m - 1, Digit) /\ (m <= Len(s) => s[m] \notin Digit)
    /\ \/ (m <= Len(s) => s[m] \notin {"e", "E"}) /\ x = m /\ e = m
       \/ /\ m <= Len(s) /\ s[m] \in {"e", "E"} /\ x \in m + 1 .. Len(s) + 1
          /\ \/ x = m + 1 /\ (m + 1 <= Len(s) => s[m + 1] \notin {"+", "-"})
             \/ x = m + 2 /\ m + 1 <= Len(s) /\ s[m + 1] \in {"+", "-"}
          /\ e \in x .. Len(s) + 1 /\ Within(s, x, e - 1, Digit) /\ (e <= Len(s) => s[e] \notin Digit)

LEMMA NumberPlaces ==
  ASSUME NEW s \in Seq(Character), NEW i \in 1 .. Len(s), NEW w, NEW m, NEW x, NEW e, NumberIn(s, i, w, m, x, e)
  PROVE  /\ Len(s) \in Nat /\ i \in Nat /\ w \in Nat /\ m \in Nat /\ x \in Nat /\ e \in Nat
         /\ 1 <= i /\ i <= w /\ w <= m /\ i < m /\ m <= x /\ x <= e /\ e <= Len(s) + 1 /\ w <= Len(s) + 1 /\ m <= Len(s) + 1
<1>1. Len(s) \in Nat /\ i \in Nat /\ 1 <= i
  OBVIOUS
<1>2. w \in Nat /\ i <= w /\ w <= Len(s) + 1
  BY <1>1 DEF NumberIn
<1>3. m \in Nat /\ w <= m /\ i < m /\ m <= Len(s) + 1
  BY <1>1, <1>2 DEF NumberIn
<1>4. x \in Nat /\ m <= x /\ e \in Nat /\ x <= e /\ e <= Len(s) + 1
  BY <1>1, <1>3 DEF NumberIn
<1> QED BY <1>1, <1>2, <1>3, <1>4

LEMMA WholeUpto ==
  ASSUME NEW s \in Seq(Character), NEW i \in 1 .. Len(s), NEW w, NEW m, NEW x, NEW e, NumberIn(s, i, w, m, x, e),
         NEW k \in i .. Len(s)
  PROVE  Within(s, i, k, Digit) <=> k < w
<1>1. /\ Len(s) \in Nat /\ i \in Nat /\ w \in Nat /\ i <= w /\ w <= Len(s) + 1
      /\ Within(s, i, w - 1, Digit) /\ (w <= Len(s) => s[w] \notin Digit)
  BY NumberPlaces DEF NumberIn
<1>2. CASE k < w
  BY <1>1, <1>2 DEF Within
<1>3. CASE ~(k < w)
  <2>1. w \in i .. k /\ w <= Len(s)
    BY <1>1, <1>3
  <2> QED BY <1>1, <1>3, <2>1 DEF Within
<1> QED BY <1>2, <1>3

LEMMA MantissaUpto ==
  ASSUME NEW s \in Seq(Character), NEW i \in 1 .. Len(s), NEW w, NEW m, NEW x, NEW e, NumberIn(s, i, w, m, x, e),
         NEW k \in i .. Len(s)
  PROVE  MantissaSpan(s, i, k) <=> w < m /\ w <= k /\ i < k /\ k < m
<1>1. /\ Len(s) \in Nat /\ i \in Nat /\ w \in Nat /\ m \in Nat /\ i <= w /\ w <= m /\ i < m
  BY NumberPlaces
<1>2. /\ Within(s, i, w - 1, Digit) /\ (w <= Len(s) => s[w] \notin Digit)
      /\ \/ m = w /\ (w <= Len(s) => s[w] # ".")
         \/ /\ w <= Len(s) /\ s[w] = "." /\ w < m
            /\ Within(s, w + 1, m - 1, Digit) /\ (m <= Len(s) => s[m] \notin Digit)
  BY <1>1 DEF NumberIn
<1>3. "." \notin Digit
  <2>1. Digit \subseteq Word
    BY Zenon, WordsAreCharacters
  <2> QED BY <2>1, PointIsNoDigit
<1>4. ASSUME MantissaSpan(s, i, k)
      PROVE  w < m /\ w <= k /\ i < k /\ k < m
  <2>1. PICK p \in i .. k : s[p] = "." /\ k > i /\ Within(s, i, p - 1, Digit) /\ Within(s, p + 1, k, Digit)
    BY <1>4 DEF MantissaSpan
  <2>2. p \in Nat /\ p <= Len(s) /\ i <= p /\ p <= k
    BY <1>1
  <2>3. ~(p < w)
    <3>1. p < w => p \in i .. w - 1
      BY <1>1, <2>2
    <3> QED BY <1>2, <1>3, <2>1, <3>1 DEF Within
  <2>4. ~(w < p)
    <3>1. w < p => w \in i .. p - 1 /\ w <= Len(s)
      BY <1>1, <2>2
    <3> QED BY <1>2, <2>1, <3>1 DEF Within
  <2>5. p = w
    BY <1>1, <2>2, <2>3, <2>4
  <2>6. w < m /\ (m <= Len(s) => s[m] \notin Digit)
    BY <1>2, <2>1, <2>2, <2>5
  <2>7. ~(m <= k)
    <3>1. m <= k => m \in p + 1 .. k /\ m <= Len(s)
      BY <1>1, <2>5, <2>6
    <3> QED BY <2>1, <2>6, <3>1 DEF Within
  <2> QED BY <1>1, <2>1, <2>2, <2>5, <2>6, <2>7
<1>5. ASSUME w < m, w <= k, i < k, k < m
      PROVE  MantissaSpan(s, i, k)
  <2>1. w \in i .. k
    BY <1>1, <1>5
  <2>2. s[w] = "." /\ Within(s, w + 1, m - 1, Digit)
    BY <1>1, <1>2, <1>5
  <2>3. Within(s, w + 1, k, Digit)
    BY <1>1, <1>5, <2>2 DEF Within
  <2> QED BY <1>2, <1>5, <2>1, <2>2, <2>3 DEF MantissaSpan
<1> QED BY <1>4, <1>5

LEMMA ExponentUpto ==
  ASSUME NEW s \in Seq(Character), NEW i \in 1 .. Len(s), NEW w, NEW m, NEW x, NEW e, NumberIn(s, i, w, m, x, e),
         NEW j \in m .. Len(s)
  PROVE  ExponentSpan(s, m, j) <=> m < x /\ x <= j /\ j < e
<1>1. /\ Len(s) \in Nat /\ m \in Nat /\ x \in Nat /\ e \in Nat /\ m <= x /\ x <= e /\ e <= Len(s) + 1
  BY NumberPlaces
<1>2. \/ (m <= Len(s) => s[m] \notin {"e", "E"}) /\ x = m
      \/ /\ s[m] \in {"e", "E"} /\ m < x
         /\ \/ x = m + 1 /\ (m + 1 <= Len(s) => s[m + 1] \notin {"+", "-"})
            \/ x = m + 2 /\ s[m + 1] \in {"+", "-"}
         /\ Within(s, x, e - 1, Digit) /\ (e <= Len(s) => s[e] \notin Digit)
  BY <1>1 DEF NumberIn
<1>3. "+" \notin Digit /\ "-" \notin Digit
  <2>1. Digit \subseteq Word
    BY Zenon, WordsAreCharacters
  <2> QED BY <2>1, PointIsNoDigit
<1>4. CASE x = m
  <2>1. s[m] \notin {"e", "E"}
    BY <1>1, <1>2, <1>4
  <2> QED BY <1>1, <1>4, <2>1 DEF ExponentSpan
<1>5. CASE x # m
  <2>1. /\ s[m] \in {"e", "E"} /\ m < x /\ Within(s, x, e - 1, Digit) /\ (e <= Len(s) => s[e] \notin Digit)
        /\ \/ x = m + 1 /\ (m + 1 <= Len(s) => s[m + 1] \notin {"+", "-"})
           \/ x = m + 2 /\ s[m + 1] \in {"+", "-"}
    BY <1>2, <1>5
  <2>2. x <= j => (Within(s, x, j, Digit) <=> j < e)
    <3>1. CASE j < e
      BY <1>1, <2>1, <3>1 DEF Within
    <3>2. CASE ~(j < e) /\ x <= j
      <4>1. e \in x .. j /\ e <= Len(s)
        BY <1>1, <3>2
      <4> QED BY <2>1, <3>2, <4>1 DEF Within
    <3> QED BY <3>1, <3>2
  <2>3. CASE x = m + 1 /\ (m + 1 <= Len(s) => s[m + 1] \notin {"+", "-"})
    <3>1. j > m <=> x <= j
      BY <1>1, <2>3
    <3>2. j > m => s[m + 1] \notin {"+", "-"}
      BY <1>1, <2>3
    <3> QED BY <2>1, <2>2, <2>3, <3>1, <3>2 DEF ExponentSpan
  <2>4. CASE x = m + 2 /\ s[m + 1] \in {"+", "-"}
    <3>1. j > m => ~Within(s, m + 1, j, Digit)
      <4>1. j > m => m + 1 \in m + 1 .. j
        BY <1>1
      <4> QED BY <1>3, <2>4, <4>1 DEF Within
    <3>2. ExponentSpan(s, m, j) <=> j > m /\ j >= m + 2 /\ Within(s, m + 2, j, Digit)
      BY <2>1, <2>4, <3>1 DEF ExponentSpan
    <3>3. j > m /\ j >= m + 2 <=> x <= j
      BY <1>1, <2>4
    <3> QED BY <2>1, <2>2, <2>4, <3>2, <3>3
  <2> QED BY <2>1, <2>3, <2>4
<1> QED BY <1>4, <1>5

LEMMA FloatUpto ==
  ASSUME NEW s \in Seq(Character), NEW i \in 1 .. Len(s), NEW w, NEW m, NEW x, NEW e, NumberIn(s, i, w, m, x, e),
         NEW j \in i .. Len(s)
  PROVE  FloatSpan(s, i, j) <=> \/ w < m /\ w <= j /\ i < j /\ j < m
                                \/ m < x /\ x <= j /\ j < e
<1>1. /\ Len(s) \in Nat /\ i \in Nat /\ w \in Nat /\ m \in Nat /\ x \in Nat /\ e \in Nat
      /\ 1 <= i /\ i <= w /\ w <= m /\ i < m /\ m <= x /\ x <= e /\ e <= Len(s) + 1
  BY NumberPlaces
<1> DEFINE Coefficient(k) == MantissaSpan(s, i, k) \/ Within(s, i, k, Digit)
<1>2. MantissaSpan(s, i, j) <=> w < m /\ w <= j /\ i < j /\ j < m
  BY MantissaUpto
<1>3. \A k \in i .. Len(s) : Coefficient(k) => k < m
  <2>1. ASSUME NEW k \in i .. Len(s), Coefficient(k)
        PROVE  k < m
    <3>1. MantissaSpan(s, i, k) <=> w < m /\ w <= k /\ i < k /\ k < m
      BY MantissaUpto
    <3>2. Within(s, i, k, Digit) <=> k < w
      BY WholeUpto
    <3> QED BY <1>1, <2>1, <3>1, <3>2
  <2> QED BY <2>1
<1>4. \A k \in i + 1 .. m - 1 : s[k] \notin {"e", "E"}
  <2>1. /\ Within(s, i, w - 1, Digit)
        /\ \/ m = w
           \/ s[w] = "." /\ Within(s, w + 1, m - 1, Digit)
    BY DEF NumberIn
  <2>2. \A k \in i + 1 .. m - 1 : k \in i .. w - 1 \/ (m # w /\ (k = w \/ k \in w + 1 .. m - 1))
    BY <1>1
  <2>3. \A k \in i + 1 .. m - 1 : s[k] \in Digit \/ s[k] = "."
    BY <2>1, <2>2 DEF Within
  <2>4. "." # "e" /\ "." # "E"
    OBVIOUS
  <2> QED BY <2>3, <2>4, PointIsNoDigit
<1>5. Coefficient(m - 1)
  <2>1. m - 1 \in i .. Len(s)
    BY <1>1, NumberPlaces
  <2>2. MantissaSpan(s, i, m - 1) <=> w < m /\ w <= m - 1 /\ i < m - 1 /\ m - 1 < m
    BY <2>1, MantissaUpto
  <2>3. Within(s, i, m - 1, Digit) <=> m - 1 < w
    BY <2>1, WholeUpto
  <2>4. m = w \/ (w < m /\ i + 1 < m)
    BY <1>1 DEF NumberIn
  <2> HIDE DEF Coefficient
  <2> QED BY <1>1, <2>2, <2>3, <2>4 DEF Coefficient
<1>6. ASSUME NEW k \in i .. j - 1, Coefficient(k), ExponentSpan(s, k + 1, j)
      PROVE  m < x /\ x <= j /\ j < e
  <2>1. k \in i .. Len(s) /\ k < m
    BY <1>1, <1>3, <1>6
  <2>2. s[k + 1] \in {"e", "E"}
    BY <1>6 DEF ExponentSpan
  <2>3. k + 1 = m
    <3>1. k + 1 < m => k + 1 \in i + 1 .. m - 1
      BY <1>1, <2>1
    <3> QED BY <1>1, <1>4, <2>1, <2>2, <3>1
  <2>4. j \in m .. Len(s) /\ ExponentSpan(s, m, j)
    BY <1>1, <1>6, <2>1, <2>3
  <2> QED BY <2>4, ExponentUpto
<1>7. ASSUME m < x, x <= j, j < e
      PROVE  \E k \in i .. j - 1 : Coefficient(k) /\ ExponentSpan(s, k + 1, j)
  <2>1. j \in m .. Len(s) /\ m - 1 \in i .. j - 1 /\ (m - 1) + 1 = m
    BY <1>1, <1>7
  <2>2. ExponentSpan(s, m, j)
    BY <1>7, <2>1, ExponentUpto
  <2> HIDE DEF Coefficient
  <2>3. Coefficient(m - 1) /\ ExponentSpan(s, (m - 1) + 1, j)
    BY <1>5, <2>1, <2>2
  <2> QED BY <2>1, <2>3
<1>8. FloatSpan(s, i, j) <=>
        MantissaSpan(s, i, j) \/ \E k \in i .. j - 1 : Coefficient(k) /\ ExponentSpan(s, k + 1, j)
  BY Zenon DEF FloatSpan
<1> HIDE DEF Coefficient
<1> QED BY <1>2, <1>6, <1>7, <1>8

(* Where the number ends that the rules derive: the exponent may miss its  *)
(* digits.                                                                 *)
LEMMA DecimalGoes ==
  ASSUME NEW s \in Seq(Character), NEW i \in 1 .. Len(s), NEW w, NEW m, NEW x, NEW e, NumberIn(s, i, w, m, x, e),
         ~(s[i] = "0" /\ i < Len(s) /\ s[i + 1] \in {"x", "X"})
  PROVE  LET last == IF x < e THEN e - 1 ELSE m - 1
         IN  last \in i .. Len(s) /\ Goes(s, i, last, IF last = w - 1 THEN {"integer"} ELSE {"float"})
<1> DEFINE n == Len(s)
           last == IF x < e THEN e - 1 ELSE m - 1
           kinds == IF last = w - 1 THEN {"integer"} ELSE {"float"}
<1>1. /\ n \in Nat /\ i \in Nat /\ w \in Nat /\ m \in Nat /\ x \in Nat /\ e \in Nat
      /\ 1 <= i /\ i <= w /\ w <= m /\ i < m /\ m <= x /\ x <= e /\ e <= n + 1 /\ w <= n + 1 /\ m <= n + 1 /\ i <= n
  BY NumberPlaces
<1>2. (x = m => e = m) /\ (w < m => i + 1 < m)
  BY <1>1 DEF NumberIn
<1>3. s[i] \notin NameStart /\ (w > i => s[i] \notin Punctuation)
  <2>1. w > i => s[i] \in Digit
    BY <1>1 DEF NumberIn, Within
  <2>2. w = i => s[i] = "."
    BY <1>1 DEF NumberIn
  <2> QED BY <1>1, <2>1, <2>2, FirstCharacters
<1>4. ASSUME NEW j \in i .. n
      PROVE  /\ ~NameSpan(s, i, j)
             /\ IntegerSpan(s, i, j) <=> j < w
             /\ FloatSpan(s, i, j) <=> (w < m /\ w <= j /\ i < j /\ j < m) \/ (m < x /\ x <= j /\ j < e)
             /\ j > i \/ w > i => ~SymbolSpan(s, i, j)
  <2>1. ~HexNumberSpan(s, i, j)
    <3>1. j >= i + 2 => i < n
      BY <1>1
    <3> QED BY <3>1 DEF HexNumberSpan
  <2>2. IntegerSpan(s, i, j) <=> j < w
    BY <2>1, WholeUpto DEF IntegerSpan
  <2>3. FloatSpan(s, i, j) <=> (w < m /\ w <= j /\ i < j /\ j < m) \/ (m < x /\ x <= j /\ j < e)
    BY FloatUpto
  <2>4. ~NameSpan(s, i, j)
    BY <1>3 DEF NameSpan
  <2>5. j > i \/ w > i => ~SymbolSpan(s, i, j)
    BY <1>1, <1>3 DEF SymbolSpan
  <2> QED BY <2>2, <2>3, <2>4, <2>5
<1>5. last \in i .. n
  BY <1>1
<1>6. Kinds(SubSeq(s, i, last)) = kinds
  <2> DEFINE K == Kinds(SubSeq(s, i, last))
  <2>1. /\ K \subseteq {"identifier", "integer", "float", "symbol"}
        /\ ("identifier" \in K) <=> NameSpan(s, i, last)
        /\ ("integer" \in K) <=> IntegerSpan(s, i, last)
        /\ ("float" \in K) <=> FloatSpan(s, i, last)
        /\ ("symbol" \in K) <=> SymbolSpan(s, i, last)
    <3> HIDE DEF last
    <3> QED BY <1>5, KindSpans
  <2>2. last > i \/ w > i
    BY <1>1, <1>2
  <2>3. last < w <=> last = w - 1
    BY <1>1, <1>2
  <2>4. (w < m /\ w <= last /\ i < last /\ last < m) \/ (m < x /\ x <= last /\ last < e) <=> last # w - 1
    BY <1>1, <1>2
  <2> HIDE DEF last, K
  <2>5. "identifier" \notin K /\ "symbol" \notin K /\ (("integer" \in K) <=> last = w - 1) /\ (("float" \in K) <=> last # w - 1)
    BY <1>4, <1>5, <2>1, <2>2, <2>3, <2>4
  <2> QED BY <2>1, <2>5 DEF K
<1>7. ASSUME NEW j \in last + 1 .. n
      PROVE  Kinds(SubSeq(s, i, j)) = {}
  <2>1. j \in i .. n /\ ~(j < w) /\ j > i
        /\ ~((w < m /\ w <= j /\ i < j /\ j < m) \/ (m < x /\ x <= j /\ j < e))
    BY <1>1, <1>2
  <2> QED BY <1>4, <2>1, KindSpans
<1> HIDE DEF last
<1>8. kinds # {} /\ last \in i - 1 .. n
  BY <1>1, <1>5
<1> HIDE DEF kinds
<1>9. Goes(s, i, last, kinds)
  BY <1>6, <1>7, <1>8 DEF Goes
<1> QED BY <1>5, <1>9 DEF kinds, last
-----------------------------------------------------------------------------
(* Blank text: what may follow it makes it longer.                         *)

CommentIn(s, k, e) ==
    \/ IsBlockComment(SubSeq(s, k, e))
    \/ IsLineComment(SubSeq(s, k, e)) /\ (e = Len(s) \/ s[e + 1] \in Newline)
BlankBody(f, s, j, k) ==
    \/ k = j + 1
    \/ s[k] \in Space /\ f[k + 1]
    \/ \E e \in k + 1 .. j : CommentIn(s, k, e) /\ f[e + 1]
IsBlankOf(f, s, i, j) == f = [k \in i .. j + 1 |-> BlankBody(f, s, j, k)]
BlankIn(s, i, j) ==
    LET ok[k \in i .. j + 1] ==
            \/ k = j + 1
            \/ s[k] \in Space /\ ok[k + 1]
            \/ \E e \in k + 1 .. j :
                /\ \/ IsBlockComment(SubSeq(s, k, e))
                   \/ IsLineComment(SubSeq(s, k, e)) /\ (e = Len(s) \/ s[e + 1] \in Newline)
                /\ ok[e + 1]
    IN  ok[i]

LEMMA BlankIs == \A i, j : IsBlank(i, j) <=> BlankIn(source, i, j)
  BY DEF IsBlank, BlankIn, Text

LEMMA BlankReads ==
  ASSUME NEW s, NEW i \in Nat, NEW j \in Nat, i <= j + 1
  PROVE  \E f \in [i .. j + 1 -> BOOLEAN] : IsBlankOf(f, s, i, j) /\ BlankIn(s, i, j) = f[i]
<1> DEFINE n == j + 1
           D == i .. n
           G == [k \in D |-> [f \in [D -> BOOLEAN] |-> BlankBody(f, s, j, k)]]
           g == CHOOSE f : IsBlankOf(f, s, i, j)
<1>1. i \in Int /\ n \in Int
  OBVIOUS
<1>2. ASSUME NEW k \in D, NEW f, NEW h, \A l \in k + 1 .. n : f[l] = h[l]
      PROVE  BlankBody(f, s, j, k) <=> BlankBody(h, s, j, k)
  <2>1. k = j + 1 \/ f[k + 1] = h[k + 1]
    BY <1>2
  <2>2. \A e \in k + 1 .. j : f[e + 1] = h[e + 1]
    BY <1>2
  <2> QED BY <2>1, <2>2 DEF BlankBody
<1>3. \A k \in D : \A f : BlankBody(f, s, j, k) \in BOOLEAN
  BY DEF BlankBody
<1>4. \E f \in [D -> BOOLEAN] : IsBlankOf(f, s, i, j)
  <2>1. G \in [D -> [[D -> BOOLEAN] -> BOOLEAN]]
    BY <1>3
  <2>2. \A k \in D : \A f \in [D -> BOOLEAN] : G[k][f] = BlankBody(f, s, j, k)
    OBVIOUS
  <2>3. \A k \in D : \A f, h \in [D -> BOOLEAN] : (\A l \in k + 1 .. n : f[l] = h[l]) => G[k][f] = G[k][h]
    BY <1>2, <1>3, <2>2
  <2> HIDE DEF G, n
  <2>4. FromAbove(G, i, n, BOOLEAN)
    BY <2>1, <2>3 DEF FromAbove
  <2>5. Solved(G, i, n, BOOLEAN)
    <3>1. TRUE \in BOOLEAN
      OBVIOUS
    <3> HIDE DEF D
    <3> QED BY <1>1, <2>4, <3>1, Descent
  <2>6. PICK f \in [D -> BOOLEAN] : \A k \in D : f[k] = G[k][f]
    BY <2>5 DEF Solved
  <2>7. \A k \in D : f[k] = BlankBody(f, s, j, k)
    BY <2>2, <2>6
  <2>8. f = [k \in D |-> BlankBody(f, s, j, k)]
    BY <2>7
  <2> QED BY <2>8 DEF IsBlankOf, n
<1>5. IsBlankOf(g, s, i, j)
  BY <1>4
<1>6. g \in [D -> BOOLEAN]
  <2>1. g = [k \in i .. j + 1 |-> BlankBody(g, s, j, k)]
    BY <1>5 DEF IsBlankOf
  <2> HIDE DEF g
  <2> QED BY <1>3, <2>1
<1>7. BlankIn(s, i, j) = g[i]
  BY Zenon DEF BlankIn, IsBlankOf, BlankBody, CommentIn
<1> QED BY <1>5, <1>6, <1>7

LEMMA NoText ==
  ASSUME NEW s, NEW i \in Nat \ {0}
  PROVE  BlankIn(s, i, i - 1)
<1>1. PICK f \in [i .. (i - 1) + 1 -> BOOLEAN] : IsBlankOf(f, s, i, i - 1) /\ BlankIn(s, i, i - 1) = f[i]
  <2>1. i \in Nat /\ i - 1 \in Nat /\ i <= (i - 1) + 1
    OBVIOUS
  <2> QED BY <2>1, BlankReads
<1>2. f[i] = BlankBody(f, s, i - 1, i)
  <2>1. f = [k \in i .. (i - 1) + 1 |-> BlankBody(f, s, i - 1, k)]
    BY <1>1 DEF IsBlankOf
  <2> QED BY <2>1
<1>3. BlankBody(f, s, i - 1, i)
  BY DEF BlankBody
<1> QED BY <1>1, <1>2, <1>3

LEMMA BlankGrows ==
  ASSUME NEW s, NEW i \in Nat, NEW j \in Nat, i <= j + 1, NEW e \in Nat, BlankIn(s, i, j),
         (e = j + 1 /\ s[j + 1] \in Space) \/ (e > j + 1 /\ CommentIn(s, j + 1, e))
  PROVE  BlankIn(s, i, e)
<1>1. PICK f \in [i .. j + 1 -> BOOLEAN] : IsBlankOf(f, s, i, j) /\ BlankIn(s, i, j) = f[i]
  BY BlankReads
<1>2. PICK g \in [i .. e + 1 -> BOOLEAN] : IsBlankOf(g, s, i, e) /\ BlankIn(s, i, e) = g[i]
  <2>1. i <= e + 1
    OBVIOUS
  <2> QED BY <2>1, BlankReads
<1>3. \A k \in i .. j + 1 : f[k] = BlankBody(f, s, j, k)
  <2>1. f = [k \in i .. j + 1 |-> BlankBody(f, s, j, k)]
    BY <1>1 DEF IsBlankOf
  <2> QED BY <2>1
<1>4. \A k \in i .. e + 1 : g[k] = BlankBody(g, s, e, k)
  <2>1. g = [k \in i .. e + 1 |-> BlankBody(g, s, e, k)]
    BY <1>2 DEF IsBlankOf
  <2> QED BY <2>1
<1>5. g[e + 1]
  <2>1. e + 1 \in i .. e + 1
    OBVIOUS
  <2>2. BlankBody(g, s, e, e + 1)
    BY DEF BlankBody
  <2> QED BY <1>4, <2>1, <2>2
<1>6. g[j + 1]
  <2>1. j + 1 \in i .. e + 1
    OBVIOUS
  <2>2. CASE e = j + 1 /\ s[j + 1] \in Space
    <3>1. BlankBody(g, s, e, j + 1)
      BY <1>5, <2>2 DEF BlankBody
    <3> QED BY <1>4, <2>1, <3>1
  <2>3. CASE e > j + 1 /\ CommentIn(s, j + 1, e)
    <3>1. e \in (j + 1) + 1 .. e
      BY <2>3
    <3>2. BlankBody(g, s, e, j + 1)
      BY <1>5, <2>3, <3>1 DEF BlankBody
    <3> QED BY <1>4, <2>1, <3>2
  <2> QED BY <2>2, <2>3
<1> DEFINE T == {k \in i .. j + 1 : f[k] => g[k]}
<1>7. \A k \in i .. j + 1 : (\A l \in k + 1 .. j + 1 : l \in T) => k \in T
  <2>1. ASSUME NEW k \in i .. j + 1, \A l \in k + 1 .. j + 1 : l \in T, f[k]
        PROVE  g[k]
    <3>1. k \in i .. e + 1
      OBVIOUS
    <3>2. BlankBody(f, s, j, k)
      BY <1>3, <2>1
    <3>3. CASE k = j + 1
      BY <1>6, <3>3
    <3>4. CASE k # j + 1 /\ s[k] \in Space /\ f[k + 1]
      <4>1. k + 1 \in k + 1 .. j + 1
        BY <3>4
      <4>2. g[k + 1]
        BY <2>1, <3>4, <4>1
      <4>3. BlankBody(g, s, e, k)
        BY <3>4, <4>2 DEF BlankBody
      <4> QED BY <1>4, <3>1, <4>3
    <3>5. CASE \E c \in k + 1 .. j : CommentIn(s, k, c) /\ f[c + 1]
      <4>1. PICK c \in k + 1 .. j : CommentIn(s, k, c) /\ f[c + 1]
        BY <3>5
      <4>2. c + 1 \in k + 1 .. j + 1 /\ c \in k + 1 .. e
        BY <4>1
      <4>3. g[c + 1]
        BY <2>1, <4>1, <4>2
      <4>4. BlankBody(g, s, e, k)
        BY <4>1, <4>2, <4>3 DEF BlankBody
      <4> QED BY <1>4, <3>1, <4>4
    <3> QED BY <3>2, <3>3, <3>4, <3>5 DEF BlankBody
  <2> QED BY <2>1
<1>8. i .. j + 1 \subseteq T
  <2>1. i \in Int /\ j + 1 \in Int
    OBVIOUS
  <2> HIDE DEF T
  <2> QED BY <1>7, <2>1, DownInduction
<1>9. i \in i .. j + 1
  OBVIOUS
<1> QED BY <1>1, <1>2, <1>8, <1>9

LEMMA LineCommentIs ==
  ASSUME NEW s \in Seq(Character), NEW i \in 1 .. Len(s), NEW e \in i + 1 .. Len(s), s[i] = "/", s[i + 1] = "/",
         Within(s, i, e, Character \ Newline), e = Len(s) \/ s[e + 1] \in Newline
  PROVE  CommentIn(s, i, e)
<1> DEFINE t == SubSeq(s, i, e)
<1>1. e \in i .. Len(s) /\ i \in Nat /\ e \in Nat /\ e > i
  OBVIOUS
<1>2. /\ t \in Seq(Character) /\ Len(t) = (e - i) + 1 /\ t[1] = s[i] /\ t[2] = s[i + 1]
      /\ \A k \in 1 .. (e - i) + 1 : t[k] = s[(i + k) - 1]
  BY <1>1, PieceIs
<1> HIDE DEF t
<1>3. ~\E k \in DOMAIN t : t[k] \in Newline
  <2>1. DOMAIN t = 1 .. (e - i) + 1
    BY <1>1, <1>2
  <2>2. \A k \in 1 .. (e - i) + 1 : (i + k) - 1 \in i .. e
    BY <1>1
  <2> QED BY <1>2, <2>1, <2>2 DEF Within
<1>4. Len(t) > 1
  BY <1>1, <1>2
<1>5. IsLineComment(t)
  BY <1>2, <1>3, <1>4 DEF IsLineComment
<1> QED BY <1>5 DEF CommentIn, t

(* The comment that opens at c is not closed before i.                     *)
Closing(s, k) == s[k] = "*" /\ k < Len(s) /\ s[k + 1] = "/"
Open(s, c, i) ==
    /\ c + 1 <= Len(s) /\ s[c] = "/" /\ s[c + 1] = "*" /\ i \in c + 2 .. Len(s) + 1
    /\ \A k \in c + 2 .. i - 1 : ~Closing(s, k)

LEMMA BlockCommentIs ==
  ASSUME NEW s \in Seq(Character), NEW c \in 1 .. Len(s), NEW e \in c .. Len(s), IsBlockComment(SubSeq(s, c, e))
  PROVE  e >= c + 3 /\ Closing(s, e - 1)
<1> DEFINE t == SubSeq(s, c, e)
<1>1. /\ t \in Seq(Character) /\ Len(t) = (e - c) + 1 /\ c \in Nat /\ e \in Nat /\ e <= Len(s) /\ Len(s) \in Nat
      /\ \A k \in 1 .. (e - c) + 1 : t[k] = s[(c + k) - 1]
  BY PieceIs
<1> HIDE DEF t
<1>2. Len(t) > 3 /\ {k \in 3 .. Len(t) - 1 : t[k] = "*" /\ t[k + 1] = "/"} = {Len(t) - 1}
  BY DEF IsBlockComment, t
<1>3. e >= c + 3
  BY <1>1, <1>2
<1>4. t[e - c] = "*" /\ t[(e - c) + 1] = "/"
  <2>1. Len(t) - 1 = e - c
    BY <1>1
  <2> QED BY <1>2, <2>1
<1>5. e - c \in 1 .. (e - c) + 1 /\ (e - c) + 1 \in 1 .. (e - c) + 1 /\ (c + (e - c)) - 1 = e - 1
      /\ (c + ((e - c) + 1)) - 1 = e /\ (e - 1) + 1 = e /\ e - 1 < Len(s)
  BY <1>1, <1>3
<1>6. s[e - 1] = "*" /\ s[e] = "/"
  BY <1>1, <1>4, <1>5
<1> QED BY <1>3, <1>5, <1>6 DEF Closing

LEMMA ClosedComment ==
  ASSUME NEW s \in Seq(Character), NEW c \in 1 .. Len(s), NEW i, Open(s, c, i), Closing(s, i)
  PROVE  CommentIn(s, c, i + 1)
<1> DEFINE e == i + 1
           t == SubSeq(s, c, e)
<1>1. /\ c \in Nat /\ i \in Nat /\ Len(s) \in Nat /\ 1 <= c /\ c + 2 <= i /\ i < Len(s)
      /\ s[c] = "/" /\ s[c + 1] = "*" /\ s[i] = "*" /\ s[i + 1] = "/"
      /\ \A k \in c + 2 .. i - 1 : ~Closing(s, k)
  BY DEF Open, Closing
<1>2. e \in c .. Len(s) /\ e > c /\ e \in Nat
  BY <1>1
<1> HIDE DEF e
<1>3. /\ t \in Seq(Character) /\ Len(t) = (e - c) + 1 /\ t[1] = s[c] /\ t[2] = s[c + 1]
      /\ \A k \in 1 .. (e - c) + 1 : t[k] = s[(c + k) - 1]
  BY <1>2, PieceIs
<1> HIDE DEF t
<1>4. \A k \in 3 .. Len(t) - 1 : t[k] = s[(c + k) - 1] /\ t[k + 1] = s[((c + k) - 1) + 1]
  <2>1. \A k \in 3 .. Len(t) - 1 : /\ k \in 1 .. (e - c) + 1 /\ k + 1 \in 1 .. (e - c) + 1
                                   /\ (c + (k + 1)) - 1 = ((c + k) - 1) + 1
    BY <1>1, <1>2, <1>3
  <2>2. ASSUME NEW k \in 3 .. Len(t) - 1
        PROVE  t[k] = s[(c + k) - 1] /\ t[k + 1] = s[((c + k) - 1) + 1]
    <3>1. k \in 1 .. (e - c) + 1 /\ k + 1 \in 1 .. (e - c) + 1 /\ (c + (k + 1)) - 1 = ((c + k) - 1) + 1
      BY <2>1
    <3>2. t[k] = s[(c + k) - 1]
      BY <1>3, <3>1
    <3>3. t[k + 1] = s[(c + (k + 1)) - 1]
      BY <1>3, <3>1
    <3> QED BY <3>1, <3>2, <3>3
  <2> QED BY <2>2
<1>5. \A k \in 3 .. Len(t) - 1 : k = Len(t) - 1 <=> (c + k) - 1 = i
  BY <1>1, <1>3 DEF e
<1>6. \A k \in 3 .. Len(t) - 1 : k = Len(t) - 1 \/ (c + k) - 1 \in c + 2 .. i - 1
  BY <1>1, <1>3 DEF e
<1>7. \A k \in c + 2 .. i - 1 : ~(s[k] = "*" /\ s[k + 1] = "/")
  <2>1. \A k \in c + 2 .. i - 1 : k < Len(s)
    BY <1>1
  <2> QED BY <1>1, <2>1 DEF Closing
<1>8. \A k \in 3 .. Len(t) - 1 : t[k] = "*" /\ t[k + 1] = "/" <=> k = Len(t) - 1
  BY <1>1, <1>4, <1>5, <1>6, <1>7
<1>9. Len(t) - 1 \in 3 .. Len(t) - 1 /\ Len(t) > 3
  BY <1>1, <1>3 DEF e
<1>10. {k \in 3 .. Len(t) - 1 : t[k] = "*" /\ t[k + 1] = "/"} = {Len(t) - 1}
  BY <1>8, <1>9
<1>11. IsBlockComment(t)
  BY <1>1, <1>3, <1>9, <1>10 DEF IsBlockComment
<1> QED BY <1>11 DEF CommentIn, t, e

LEMMA Unclosed ==
  ASSUME NEW s \in Seq(Character), NEW c \in 1 .. Len(s), Open(s, c, Len(s) + 1)
  PROVE  ~\E e \in c .. Len(s) : IsBlockComment(SubSeq(s, c, e))
<1>1. ASSUME NEW e \in c .. Len(s), IsBlockComment(SubSeq(s, c, e))
      PROVE  FALSE
  <2>1. e >= c + 3 /\ Closing(s, e - 1)
    BY <1>1, BlockCommentIs
  <2>2. e - 1 \in c + 2 .. (Len(s) + 1) - 1
    BY <2>1
  <2> QED BY <2>1, <2>2 DEF Open
<1> QED BY <1>1

-----------------------------------------------------------------------------
(* Tokens, by the text alone.                                              *)

WordAfter(s, j) == j < Len(s) /\ s[j + 1] \in NameStart
Read(s, i, kind, last, text) ==
    /\ last = LongestIn(s, i) /\ Kinds(SubSeq(s, i, last)) = {kind} /\ text = SubSeq(s, i, last)
    /\ kind \in {"integer", "float"} => ~WordAfter(s, last)
TokenIn(s, t) ==
    LET i == t.location.offset
    IN  IF s[i] \in Quote THEN t.kind = "string" /\ LiteralAt(s, i) = [bytes |-> t.text, close |-> t.last]
        ELSE Read(s, i, t.kind, t.last, t.text)
Refused(s, i) ==
    IF s[i] \in Quote THEN LiteralAt(s, i) = None
    ELSE \/ LongestIn(s, i) = i - 1
         \/ Kinds(SubSeq(s, i, LongestIn(s, i))) \cap {"integer", "float"} # {} /\ WordAfter(s, LongestIn(s, i))

LEMMA LongestInIs == \A i : LongestEnd(i) = LongestIn(source, i)
  BY DEF LongestEnd, LongestIn, Text

LEMMA WordAfterIs == \A j : NextIsWord(j) <=> WordAfter(source, j)
  BY Zenon DEF NextIsWord, WordAfter, NameStart

LEMMA TokenIs == \A t : IsToken(t) <=> TokenIn(source, t)
<1>1. ASSUME NEW t
      PROVE  IsToken(t) <=> TokenIn(source, t)
  <2> DEFINE i == t.location.offset
  <2>1. LongestEnd(i) = LongestIn(source, i) /\ (NextIsWord(t.last) <=> WordAfter(source, t.last))
    BY LongestInIs, WordAfterIs
  <2> QED BY <2>1 DEF IsToken, TokenIn, Read, Text
<1> QED BY <1>1

LEMMA RefusedIs ==
  ASSUME source \in Seq(Character), NEW i \in 1 .. Len(source)
  PROVE  NoToken(i) <=> Refused(source, i)
<1>1. i <= Len(source) /\ ~(i > Len(source))
  OBVIOUS
<1>2. LongestEnd(i) = LongestIn(source, i) /\ (NextIsWord(LongestEnd(i)) <=> WordAfter(source, LongestEnd(i)))
  BY LongestInIs, WordAfterIs
<1>3. CASE source[i] \in Quote
  <2>1. NoToken(i) <=> LiteralAt(source, i) = None
    BY Zenon, <1>1, <1>3 DEF NoToken
  <2> QED BY <1>3, <2>1 DEF Refused
<1>4. CASE source[i] \notin Quote
  <2>1. NoToken(i) <=> \/ LongestEnd(i) = i - 1
                       \/ Kinds(Text(i, LongestEnd(i))) \cap {"integer", "float"} # {} /\ NextIsWord(LongestEnd(i))
    BY Zenon, <1>1, <1>4 DEF NoToken
  <2> QED BY <1>2, <1>4, <2>1 DEF Refused, Text
<1> QED BY <1>3, <1>4

LEMMA GoesRead ==
  ASSUME NEW s \in Seq(Character), NEW i \in 1 .. Len(s), NEW last \in i .. Len(s), NEW kind,
         Goes(s, i, last, {kind}), s[i] \notin Quote, kind \in {"integer", "float"} => ~WordAfter(s, last)
  PROVE  \A t : t.location.offset = i /\ t.kind = kind /\ t.last = last /\ t.text = SubSeq(s, i, last)
                => TokenIn(s, t)
<1>1. LongestIn(s, i) = last
  BY LongestIs
<1>2. Kinds(SubSeq(s, i, last)) = {kind}
  <2>1. last >= i
    OBVIOUS
  <2> QED BY <2>1 DEF Goes
<1>3. Read(s, i, kind, last, SubSeq(s, i, last))
  BY <1>1, <1>2 DEF Read
<1> QED BY <1>3 DEF TokenIn

LEMMA GoesRefused ==
  ASSUME NEW s \in Seq(Character), NEW i \in 1 .. Len(s), NEW last, NEW kinds, Goes(s, i, last, kinds), s[i] \notin Quote,
         last = i - 1 \/ (last \in i .. Len(s) /\ kinds \in {{"integer"}, {"float"}} /\ WordAfter(s, last))
  PROVE  Refused(s, i)
<1>1. LongestIn(s, i) = last
  BY LongestIs
<1>2. CASE last = i - 1
  BY <1>1, <1>2 DEF Refused
<1>3. CASE last \in i .. Len(s) /\ kinds \in {{"integer"}, {"float"}} /\ WordAfter(s, last)
  <2>1. last >= i
    BY <1>3
  <2>2. Kinds(SubSeq(s, i, last)) = kinds
    BY <2>1 DEF Goes
  <2>3. kinds \cap {"integer", "float"} # {}
    BY <1>3
  <2> QED BY <1>1, <1>3, <2>2, <2>3 DEF Refused
<1> QED BY <1>2, <1>3

-----------------------------------------------------------------------------
(* The lexer follows the grammar: the invariant.                           *)

(* Where the n-th token of ts ends.                                        *)
AfterIn(ts, n) == IF n = 0 THEN 1 ELSE ts[n].last + 1
(* The tokens taken are those of the text, with blank text between them.   *)
TokensRead(s, ts) ==
    \A n \in DOMAIN ts : TokenIn(s, ts[n]) /\ BlankIn(s, AfterIn(ts, n - 1), ts[n].location.offset - 1)
(* Blank is also what lies between the last of them and the cursor i, or   *)
(* the comment that was opened at c, which is not closed before i.         *)
BlankUpto(s, ts, i) == AfterIn(ts, Len(ts)) \in 1 .. i /\ BlankIn(s, AfterIn(ts, Len(ts)), i - 1)
Reading(s, ts, i, c) ==
    IF c = 0 THEN BlankUpto(s, ts, i) ELSE c \in 1 .. Len(s) /\ BlankUpto(s, ts, c) /\ Open(s, c, i)
(* The lexer ends at the end of the text, outside of a comment, and fails  *)
(* there in one, or else where no token begins.                            *)
Ended(s, i, c, o) ==
    /\ o = "end" => i = Len(s) + 1 /\ c = 0
    /\ o = "failed" => IF c # 0 THEN i = Len(s) + 1 ELSE i <= Len(s) /\ Refused(s, i)
GrammarFollowed ==
    /\ TokensRead(source, tokens)
    /\ Reading(source, tokens, at.offset, comment.offset)
    /\ Ended(source, at.offset, comment.offset, outcome)

LEMMA OpenIs ==
  ASSUME LexerTypeOK
  PROVE  /\ comment = Nowhere <=> comment.offset = 0
         /\ comment # Nowhere => comment.offset \in 1 .. Len(source) + 1
         /\ at.offset \in 1 .. Len(source) + 1 /\ Len(source) \in Nat /\ source \in Seq(Character)
<1>1. comment \in Position \cup {Nowhere} /\ at \in Position /\ source \in Seq(Character)
  BY DEF LexerTypeOK
<1>2. \A p \in Position : p.offset \in 1 .. Len(source) + 1
  BY DEF Position
<1>3. Nowhere.offset = 0
  BY DEF Nowhere
<1>4. Len(source) \in Nat
  BY <1>1
<1> HIDE DEF Position, Nowhere
<1> QED BY <1>1, <1>2, <1>3, <1>4

LEMMA CutsAre ==
  ASSUME LexerTypeOK, NEW end, Cuts(end)
  PROVE  /\ at.offset \in 1 .. Len(source) /\ end \in at.offset + 1 .. Len(source) + 1
         /\ end \in Nat \ {0} /\ at.offset \in Nat \ {0} /\ at.offset < end /\ end - 1 \in at.offset .. Len(source)
<1> DEFINE i == at.offset
           n == Len(source)
<1>1. i \in 1 .. n + 1 /\ n \in Nat /\ end \in i + 1 .. n + 1
  BY OpenIs DEF Cuts
<1> HIDE DEF i, n
<1>2. i \in 1 .. n /\ end \in Nat \ {0} /\ i \in Nat \ {0} /\ i < end /\ end - 1 \in i .. n
  BY <1>1
<1> QED BY <1>1, <1>2 DEF i, n

LEMMA TokenTaken ==
  ASSUME LexerTypeOK, GrammarFollowed, Between, NEW kind, NEW end, Cuts(end), NEW text, Take(kind, end, text),
         \A t : t.location.offset = at.offset /\ t.kind = kind /\ t.last = end - 1 /\ t.text = text => TokenIn(source, t)
  PROVE  GrammarFollowed'
<1> DEFINE t == [kind |-> kind, location |-> at, last |-> end - 1, text |-> text]
           n == Len(tokens)
<1>1. /\ tokens' = Append(tokens, t) /\ at' = Forward(at, end - at.offset)
      /\ source' = source /\ comment' = comment /\ outcome' = outcome
  BY DEF Take
<1>2. t.location = at /\ t.kind = kind /\ t.last = end - 1 /\ t.text = text
  OBVIOUS
<1> HIDE DEF t
<1>3. tokens \in Seq(Token) /\ n \in Nat
  BY DEF LexerTypeOK
<1>4. outcome = "lexing" /\ comment.offset = 0
  BY OpenIs DEF Between
<1>5. at'.offset = end /\ end \in Nat /\ 1 <= at.offset /\ at.offset < end
  <2>1. at'.offset = end
    <3>1. at' = [offset |-> end, line |-> at.line, column |-> at.column + (end - at.offset)]
      BY <1>1, ForwardIs
    <3> QED BY <3>1
  <2> QED BY <2>1, CutsAre
<1>6. /\ Len(tokens') = n + 1 /\ DOMAIN tokens' = 1 .. n + 1 /\ tokens'[n + 1] = t
      /\ \A k \in 1 .. n : tokens'[k] = tokens[k]
  BY <1>1, <1>3
<1>7. TokenIn(source, t)
  BY <1>2
<1>8. \A k \in 0 .. n : AfterIn(tokens', k) = AfterIn(tokens, k)
  BY <1>3, <1>6 DEF AfterIn
<1>9. BlankUpto(source, tokens, at.offset)
  BY <1>4 DEF GrammarFollowed, Reading
<1>10. TokensRead(source, tokens')
  <2>1. ASSUME NEW k \in 1 .. n + 1
        PROVE  TokenIn(source, tokens'[k]) /\ BlankIn(source, AfterIn(tokens', k - 1), tokens'[k].location.offset - 1)
    <3>1. CASE k \in 1 .. n
      <4>1. k \in DOMAIN tokens /\ k - 1 \in 0 .. n
        BY <1>3, <3>1
      <4>2. TokenIn(source, tokens[k]) /\ BlankIn(source, AfterIn(tokens, k - 1), tokens[k].location.offset - 1)
        BY <4>1 DEF GrammarFollowed, TokensRead
      <4>3. tokens'[k] = tokens[k] /\ AfterIn(tokens', k - 1) = AfterIn(tokens, k - 1)
        BY <1>6, <1>8, <3>1, <4>1
      <4> QED BY <4>2, <4>3
    <3>2. CASE k = n + 1
      <4>1. tokens'[k] = t /\ AfterIn(tokens', k - 1) = AfterIn(tokens, n)
        BY <1>3, <1>6, <1>8, <3>2
      <4> QED BY <1>2, <1>7, <1>9, <4>1 DEF BlankUpto
    <3> QED BY <1>3, <3>1, <3>2
  <2> QED BY <1>6, <2>1 DEF TokensRead
<1>11. Reading(source, tokens', end, 0)
  <2>1. AfterIn(tokens', Len(tokens')) = end
    BY <1>2, <1>3, <1>5, <1>6 DEF AfterIn
  <2>2. BlankIn(source, end, end - 1) /\ end \in 1 .. end
    <3>1. end \in Nat \ {0}
      BY CutsAre
    <3>2. end \in 1 .. end
      BY <3>1
    <3> QED BY <3>1, <3>2, NoText
  <2> QED BY <2>1, <2>2 DEF Reading, BlankUpto
<1>12. Ended(source, end, 0, "lexing")
  BY DEF Ended
<1> QED BY <1>1, <1>4, <1>5, <1>10, <1>11, <1>12 DEF GrammarFollowed

LEMMA TextSkipped ==
  ASSUME LexerTypeOK, GrammarFollowed, outcome = "lexing", comment' = Nowhere, UNCHANGED <<source, tokens, outcome>>,
         BlankUpto(source, tokens, at'.offset)
  PROVE  GrammarFollowed'
<1>1. comment'.offset = 0
  BY DEF Nowhere
<1>2. Reading(source, tokens, at'.offset, 0)
  BY DEF Reading
<1>3. Ended(source, at'.offset, 0, "lexing")
  BY DEF Ended
<1> QED BY <1>1, <1>2, <1>3 DEF GrammarFollowed

LEMMA TextRefused ==
  ASSUME LexerTypeOK, GrammarFollowed, Between, Fail, at.offset \in 1 .. Len(source), Refused(source, at.offset)
  PROVE  GrammarFollowed'
<1>1. comment.offset = 0
  BY OpenIs DEF Between
<1>2. UNCHANGED <<source, at, comment, tokens>> /\ outcome' = "failed"
  BY DEF Fail
<1>3. Ended(source, at.offset, 0, "failed")
  BY DEF Ended
<1> QED BY <1>1, <1>2, <1>3 DEF GrammarFollowed

LEMMA IdentifierFollows ==
  ASSUME LexerTypeOK, GrammarFollowed, Identifier
  PROVE  GrammarFollowed'
<1> DEFINE i == at.offset
<1>1. PICK end : /\ Cuts(end) /\ Take("identifier", end, Spelling(end)) /\ source[i] \in Alpha \cup {"_"}
                 /\ Within(source, i, end - 1, Word) /\ CharAt(end) \notin Word
  BY IdentifierCuts
<1>2. source[i] \in NameStart
  BY Zenon, <1>1 DEF NameStart
<1>3. i \in 1 .. Len(source) + 1 /\ source \in Seq(Character) /\ Len(source) \in Nat
  BY OpenIs
<1>4. end \in i + 1 .. Len(source) + 1 /\ i \in 1 .. Len(source)
  BY <1>1, CutsAre
<1>5. end <= Len(source) => source[end] \notin Word
  <2>1. end \in Nat \ {0}
    BY <1>1, CutsAre
  <2> QED BY <1>1, <1>3, <2>1, CharAtIs
<1>6. Goes(source, i, end - 1, {"identifier"})
  BY <1>1, <1>2, <1>3, <1>4, <1>5, NameGoes
<1>7. source[i] \notin Quote
  <2>1. source[i] \in Word
    BY Zenon, <1>2, WordsAreCharacters DEF NameStart
  <2> QED BY <2>1, FirstCharacters
<1>8. end - 1 \in i .. Len(source) /\ "identifier" \notin {"integer", "float"}
  BY <1>1, CutsAre
<1>9. \A t : t.location.offset = i /\ t.kind = "identifier" /\ t.last = end - 1 /\ t.text = Spelling(end)
             => TokenIn(source, t)
  <2> DEFINE last == end - 1
  <2>1. Spelling(end) = SubSeq(source, i, last)
    BY DEF Spelling
  <2> HIDE DEF last
  <2>2. last \in i .. Len(source) /\ Goes(source, i, last, {"identifier"})
    BY <1>6, <1>8 DEF last
  <2> QED BY <1>3, <1>4, <1>7, <1>8, <2>1, <2>2, GoesRead DEF last
<1>10. Between
  BY DEF Identifier
<1> QED BY <1>1, <1>9, <1>10, TokenTaken

LEMMA SymbolFollows ==
  ASSUME LexerTypeOK, GrammarFollowed, Symbol
  PROVE  GrammarFollowed'
<1> DEFINE i == at.offset
<1>1. /\ i \in 1 .. Len(source) /\ source[i] \in Punctuation /\ ~AtNumber
      /\ Cuts(i + 1) /\ Take("symbol", i + 1, Spelling(i + 1))
  BY SymbolCuts
<1>2. source \in Seq(Character) /\ Len(source) \in Nat /\ Between
  BY OpenIs DEF Symbol
<1>3. source[i] = "." /\ i < Len(source) => source[i + 1] \notin Digit
  <2>1. i <= Len(source) => Peek(0) = source[i]
    <3>1. 0 \in Nat /\ i + 0 = i
      BY <1>1
    <3> QED BY <3>1, PeekIs
  <2>2. i + 1 <= Len(source) => Peek(1) = source[i + 1]
    BY PeekIs
  <2> QED BY <1>1, <1>2, <2>1, <2>2 DEF AtNumber
<1>4. Goes(source, i, i, {"symbol"})
  BY <1>1, <1>2, <1>3, SymbolGoes
<1>5. source[i] \notin Quote
  BY <1>1, FirstCharacters
<1>6. i \in i .. Len(source) /\ "symbol" \notin {"integer", "float"} /\ (i + 1) - 1 = i
  BY <1>1
<1>7. \A t : t.location.offset = i /\ t.kind = "symbol" /\ t.last = (i + 1) - 1 /\ t.text = Spelling(i + 1)
             => TokenIn(source, t)
  <2>1. Spelling(i + 1) = SubSeq(source, i, i)
    BY <1>6 DEF Spelling
  <2> QED BY <1>1, <1>2, <1>4, <1>5, <1>6, <2>1, GoesRead
<1> QED BY <1>1, <1>2, <1>7, TokenTaken

LEMMA StringFollows ==
  ASSUME LexerTypeOK, GrammarFollowed, StringLiteral
  PROVE  GrammarFollowed'
<1> DEFINE i == at.offset
<1>1. Between
  BY DEF StringLiteral
<1>2. i \in 1 .. Len(source) /\ source[i] \in Quote
  BY StringCuts
<1>3. CASE Fail /\ LiteralAt(source, i) = None
  BY <1>1, <1>2, <1>3, TextRefused DEF Refused
<1>4. ASSUME NEW end, NEW bytes, Cuts(end), Take("string", end, bytes),
             LiteralAt(source, i) = [bytes |-> bytes, close |-> end - 1]
      PROVE  GrammarFollowed'
  <2>1. \A t : t.location.offset = i /\ t.kind = "string" /\ t.last = end - 1 /\ t.text = bytes => TokenIn(source, t)
    BY <1>2, <1>4 DEF TokenIn
  <2> QED BY <1>1, <1>4, <2>1, TokenTaken
<1> QED BY <1>3, <1>4, StringCuts

LEMMA WordAfterCut ==
  ASSUME LexerTypeOK, NEW end, Cuts(end)
  PROVE  /\ WordAfter(source, end - 1) <=> CharAt(end) \in NameStart
         /\ end <= Len(source) => CharAt(end) = source[end]
<1>1. end \in Nat \ {0} /\ Len(source) \in Nat /\ source \in Seq(Character)
  BY CutsAre, OpenIs
<1>2. /\ end <= Len(source) => CharAt(end) = source[end]
      /\ CharAt(end) = Nul <=> end > Len(source)
  BY <1>1, CharAtIs
<1>3. Nul \notin NameStart
  BY Zenon, WordsAreCharacters DEF NameStart
<1>4. end - 1 < Len(source) <=> end <= Len(source)
  BY <1>1
<1>5. (end - 1) + 1 = end
  BY <1>1
<1>6. end <= Len(source) \/ end > Len(source)
  BY <1>1
<1> QED BY <1>2, <1>3, <1>4, <1>5, <1>6 DEF WordAfter

LEMMA HexFollows ==
  ASSUME LexerTypeOK, GrammarFollowed, HexNumber
  PROVE  GrammarFollowed'
<1> DEFINE i == at.offset
           n == Len(source)
<1>1. PICK end : /\ HexCut(end) /\ Cuts(end)
                 /\ IF end = i + 2 \/ CharAt(end) \in Word THEN Fail ELSE Take("integer", end, Spelling(end))
  BY HexCuts
<1>2. source \in Seq(Character) /\ n \in Nat /\ i \in 1 .. n /\ i \in Nat /\ Between
  BY <1>1, OpenIs, CutsAre DEF HexNumber, AtNumber
<1>3. /\ i + 1 <= n /\ end \in i + 2 .. n + 1 /\ source[i] = "0" /\ source[i + 1] \in {"x", "X"}
      /\ Within(source, i + 2, end - 1, Hex) /\ CharAt(end) \notin Hex
  BY <1>1 DEF HexCut
<1>4. Goes(source, i, IF end = i + 2 THEN i ELSE end - 1, {"integer"})
  <2>1. end <= n => source[end] \notin Hex
    BY <1>1, <1>3, WordAfterCut
  <2> HIDE DEF i, n
  <2> QED BY <1>2, <1>3, <2>1, HexGoes DEF n
<1>5. source[i] \notin Quote
  <2>1. Digit \subseteq Word
    BY Zenon, WordsAreCharacters
  <2> QED BY <1>3, <2>1, FirstCharacters
<1>6. /\ "x" \in NameStart /\ "X" \in NameStart /\ \A c \in Word : c \notin Hex => c \in NameStart
      /\ NameStart \subseteq Word
  <2>1. Word = NameStart \cup Digit /\ Digit \subseteq Hex
    BY Zenon, WordsAreCharacters DEF NameStart
  <2>2. "x" \in NameStart /\ "X" \in NameStart
    BY Zenon, PointIsNoDigit DEF NameStart
  <2> QED BY <2>1, <2>2
<1>7. end - 1 \in i .. n
  BY <1>1, CutsAre
<1>8. CASE end = i + 2
  <2>1. WordAfter(source, i)
    BY <1>2, <1>3, <1>6 DEF WordAfter
  <2>2. i \in i .. Len(source)
    BY <1>2
  <2>3. Refused(source, i)
    <3> HIDE DEF i
    <3> QED BY <1>2, <1>4, <1>5, <1>8, <2>1, <2>2, GoesRefused DEF n
  <2> QED BY <1>1, <1>2, <1>8, <2>3, TextRefused
<1>9. CASE end # i + 2 /\ CharAt(end) \in Word
  <2> DEFINE last == end - 1
  <2>1. WordAfter(source, last)
    BY <1>1, <1>3, <1>6, <1>9, WordAfterCut
  <2>2. Goes(source, i, last, {"integer"}) /\ last \in i .. Len(source)
    BY <1>4, <1>7, <1>9
  <2>3. Refused(source, i)
    <3> HIDE DEF i, last
    <3> QED BY <1>2, <1>5, <2>1, <2>2, GoesRefused DEF n
  <2> QED BY <1>1, <1>2, <1>9, <2>3, TextRefused
<1>10. CASE end # i + 2 /\ CharAt(end) \notin Word
  <2> DEFINE last == end - 1
  <2>1. ~WordAfter(source, last)
    BY <1>1, <1>6, <1>10, WordAfterCut
  <2>2. Goes(source, i, last, {"integer"}) /\ last \in i .. Len(source) /\ Spelling(end) = SubSeq(source, i, last)
    BY <1>4, <1>7, <1>10 DEF Spelling
  <2>3. \A t : t.location.offset = i /\ t.kind = "integer" /\ t.last = last /\ t.text = SubSeq(source, i, last)
               => TokenIn(source, t)
    <3> HIDE DEF i, last
    <3> QED BY <1>2, <1>5, <2>1, <2>2, GoesRead DEF n
  <2>4. \A t : t.location.offset = i /\ t.kind = "integer" /\ t.last = end - 1 /\ t.text = Spelling(end)
               => TokenIn(source, t)
    BY <2>2, <2>3
  <2> QED BY <1>1, <1>2, <1>10, <2>4, TokenTaken
<1> QED BY <1>8, <1>9, <1>10

LEMMA DecimalIsNumber ==
  ASSUME LexerTypeOK, NEW w, NEW m, NEW x, NEW e, Decimal(w, m, x, e), at.offset <= Len(source)
  PROVE  NumberIn(source, at.offset, w, m, x, e) /\ (HasExponent(m) <=> m < x)
<1> DEFINE i == at.offset
           n == Len(source)
<1>1. source \in Seq(Character) /\ n \in Nat /\ i \in Nat \ {0} /\ i <= n
  <2>1. i \in 1 .. n + 1 /\ source \in Seq(Character) /\ n \in Nat
    BY OpenIs
  <2> HIDE DEF i, n
  <2>2. i \in Nat \ {0}
    BY <2>1
  <2> QED BY <2>1, <2>2 DEF i, n
<1>2. \A k \in Nat \ {0} : (k <= n => CharAt(k) = source[k]) /\ (k > n => CharAt(k) = Nul)
  BY <1>1, CharAtIs
<1>3. Nul \notin {".", "e", "E", "+", "-"}
  <2>1. "." \in Character /\ "e" \in Character /\ "E" \in Character /\ "+" \in Character /\ "-" \in Character
    BY MarksAreCharacters
  <2> QED BY <2>1, CharacterIs
<1>4. /\ w \in i .. n + 1 /\ Within(source, i, w - 1, Digit) /\ CharAt(w) \notin Digit
      /\ \/ CharAt(w) # "." /\ m = w /\ w > i
         \/ /\ CharAt(w) = "." /\ w <= n /\ m \in w + 1 .. n + 1 /\ m > i + 1
            /\ Within(source, w + 1, m - 1, Digit) /\ CharAt(m) \notin Digit
      /\ \/ ~HasExponent(m) /\ x = m /\ e = m
         \/ /\ HasExponent(m) /\ m <= n /\ x \in m + 1 .. n + 1
            /\ \/ x = m + 1 /\ CharAt(m + 1) \notin {"+", "-"}
               \/ x = m + 2 /\ CharAt(m + 1) \in {"+", "-"} /\ m + 1 <= n
            /\ e \in x .. n + 1 /\ Within(source, x, e - 1, Digit) /\ CharAt(e) \notin Digit
  BY DEF Decimal
<1> HIDE DEF i, n
<1>5. w \in Nat \ {0}
  BY <1>1, <1>4
<1>6. m \in Nat \ {0} /\ m + 1 \in Nat \ {0}
  BY <1>1, <1>4, <1>5
<1>7. x \in Nat /\ e \in Nat
  BY <1>1, <1>4, <1>6
<1>8. /\ w <= n => source[w] \notin Digit
      /\ \/ m = w /\ w > i /\ (w <= n => source[w] # ".")
         \/ /\ w <= n /\ source[w] = "." /\ m \in w + 1 .. n + 1 /\ m > i + 1
            /\ Within(source, w + 1, m - 1, Digit) /\ (m <= n => source[m] \notin Digit)
  BY <1>2, <1>4, <1>5, <1>6
<1>9. CASE ~HasExponent(m)
  <2>1. x = m /\ e = m
    BY <1>4, <1>9
  <2>2. m <= n => source[m] \notin {"e", "E"}
    BY <1>2, <1>6, <1>9 DEF HasExponent
  <2>3. ~(m < x)
    BY <1>6, <2>1
  <2> QED BY <1>4, <1>8, <1>9, <2>1, <2>2, <2>3 DEF NumberIn, n, i
<1>10. CASE HasExponent(m)
  <2>1. /\ m <= n /\ x \in m + 1 .. n + 1
        /\ \/ x = m + 1 /\ CharAt(m + 1) \notin {"+", "-"}
           \/ x = m + 2 /\ CharAt(m + 1) \in {"+", "-"} /\ m + 1 <= n
        /\ e \in x .. n + 1 /\ Within(source, x, e - 1, Digit) /\ CharAt(e) \notin Digit
    <3> HIDE DEF HasExponent
    <3> QED BY <1>4, <1>10
  <2>2. source[m] \in {"e", "E"}
    BY <1>2, <1>6, <1>10, <2>1 DEF HasExponent
  <2>3. m < x /\ x > 0 /\ e \in Nat \ {0}
    BY <1>6, <1>7, <2>1
  <2>4. \/ x = m + 1 /\ (m + 1 <= n => source[m + 1] \notin {"+", "-"})
        \/ x = m + 2 /\ m + 1 <= n /\ source[m + 1] \in {"+", "-"}
    BY <1>2, <1>6, <2>1
  <2>5. e <= n => source[e] \notin Digit
    BY <1>2, <2>1, <2>3
  <2> QED BY <1>4, <1>8, <1>10, <2>1, <2>2, <2>3, <2>4, <2>5 DEF NumberIn, n, i
<1> QED BY <1>9, <1>10

LEMMA DecimalFollows ==
  ASSUME LexerTypeOK, GrammarFollowed, DecimalNumber
  PROVE  GrammarFollowed'
<1> DEFINE i == at.offset
           n == Len(source)
<1>1. PICK w, m, x, e : /\ Decimal(w, m, x, e) /\ Cuts(e)
                        /\ IF (HasExponent(m) /\ e = x) \/ ~NumberEnds(e) THEN Fail
                           ELSE Take(IF e = w THEN "integer" ELSE "float", e, Spelling(e))
  BY DecimalCuts
<1>2. source \in Seq(Character) /\ n \in Nat /\ i \in 1 .. n /\ i \in Nat /\ Between /\ i <= n
  <2>1. i \in 1 .. n /\ n \in Nat /\ source \in Seq(Character) /\ Between
    BY <1>1, OpenIs, CutsAre DEF DecimalNumber, AtNumber
  <2> HIDE DEF i, n
  <2> QED BY <2>1
<1>3. NumberIn(source, i, w, m, x, e) /\ (HasExponent(m) <=> m < x)
  BY <1>1, <1>2, DecimalIsNumber
<1>4. ~(source[i] = "0" /\ i < n /\ source[i + 1] \in {"x", "X"})
  <2>1. i <= n => Peek(0) = source[i]
    <3>1. 0 \in Nat /\ i + 0 = i
      BY <1>2
    <3> QED BY <3>1, PeekIs
  <2>2. i + 1 <= n => Peek(1) = source[i + 1]
    BY PeekIs
  <2> QED BY <1>2, <2>1, <2>2 DEF DecimalNumber, AtHex
<1> DEFINE last == IF x < e THEN e - 1 ELSE m - 1
           kind == IF last = w - 1 THEN "integer" ELSE "float"
<1>5. last \in i .. n /\ Goes(source, i, last, {kind})
  <2>1. last \in i .. n /\ Goes(source, i, last, IF last = w - 1 THEN {"integer"} ELSE {"float"})
    BY <1>2, <1>3, <1>4, DecimalGoes
  <2> HIDE DEF last, i, n
  <2> QED BY <2>1
<1>6. source[i] \notin Quote
  <2>1. source[i] \in Digit \/ source[i] = "."
    <3>1. i <= w /\ w \in Nat /\ Within(source, i, w - 1, Digit) /\ (w > i \/ source[w] = ".")
      BY <1>2, <1>3, NumberPlaces DEF NumberIn
    <3>2. w > i => i \in i .. w - 1
      BY <1>2, <3>1
    <3> HIDE DEF i
    <3> QED BY <1>2, <3>1, <3>2 DEF Within
  <2>2. Digit \subseteq Word
    BY Zenon, WordsAreCharacters
  <2> QED BY <2>1, <2>2, FirstCharacters
<1>7. /\ i \in Nat /\ w \in Nat /\ m \in Nat /\ x \in Nat /\ e \in Nat /\ i <= w /\ w <= m /\ i < m /\ m <= x /\ x <= e
      /\ (x = m => e = m)
  <2>1. x = m => e = m
    BY <1>2, <1>3, NumberPlaces DEF NumberIn
  <2> QED BY <1>2, <1>3, <2>1, NumberPlaces
<1>8. NumberEnds(e) <=> CharAt(e) \notin NameStart
  BY Zenon DEF NumberEnds, NameStart
<1>9. kind \in {"integer", "float"} /\ {kind} \in {{"integer"}, {"float"}}
  OBVIOUS
<1>10. CASE HasExponent(m) /\ e = x
  <2>1. last = m - 1
    BY <1>7, <1>10
  <2>2. WordAfter(source, last)
    <3>1. m <= n /\ source[m] \in {"e", "E"}
      BY <1>3, <1>7, <1>10 DEF NumberIn
    <3>2. "e" \in NameStart /\ "E" \in NameStart
      BY Zenon, PointIsNoDigit DEF NameStart
    <3>3. m - 1 < n /\ (m - 1) + 1 = m
      BY <1>2, <1>7, <3>1
    <3> QED BY <2>1, <3>1, <3>2, <3>3 DEF WordAfter
  <2>3. Refused(source, i)
    <3> HIDE DEF i, last, kind
    <3> QED BY <1>2, <1>5, <1>6, <1>9, <2>2, GoesRefused DEF n
  <2>4. Fail
    BY <1>1, <1>10
  <2> QED BY <1>2, <2>3, <2>4, TextRefused
<1>11. ASSUME ~(HasExponent(m) /\ e = x)
       PROVE  last = e - 1
  BY <1>3, <1>7, <1>11
<1>12. CASE ~(HasExponent(m) /\ e = x) /\ ~NumberEnds(e)
  <2>1. WordAfter(source, last)
    BY <1>1, <1>8, <1>11, <1>12, WordAfterCut
  <2>2. Refused(source, i)
    <3> HIDE DEF i, last, kind
    <3> QED BY <1>2, <1>5, <1>6, <1>9, <2>1, GoesRefused DEF n
  <2>3. Fail
    BY <1>1, <1>12
  <2> QED BY <1>2, <2>2, <2>3, TextRefused
<1>13. CASE ~(HasExponent(m) /\ e = x) /\ NumberEnds(e)
  <2>1. ~WordAfter(source, last)
    BY <1>1, <1>8, <1>11, <1>13, WordAfterCut
  <2>2. kind = IF e = w THEN "integer" ELSE "float"
    BY <1>7, <1>11, <1>13
  <2>3. Take(kind, e, Spelling(e))
    <3> HIDE DEF kind
    <3> QED BY <1>1, <1>13, <2>2
  <2>4. Spelling(e) = SubSeq(source, i, last)
    BY <1>11, <1>13 DEF Spelling
  <2>5. \A t : t.location.offset = i /\ t.kind = kind /\ t.last = last /\ t.text = SubSeq(source, i, last)
               => TokenIn(source, t)
    <3> HIDE DEF i, last, kind
    <3> QED BY <1>2, <1>5, <1>6, <2>1, GoesRead DEF n
  <2>6. \A t : t.location.offset = i /\ t.kind = kind /\ t.last = e - 1 /\ t.text = Spelling(e)
               => TokenIn(source, t)
    <3> HIDE DEF kind
    <3> QED BY <1>11, <1>13, <2>4, <2>5
  <2> HIDE DEF kind
  <2> QED BY <1>1, <1>2, <2>3, <2>6, TokenTaken
<1> QED BY <1>10, <1>12, <1>13

LEMMA UnexpectedFollows ==
  ASSUME LexerTypeOK, GrammarFollowed, UnexpectedCharacter
  PROVE  GrammarFollowed'
<1> DEFINE i == at.offset
<1>1. Between /\ Fail /\ Peek(0) \notin Space \cup Word \cup Quote \cup Punctuation \cup {Nul}
  BY DEF UnexpectedCharacter
<1>2. source \in Seq(Character) /\ i \in 1 .. Len(source) + 1 /\ Len(source) \in Nat
  BY OpenIs
<1>3. /\ i <= Len(source) => Peek(0) = source[i]
      /\ Peek(0) = Nul <=> i > Len(source)
  <2>1. 0 \in Nat /\ i + 0 = i
    BY <1>2
  <2> QED BY <2>1, PeekIs
<1>4. i \in 1 .. Len(source)
  BY <1>1, <1>2, <1>3
<1>5. source[i] \notin Word /\ source[i] \notin Punctuation /\ source[i] \notin Quote
  BY <1>1, <1>3, <1>4
<1>6. Refused(source, i)
  <2> HIDE DEF i
  <2>1. Goes(source, i, i - 1, {})
    BY <1>2, <1>4, <1>5, NothingGoes
  <2> QED BY <1>2, <1>4, <1>5, <2>1, GoesRefused
<1> QED BY <1>1, <1>4, <1>6, TextRefused

LEMMA SpaceFollows ==
  ASSUME LexerTypeOK, GrammarFollowed, SkipSpace
  PROVE  GrammarFollowed'
<1> DEFINE i == at.offset
           n == Len(source)
           a == AfterIn(tokens, Len(tokens))
<1>1. Between /\ Peek(0) \in Space /\ at' = Advance(at) /\ UNCHANGED <<source, comment, tokens, outcome>>
  BY DEF SkipSpace
<1>2. source \in Seq(Character) /\ i \in 1 .. n + 1 /\ n \in Nat /\ comment.offset = 0
  BY <1>1, OpenIs DEF Between
<1>3. /\ i <= n => Peek(0) = source[i]
      /\ Peek(0) = Nul <=> i > n
  <2>1. 0 \in Nat /\ i + 0 = i
    BY <1>2
  <2> QED BY <2>1, PeekIs
<1>4. Nul \notin Space /\ "\n" \in Space
  <2>1. "NUL" \notin {Blank, "\t", "\f", "VT"} /\ "NUL" \notin Newline
    <3>1. 1 \in Places /\ Blank = Printable[1]
      BY PrintableIs DEF Places
    <3>2. Blank \in ToSet(Printable)
      BY <3>1, PrintableDomain DEF ToSet
    <3>3. Blank # "NUL"
      BY <3>2, OutsideTable
    <3> QED BY <3>3, OutsideTable DEF Newline
  <2>2. Space = {Blank, "\t", "\f", "VT"} \cup Newline
    BY Zenon DEF Space, Blank
  <2> QED BY <2>1, <2>2 DEF Nul, Newline
<1>5. i <= n /\ source[i] \in Space
  BY <1>1, <1>2, <1>3, <1>4
<1>6. \/ at'.offset = i + 1
      \/ at'.offset = i + 2 /\ i < n /\ source[i + 1] = "\n"
  BY <1>1, <1>5, AdvanceIs
<1>7. a \in 1 .. i /\ BlankIn(source, a, i - 1)
  BY <1>2 DEF GrammarFollowed, Reading, BlankUpto
<1> HIDE DEF a, i, n
<1>8. a \in Nat /\ i \in Nat /\ a >= 1 /\ a <= i /\ i - 1 \in Nat /\ (i - 1) + 1 = i
  BY <1>2, <1>7
<1>9. BlankIn(source, a, i)
  BY <1>5, <1>7, <1>8, BlankGrows
<1>10. source[i + 1] = "\n" => BlankIn(source, a, i + 1)
  <2>1. source[i + 1] = "\n" => source[i + 1] \in Space
    BY <1>4
  <2>2. i + 1 \in Nat /\ a <= i + 1
    BY <1>8
  <2> QED BY <1>8, <1>9, <2>1, <2>2, BlankGrows
<1>11. a \in 1 .. i + 1 /\ a \in 1 .. i + 2 /\ (i + 1) - 1 = i /\ (i + 2) - 1 = i + 1
  BY <1>8
<1>12. BlankUpto(source, tokens, i + 1)
  BY <1>9, <1>11 DEF BlankUpto, a
<1>13. source[i + 1] = "\n" => BlankUpto(source, tokens, i + 2)
  BY <1>10, <1>11 DEF BlankUpto, a
<1>14. BlankUpto(source, tokens, at'.offset)
  BY <1>6, <1>12, <1>13 DEF i
<1> QED BY <1>1, <1>14, TextSkipped DEF Between

LEMMA LineCommentFollows ==
  ASSUME LexerTypeOK, GrammarFollowed, SkipLineComment
  PROVE  GrammarFollowed'
<1> DEFINE i == at.offset
           n == Len(source)
           a == AfterIn(tokens, Len(tokens))
<1>1. PICK end : /\ Cuts(end) /\ end > i + 1 /\ source[i] = "/" /\ source[i + 1] = "/"
                 /\ end = n + 1 \/ source[end] \in Newline
                 /\ at' = Forward(at, end - i)
  BY LineCommentCuts
<1>2. Between /\ UNCHANGED <<source, comment, tokens, outcome>>
  BY DEF SkipLineComment
<1>3. source \in Seq(Character) /\ n \in Nat /\ comment.offset = 0
  BY <1>2, OpenIs DEF Between
<1>4. at'.offset = end
  <2>1. at' = [offset |-> end, line |-> at.line, column |-> at.column + (end - at.offset)]
    BY <1>1, ForwardIs
  <2> QED BY <2>1
<1>5. i \in 1 .. n /\ end \in i + 1 .. n + 1 /\ end \in Nat \ {0} /\ Within(source, i, end - 1, Character \ Newline)
  BY <1>1, CutsAre DEF Cuts
<1>6. a \in 1 .. i /\ BlankIn(source, a, i - 1)
  BY <1>3 DEF GrammarFollowed, Reading, BlankUpto
<1>7. end > i + 1
  BY <1>1
<1> DEFINE e == end - 1
<1> HIDE DEF a, i
<1>8. /\ a \in Nat /\ i \in Nat /\ a >= 1 /\ a <= i /\ i - 1 \in Nat /\ (i - 1) + 1 = i
      /\ e \in Nat /\ e > i /\ e \in i + 1 .. n /\ e + 1 = end /\ a <= end
  BY <1>3, <1>5, <1>6, <1>7
<1>9. e = n \/ source[e + 1] \in Newline
  BY <1>1, <1>3, <1>5
<1>10. Within(source, i, e, Character \ Newline)
  BY <1>5
<1>11. source[i] = "/" /\ source[i + 1] = "/"
  BY <1>1 DEF i
<1> HIDE DEF e
<1>12. CommentIn(source, i, e)
  BY <1>3, <1>5, <1>8, <1>9, <1>10, <1>11, LineCommentIs
<1>13. BlankIn(source, a, e)
  BY <1>6, <1>8, <1>12, BlankGrows
<1>14. BlankUpto(source, tokens, end)
  <2>1. a \in 1 .. end
    BY <1>8
  <2> QED BY <1>13, <2>1 DEF BlankUpto, a, e
<1> QED BY <1>2, <1>4, <1>14, TextSkipped DEF Between

LEMMA OpeningFollows ==
  ASSUME LexerTypeOK, GrammarFollowed, OpenBlockComment
  PROVE  GrammarFollowed'
<1> DEFINE i == at.offset
           n == Len(source)
<1>1. /\ Between /\ Peek(0) = "/" /\ Peek(1) = "*" /\ comment' = at /\ at' = Forward(at, 2)
      /\ UNCHANGED <<source, tokens, outcome>>
  BY DEF OpenBlockComment
<1>2. i + 1 <= n /\ source[i] = "/" /\ source[i + 1] = "*" /\ Cuts(i + 2)
  <2>1. {"/", "*"} = {"/", "*"}
    OBVIOUS
  <2> QED BY <1>1, <2>1, MarkCuts
<1>3. i \in 1 .. n /\ n \in Nat /\ i \in Nat \ {0} /\ comment.offset = 0
  BY <1>1, <1>2, OpenIs, CutsAre DEF Between
<1>4. at'.offset = i + 2
  <2> DEFINE end == i + 2
  <2>1. end - i = 2
    BY <1>3
  <2>2. Cuts(end)
    BY <1>2
  <2> HIDE DEF end
  <2>3. at' = [offset |-> end, line |-> at.line, column |-> at.column + (end - at.offset)]
    BY <1>1, <2>1, <2>2, ForwardIs
  <2>4. at'.offset = end
    BY <2>3
  <2> QED BY <2>4 DEF end
<1>5. BlankUpto(source, tokens, i)
  BY <1>3 DEF GrammarFollowed, Reading
<1> HIDE DEF i, n
<1>6. Open(source, i, i + 2)
  <2>1. i + 2 \in i + 2 .. n + 1 /\ i + 2 .. (i + 2) - 1 = {}
    BY <1>2, <1>3
  <2> QED BY <1>2, <2>1 DEF Open, n
<1>7. i # 0
  BY <1>3
<1>8. Reading(source, tokens, i + 2, i)
  BY <1>3, <1>5, <1>6, <1>7 DEF Reading, n
<1>9. Ended(source, i + 2, i, "lexing")
  BY DEF Ended
<1>10. comment'.offset = i /\ outcome' = "lexing" /\ outcome = "lexing"
  BY <1>1 DEF i, Between
<1> QED BY <1>1, <1>4, <1>8, <1>9, <1>10 DEF GrammarFollowed

LEMMA InsideFollows ==
  ASSUME LexerTypeOK, GrammarFollowed, InBlockComment
  PROVE  GrammarFollowed'
<1> DEFINE i == at.offset
           n == Len(source)
           c == comment.offset
<1>1. /\ outcome = "lexing" /\ comment # Nowhere /\ Peek(0) # Nul /\ ~(Peek(0) = "*" /\ Peek(1) = "/")
      /\ at' = Advance(at) /\ UNCHANGED <<source, comment, tokens, outcome>>
  BY DEF InBlockComment
<1>2. source \in Seq(Character) /\ i \in 1 .. n + 1 /\ n \in Nat /\ c # 0
  BY <1>1, OpenIs
<1>3. c \in 1 .. n /\ BlankUpto(source, tokens, c) /\ Open(source, c, i)
  BY <1>2 DEF GrammarFollowed, Reading
<1>4. /\ i <= n => Peek(0) = source[i]
      /\ Peek(0) = Nul <=> i > n
      /\ i + 1 <= n => Peek(1) = source[i + 1]
  <2>1. 0 \in Nat /\ i + 0 = i
    BY <1>2
  <2> QED BY <2>1, PeekIs
<1>5. i <= n
  BY <1>1, <1>2, <1>4
<1>6. \/ at'.offset = i + 1
      \/ at'.offset = i + 2 /\ i < n /\ source[i + 1] = "\n"
  BY <1>1, <1>5, AdvanceIs
<1>7. ~Closing(source, i)
  <2>1. i < n => i + 1 <= n
    BY <1>2
  <2> QED BY <1>1, <1>4, <1>5, <2>1 DEF Closing
<1> HIDE DEF i, n, c
<1>8. /\ c + 1 <= n /\ source[c] = "/" /\ source[c + 1] = "*" /\ i \in c + 2 .. n + 1
      /\ \A k \in c + 2 .. i - 1 : ~Closing(source, k)
  BY <1>3 DEF Open, n
<1>9. Open(source, c, i + 1)
  <2>1. i + 1 \in c + 2 .. n + 1 /\ \A k \in c + 2 .. (i + 1) - 1 : k \in c + 2 .. i - 1 \/ k = i
    BY <1>2, <1>3, <1>5, <1>8
  <2> QED BY <1>7, <1>8, <2>1 DEF Open, n
<1>10. i < n /\ source[i + 1] = "\n" => Open(source, c, i + 2)
  <2>1. source[i + 1] = "\n" => ~Closing(source, i + 1)
    BY DEF Closing
  <2>2. i < n => i + 2 \in c + 2 .. n + 1
    BY <1>2, <1>3, <1>8
  <2>3. \A k \in c + 2 .. (i + 2) - 1 : k \in c + 2 .. i - 1 \/ k = i \/ k = i + 1
    BY <1>2, <1>3, <1>8
  <2> QED BY <1>7, <1>8, <2>1, <2>2, <2>3 DEF Open, n
<1>11. Open(source, c, at'.offset)
  BY <1>6, <1>9, <1>10
<1>12. Reading(source, tokens, at'.offset, c)
  BY <1>2, <1>3, <1>11 DEF Reading, n
<1>13. Ended(source, at'.offset, c, "lexing")
  BY DEF Ended
<1>14. comment'.offset = c /\ outcome' = "lexing"
  BY <1>1 DEF c
<1>15. TokensRead(source, tokens)
  BY DEF GrammarFollowed
<1> QED BY <1>1, <1>12, <1>13, <1>14, <1>15 DEF GrammarFollowed

LEMMA ClosingFollows ==
  ASSUME LexerTypeOK, GrammarFollowed, CloseBlockComment
  PROVE  GrammarFollowed'
<1> DEFINE i == at.offset
           n == Len(source)
           c == comment.offset
           a == AfterIn(tokens, Len(tokens))
<1>1. /\ outcome = "lexing" /\ comment # Nowhere /\ Peek(0) = "*" /\ Peek(1) = "/" /\ comment' = Nowhere
      /\ at' = Forward(at, 2) /\ UNCHANGED <<source, tokens, outcome>>
  BY DEF CloseBlockComment
<1>2. i + 1 <= n /\ source[i] = "*" /\ source[i + 1] = "/" /\ Cuts(i + 2)
  <2>1. {"*", "/"} = {"/", "*"}
    OBVIOUS
  <2> QED BY <1>1, <2>1, MarkCuts
<1>3. source \in Seq(Character) /\ i \in 1 .. n /\ n \in Nat /\ i \in Nat \ {0} /\ c # 0
  BY <1>1, <1>2, OpenIs, CutsAre
<1>4. at'.offset = i + 2
  <2> DEFINE end == i + 2
  <2>1. end - i = 2
    BY <1>3
  <2>2. Cuts(end)
    BY <1>2
  <2> HIDE DEF end
  <2>3. at' = [offset |-> end, line |-> at.line, column |-> at.column + (end - at.offset)]
    BY <1>1, <2>1, <2>2, ForwardIs
  <2>4. at'.offset = end
    BY <2>3
  <2> QED BY <2>4 DEF end
<1>5. c \in 1 .. n /\ BlankUpto(source, tokens, c) /\ Open(source, c, i)
  BY <1>3 DEF GrammarFollowed, Reading
<1>6. a \in 1 .. c /\ BlankIn(source, a, c - 1)
  BY <1>5 DEF BlankUpto
<1> HIDE DEF i, n, c, a
<1>7. Closing(source, i)
  <2>1. i < n
    BY <1>2, <1>3
  <2> QED BY <1>2, <2>1 DEF Closing, n
<1>8. CommentIn(source, c, i + 1)
  BY <1>3, <1>5, <1>7, ClosedComment DEF n
<1>9. c + 2 <= i /\ i \in Nat
  BY <1>3, <1>5 DEF Open
<1>10. a \in Nat /\ a <= (c - 1) + 1 /\ c - 1 \in Nat /\ i + 1 \in Nat /\ i + 1 > (c - 1) + 1 /\ (c - 1) + 1 = c
  BY <1>3, <1>5, <1>6, <1>9
<1>11. BlankIn(source, a, i + 1)
  BY <1>6, <1>8, <1>10, BlankGrows
<1>12. a \in 1 .. i + 2 /\ (i + 2) - 1 = i + 1
  BY <1>3, <1>5, <1>6, <1>9
<1>13. BlankUpto(source, tokens, i + 2)
  BY <1>11, <1>12 DEF BlankUpto, a
<1> QED BY <1>1, <1>4, <1>13, TextSkipped

LEMMA UnterminatedFollows ==
  ASSUME LexerTypeOK, GrammarFollowed, UnterminatedComment
  PROVE  GrammarFollowed'
<1> DEFINE i == at.offset
           c == comment.offset
<1>1. comment # Nowhere /\ Peek(0) = Nul /\ Fail
  BY DEF UnterminatedComment
<1>2. i \in 1 .. Len(source) + 1 /\ Len(source) \in Nat /\ c # 0
  BY <1>1, OpenIs
<1>3. Peek(0) = Nul <=> i > Len(source)
  <2>1. 0 \in Nat /\ i + 0 = i
    BY <1>2
  <2> QED BY <2>1, PeekIs
<1>4. i = Len(source) + 1
  BY <1>1, <1>2, <1>3
<1>5. Ended(source, i, c, "failed")
  BY <1>2, <1>4 DEF Ended
<1>6. UNCHANGED <<source, at, comment, tokens>> /\ outcome' = "failed"
  BY <1>1 DEF Fail
<1> QED BY <1>5, <1>6 DEF GrammarFollowed

LEMMA EndFollows ==
  ASSUME LexerTypeOK, GrammarFollowed, EndOfInput
  PROVE  GrammarFollowed'
<1> DEFINE i == at.offset
<1>1. Between /\ i > Len(source) /\ outcome' = "end" /\ UNCHANGED <<source, at, comment, tokens>>
  BY DEF EndOfInput
<1>2. i \in 1 .. Len(source) + 1 /\ Len(source) \in Nat /\ comment.offset = 0
  BY <1>1, OpenIs DEF Between
<1>3. i = Len(source) + 1
  BY <1>1, <1>2
<1>4. Ended(source, i, 0, "end")
  BY <1>3 DEF Ended
<1> QED BY <1>1, <1>2, <1>4 DEF GrammarFollowed

LEMMA GrammarStays ==
  ASSUME LexerTypeOK, GrammarFollowed, [LexerNext]_lexerVars
  PROVE  GrammarFollowed'
<1>1. CASE LexerNext
  BY <1>1, SpaceFollows, LineCommentFollows, OpeningFollows, InsideFollows, ClosingFollows, UnterminatedFollows,
     IdentifierFollows, HexFollows, DecimalFollows, StringFollows, SymbolFollows, UnexpectedFollows, EndFollows
     DEF LexerNext
<1>2. CASE UNCHANGED lexerVars
  BY <1>2 DEF lexerVars, GrammarFollowed
<1> QED BY <1>1, <1>2

LEMMA GrammarBegins ==
  ASSUME LexerInit
  PROVE  GrammarFollowed
<1>1. tokens = <<>> /\ at.offset = 1 /\ comment.offset = 0 /\ outcome = "lexing"
  BY DEF LexerInit, LexerInitWith, Nowhere
<1>2. TokensRead(source, tokens)
  BY <1>1 DEF TokensRead
<1>3. BlankIn(source, 1, 1 - 1)
  <2>1. 1 \in Nat \ {0}
    OBVIOUS
  <2> QED BY <2>1, NoText
<1>4. AfterIn(tokens, Len(tokens)) = 1
  BY <1>1 DEF AfterIn
<1>5. Reading(source, tokens, 1, 0)
  BY <1>3, <1>4 DEF Reading, BlankUpto
<1>6. Ended(source, 1, 0, "lexing")
  BY DEF Ended
<1> QED BY <1>1, <1>2, <1>5, <1>6 DEF GrammarFollowed

LEMMA GrammarMeans ==
  ASSUME LexerTypeOK, GrammarFollowed
  PROVE  LexesByTheGrammar
<1> DEFINE after(k) == IF k = 0 THEN 1 ELSE tokens[k].last + 1
           i == at.offset
           c == comment.offset
           n == Len(source)
<1>1. /\ TokensRead(source, tokens) /\ Reading(source, tokens, i, c) /\ Ended(source, i, c, outcome)
  BY DEF GrammarFollowed
<1>2. /\ comment = Nowhere <=> c = 0
      /\ i \in 1 .. n + 1 /\ n \in Nat /\ source \in Seq(Character)
  BY OpenIs
<1>3. \A k : after(k) = AfterIn(tokens, k)
  BY DEF AfterIn
<1> HIDE DEF i, c, after
<1>4. \A k \in DOMAIN tokens : IsToken(tokens[k]) /\ IsBlank(after(k - 1), tokens[k].location.offset - 1)
  <2>1. ASSUME NEW k \in DOMAIN tokens
        PROVE  IsToken(tokens[k]) /\ IsBlank(after(k - 1), tokens[k].location.offset - 1)
    <3>1. TokenIn(source, tokens[k]) /\ BlankIn(source, AfterIn(tokens, k - 1), tokens[k].location.offset - 1)
      BY <1>1 DEF TokensRead
    <3>2. IsToken(tokens[k])
      BY <3>1, TokenIs
    <3>3. after(k - 1) = AfterIn(tokens, k - 1)
      BY <1>3
    <3> QED BY <3>1, <3>2, <3>3, BlankIs
  <2> QED BY <2>1
<1>5. outcome = "end" => IsBlank(after(Len(tokens)), n)
  <2>1. SUFFICES ASSUME outcome = "end"
                 PROVE  IsBlank(after(Len(tokens)), n)
    OBVIOUS
  <2>2. i = n + 1 /\ c = 0
    BY <1>1, <2>1 DEF Ended
  <2>3. BlankIn(source, AfterIn(tokens, Len(tokens)), i - 1) /\ i - 1 = n
    BY <1>1, <1>2, <2>2 DEF Reading, BlankUpto
  <2> HIDE DEF n
  <2> QED BY <1>3, <2>3, BlankIs
<1>6. outcome = "failed" =>
        IF comment # Nowhere THEN ~\E e \in c .. n : IsBlockComment(Text(c, e))
        ELSE i <= n /\ IsBlank(after(Len(tokens)), i - 1) /\ NoToken(i)
  <2>1. SUFFICES ASSUME outcome = "failed"
                 PROVE  IF comment # Nowhere THEN ~\E e \in c .. n : IsBlockComment(Text(c, e))
                        ELSE i <= n /\ IsBlank(after(Len(tokens)), i - 1) /\ NoToken(i)
    OBVIOUS
  <2>2. CASE c # 0
    <3>1. i = n + 1 /\ c \in 1 .. n /\ Open(source, c, i)
      BY <1>1, <2>1, <2>2 DEF Ended, Reading
    <3>2. ~\E e \in c .. n : IsBlockComment(SubSeq(source, c, e))
      BY <1>2, <3>1, Unclosed
    <3> QED BY <1>2, <2>2, <3>2 DEF Text
  <2>3. CASE c = 0
    <3>1. i <= n /\ Refused(source, i) /\ BlankIn(source, AfterIn(tokens, Len(tokens)), i - 1)
      BY <1>1, <2>1, <2>3 DEF Ended, Reading, BlankUpto
    <3>2. NoToken(i)
      BY <1>2, <3>1, RefusedIs
    <3>3. after(Len(tokens)) = AfterIn(tokens, Len(tokens))
      BY <1>3
    <3> HIDE DEF n
    <3> QED BY <1>2, <2>3, <3>1, <3>2, <3>3, BlankIs
  <2> QED BY <2>2, <2>3
<1> QED BY <1>4, <1>5, <1>6 DEF LexesByTheGrammar, after, i, c, n

(* Whatever text is lexed (proto_parser.cpp:229-478): each token is the    *)
(* longest that the rules of the grammar derive where it begins; only      *)
(* white space and whole comments stand between tokens; and lexing fails   *)
(* only at a comment that is never closed, or where no token can be.       *)
THEOREM LexesAsTheGrammarSays == LexerSpec => []LexesByTheGrammar
<1> DEFINE Inv == LexerTypeOK /\ GrammarFollowed
<1>1. LexerInit => Inv
  BY LexerInitType, GrammarBegins
<1>2. Inv /\ [LexerNext]_lexerVars => Inv'
  <2>1. LexerTypeOK /\ [LexerNext]_lexerVars => LexerTypeOK'
    BY LexerStepType
  <2>2. LexerTypeOK /\ GrammarFollowed /\ [LexerNext]_lexerVars => GrammarFollowed'
    BY GrammarStays
  <2> QED BY <2>1, <2>2
<1>3. Inv => LexesByTheGrammar
  BY GrammarMeans
<1> QED BY <1>1, <1>2, <1>3, PTL DEF LexerSpec
=============================================================================
