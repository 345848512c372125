------------------------------- MODULE Defaults -----------------------------
(***************************************************************************)
(* The way of a default of type string or bytes: the literal of the schema *)
(* is decoded by the lexer, stored in the descriptor by apply_default, and *)
(* written between quotes into the generated struct, where a C++ compiler  *)
(* reads it.                                                               *)
(***************************************************************************)
EXTENDS LexicalGrammar

CharacterOf(b) ==
    CASE b \in 32..126 -> Printable[b - 31] [] b = 10 -> "\n" [] b = 13 -> "\r" [] b = 0 -> Nul

(* The text of default_value: the bytes themselves for a string.           *)
DefaultText(type, bytes) ==
    IF type = "bytes" THEN EscapeBytes(bytes) ELSE [i \in DOMAIN bytes |-> CharacterOf(bytes[i])]

(* " = " and the text in quotes, as the initialiser of a std::string.      *)
DefaultValueStr(type, bytes) == Quoted(DefaultText(type, bytes))

(* A C++ literal has the escapes of the grammar; the constructor of a      *)
(* string stops at the first NUL.                                          *)
CppString(code) ==
    LET literal == LiteralAt(code, 1)
        nul == SelectInSeq(literal.bytes, LAMBDA b : b = 0)
    IN  IF literal.close # Len(code) THEN None
        ELSE [literal EXCEPT !.bytes = IF nul = 0 THEN @ ELSE SubSeq(@, 1, nul - 1)]

(* The generated struct has the default the schema specifies (the comment  *)
(* at codegen.cpp:150), for text in ASCII.                                 *)
DefaultsAsSpecified ==
    \A n \in DOMAIN tokens :
        tokens[n].kind = "string" /\ ToSet(tokens[n].text) \subseteq (32..126) \cup {0, 10, 13} =>
            \A type \in {"string", "bytes"} :
                CppString(DefaultValueStr(type, tokens[n].text)).bytes = tokens[n].text
=============================================================================
