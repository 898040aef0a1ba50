-------------------------------- MODULE Lexer --------------------------------
(***************************************************************************)
(* The lexer of src/src/lexer.rs: a text, a sequence of characters, is cut  *)
(* into tokens from left to right, each as long as it can be. A token is   *)
(* its kind and what it stands for: characters, the value of a number, or  *)
(* the parts of a string with expressions in it. Lines and columns are     *)
(* left out.                                                               *)
(***************************************************************************)
EXTENDS Integers, Sequences, FiniteSets, SequencesExt, TLC

CONSTANTS
    Letters,     \* letters of identifiers; r, x, b and e have a meaning of their own
    Digits,      \* character -> value
    MaxDigits    \* decimal digits an i64 holds

ASSUME LexerAssumption ==
    /\ {"r", "x", "b", "e"} \subseteq Letters
    /\ \A d \in DOMAIN Digits : Digits[d] \in 0..9
    /\ MaxDigits \in Nat \ {0}

Char(text, i) == IF i <= Len(text) THEN text[i] ELSE "end of text"
\* the first position from i on whose character is not one of these
After(text, i, chars) == Min({Len(text) + 1} \cup {j \in i..Len(text) : text[j] \notin chars})
Digital == DOMAIN Digits
HexDigits == Digital \cup {"b", "e"}
Lexeme(kind, value, next) == [token |-> [kind |-> kind, value |-> value], next |-> next]

-----------------------------------------------------------------------------
(* Spaces and comments *)
RECURSIVE SkipWhitespace(_, _)
SkipWhitespace(text, i) ==
    LET two == <<Char(text, i), Char(text, i + 1)>>
        close == {j \in (i + 2)..(Len(text) - 1) : text[j] = "*" /\ text[j + 1] = "/"}
    IN CASE two[1] \in {" ", "\n"} -> SkipWhitespace(text, i + 1)
         [] two = <<"/", "/">> -> SkipWhitespace(text, Min({Len(text) + 1} \cup {j \in i..Len(text) : text[j] = "\n"}))
         [] two = <<"/", "*">> -> SkipWhitespace(text, IF close = {} THEN Len(text) + 1 ELSE Min(close) + 2)
         [] OTHER -> i

-----------------------------------------------------------------------------
(* Strings *)

\* the brace that closes an interpolation begun before i; quotes mean nothing
ClosingBrace(text, i) ==
    LET depth(j) == Cardinality({k \in i..j : text[k] = "{"}) - Cardinality({k \in i..j : text[k] = "}"})
    IN Min({Len(text) + 1} \cup {j \in i..Len(text) : text[j] = "}" /\ depth(j) = -1})

Escaped(c) == IF c = "n" THEN "\n" ELSE c

\* a literal part is kept when there is something in it
Kept(parts, value) == IF value = <<>> THEN parts ELSE Append(parts, <<"literal", value>>)

RECURSIVE ScanString(_, _, _, _, _)
ScanString(text, i, quote, value, parts) ==
    LET c == Char(text, i)
        close == ClosingBrace(text, i + 1)
    IN CASE c \in {quote, "end of text"} ->
              IF parts = <<>> THEN Lexeme("string", value, i + 1) ELSE Lexeme("interpolated", Kept(parts, value), i + 1)
         [] c = "\\" ->
              IF i = Len(text) THEN ScanString(text, i + 1, quote, value, parts)
              ELSE ScanString(text, i + 2, quote, Append(value, Escaped(text[i + 1])), parts)
         [] c = "{" ->
              ScanString(text, close + 1, quote, <<>>,
                         Append(Kept(parts, value), <<"expression", SubSeq(text, i + 1, close - 1)>>))
         [] OTHER -> ScanString(text, i + 1, quote, Append(value, c), parts)

\* mutant: it ends at the first quote with a # after it
RawEndsEarly(text, i, hashes) ==
    LET ends == {j \in i..Len(text) : text[j] = "\"" /\ After(text, j + 1, {"#"}) - j - 1 >= Min({1, hashes})}
    IN IF ends = {} THEN Lexeme("raw", SubSeq(text, i, Len(text)), Len(text) + 1)
       ELSE Lexeme("raw", SubSeq(text, i, Min(ends) - 1), Min(ends) + hashes + 1)

\* a raw string ends at the first quote with as many # after it as before it
ScanRawString(text, i, hashes) ==
    LET ends == {j \in i..Len(text) : text[j] = "\"" /\ After(text, j + 1, {"#"}) - j - 1 >= hashes}
    IN IF ends = {} THEN Lexeme("raw", SubSeq(text, i, Len(text)), Len(text) + 1)
       ELSE Lexeme("raw", SubSeq(text, i, Min(ends) - 1), Min(ends) + hashes + 1)

\* a template ends at the first three quotes; its content is split by Template
ScanTemplateString(text, i) ==
    LET ends == {j \in i..(Len(text) - 2) : SubSeq(text, j, j + 2) = <<"\"", "\"", "\"">>}
    IN IF ends = {} THEN Lexeme("template", SubSeq(text, i, Len(text)), Len(text) + 1)
       ELSE Lexeme("template", SubSeq(text, i, Min(ends) - 1), Min(ends) + 3)

-----------------------------------------------------------------------------
(* Numbers *)
Figures(text, i, j) == SelectSeq(SubSeq(text, i, j - 1), LAMBDA c : c # "_")

\* what does not fit an i64 is 0
IntegerOf(figures) ==
    IF Len(figures) > MaxDigits \/ figures = <<>> THEN 0
    ELSE FoldLeft(LAMBDA n, c : 10 * n + Digits[c], 0, figures)

\* other bases keep their figures: 0 when there is none
InBase(text, i, figures, base) ==
    LET end == After(text, i, figures \cup {"_"})
    IN Lexeme("integer", IF Figures(text, i, end) = <<>> THEN 0 ELSE <<base, Figures(text, i, end)>>, end)

ScanNumber(text, i) ==
    LET whole == After(text, i, Digital \cup {"_"})
        pointed == Char(text, whole) = "." /\ Char(text, whole + 1) \in Digital
        fraction == IF pointed THEN After(text, whole + 1, Digital \cup {"_"}) ELSE whole
        exponent == Char(text, fraction) = "e"
        signed == IF Char(text, fraction + 1) \in {"+", "-"} THEN fraction + 2 ELSE fraction + 1
        end == IF exponent THEN After(text, signed, Digital) ELSE fraction
    IN CASE text[i] = "0" /\ Char(text, i + 1) = "x" -> InBase(text, i + 2, HexDigits, "hex")
         [] text[i] = "0" /\ Char(text, i + 1) = "b" -> InBase(text, i + 2, {"0", "1"} \cap Digital, "binary")
         [] ~pointed /\ ~exponent -> Lexeme("integer", IntegerOf(Figures(text, i, whole)), whole)
         [] exponent /\ end = signed -> Lexeme("float", 0, end)     \* no figures: does not parse
         [] OTHER -> Lexeme("float", Figures(text, i, end), end)

-----------------------------------------------------------------------------
(* Identifiers and keywords; r" and r#" begin a raw string *)
ScanIdentifier(text, i) ==
    LET hashes == After(text, i + 1, {"#"})
        end == After(text, i + 1, Letters \cup Digital \cup {"_"})
    IN IF text[i] = "r" /\ Char(text, hashes) = "\"" THEN ScanRawString(text, hashes + 1, hashes - i - 1)
       ELSE Lexeme("identifier", SubSeq(text, i, end - 1), end)

Operators ==
    {<<c>> : c \in {"+", "-", "*", "/", "%", "^", "=", "!", "<", ">", "&", "|", "(", ")", "{", "}", "[", "]",
                    ",", ".", ":", ";", "?", "#"}}
    \cup {<<"+", "=">>, <<"-", ">">>, <<"-", "=">>, <<"*", "=">>, <<"/", "=">>, <<"=", "=">>, <<"=", ">">>,
          <<"!", "=">>, <<"<", "=">>, <<">", "=">>, <<"&", "&">>, <<"|", ">">>, <<"|", "|">>, <<".", ".">>,
          <<".", ".", "=">>, <<":", ":">>, <<"?", "?">>}

ScanOperator(text, i) ==
    LET longest == Max({0} \cup {Len(o) : o \in {p \in Operators : IsPrefix(p, SubSeq(text, i, Len(text)))}})
    IN IF longest = 0 THEN Lexeme("identifier", <<text[i]>>, i + 1)   \* any other character
       ELSE Lexeme("operator", SubSeq(text, i, i + longest - 1), i + longest)

NextToken(text, i) ==
    LET c == text[i]
    IN CASE c = "\"" /\ Char(text, i + 1) = "\"" ->
              IF Char(text, i + 2) = "\"" THEN ScanTemplateString(text, i + 3) ELSE Lexeme("string", <<>>, i + 2)
         [] c \in {"\"", "'"} -> ScanString(text, i + 1, c, <<>>, <<>>)
         [] c \in Digital -> ScanNumber(text, i)
         [] c \in Letters \cup {"_", "@"} -> ScanIdentifier(text, i)
         [] OTHER -> ScanOperator(text, i)

RECURSIVE TokensFrom(_, _, _)
TokensFrom(text, i, tokens) ==
    IF i > Len(text) THEN tokens
    ELSE LET one == NextToken(text, i)
         IN TokensFrom(text, SkipWhitespace(text, one.next), Append(tokens, one.token))

Tokens(text) == TokensFrom(text, SkipWhitespace(text, 1), <<>>)
=============================================================================
