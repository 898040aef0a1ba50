----------------------------- MODULE SyntaxProps -----------------------------
(***************************************************************************)
(* Programs are written out, token by token, and read again by the parser. *)
(* A shape: <<"expression", tree>>, or <<"program", statement, separator,  *)
(* statement>>. Below, tokens and texts are written out character by       *)
(* character and read again by the lexer: <<"tokens", lexeme or space,     *)
(* ...>>, or <<"text", character, ...>>.                                   *)
(***************************************************************************)
EXTENDS Samples, Parser, Lexer

CONSTANT MaxWraps   \* constructs around the innermost operand

N(t) == Tree("name", t, <<>>)
Lit(t) == Tree("literal", t, <<>>)
Ex(e) == Tree("expression", "", <<e>>)
Blk(stmts) == Tree("block", "", <<Listed(stmts)>>)
Some(tree) == Tree("some", "", <<tree>>)

Atoms == {N("a"), Lit("1"), Lit("'s'"), Lit("r's'"), Blk(<<>>)}
OneOfEachLevel == {"??", "||", "&&", "==", "<", "+", "-", "*"}

\* `pipe` is only written: it is read as a call
Wrapped1(e) ==
    {Tree("binary", op, <<e, N("a")>>) : op \in OneOfEachLevel} \cup {Tree("binary", op, <<Lit("1"), e>>) : op \in OneOfEachLevel}
    \cup {Tree("range", "..", <<e, Lit("1")>>), Tree("range", "..", <<N("a"), e>>), Tree("assign", "=", <<N("a"), e>>)}
    \cup {Tree("unary", op, <<e>>) : op \in {"-", "!"}}
    \cup {Tree("pipe", "", <<e, N("f")>>), Tree("pipe", "", <<e, Tree("call", "", <<N("f"), Listed(<<N("a")>>)>>)>>)}
    \cup {Tree("call", "", <<e, Listed(<<>>)>>), Tree("call", "", <<N("f"), Listed(<<N("a"), e>>)>>)}
    \cup {Tree("index", "", <<e, Lit("1")>>), Tree("index", "", <<N("a"), e>>),
          Tree("member", "", <<e, N("f"), Missing>>), Tree("member", "", <<N("a"), N("f"), Some(Listed(<<e>>))>>)}
    \cup {Tree("array", "", <<Listed(<<N("a"), e>>)>>), Tree("enum variant", "P", <<N("P"), Some(Listed(<<e>>))>>),
          Tree("struct literal", "", <<N("P"), Listed(<<Tree("field", "", <<N("a"), e>>)>>)>>),
          Tree("map literal", "", <<Listed(<<Tree("pair", "", <<Lit("'s'"), e>>)>>)>>)}

Wrapped2(e) ==
    {Blk(<<Ex(e)>>), Blk(<<Tree("return", "", <<e>>)>>),
     Blk(<<Tree("if", "", <<e, Blk(<<>>), Missing>>)>>), Blk(<<Tree("for", "", <<N("a"), e, Blk(<<>>)>>)>>),
     Tree("match", "", <<e, Listed(<<Tree("arm", "", <<Tree("wildcard", "", <<>>), Missing, Lit("1")>>)>>)>>),
     Tree("match", "", <<Lit("1"), Listed(<<Tree("arm", "", <<Lit("1"), Some(e), N("a")>>),
                                           Tree("arm", "", <<Tree("variable", "a", <<>>), Missing, e>>)>>)>>)}

Around(e) == Wrapped1(e) \cup Wrapped2(e)

-----------------------------------------------------------------------------
(* Writing, with no more parentheses than the levels of the grammar need *)
Level(tree) ==
    CASE tree.node = "assign" -> 0 [] tree.node = "pipe" -> 1 [] tree.node = "range" -> 7
      [] tree.node = "unary" -> 10
      [] tree.node \in {"call", "index", "member", "struct literal"} -> 11
      [] tree.node = "binary" ->
            CASE tree.text = "??" -> 2 [] tree.text = "||" -> 3 [] tree.text = "&&" -> 4 [] tree.text = "==" -> 5
              [] tree.text = "<" -> 6 [] tree.text \in {"+", "-"} -> 8 [] OTHER -> 9
      [] OTHER -> 12

RECURSIVE InText(_, _)

\* the parts, separated
Row(trees, sep) ==
    FoldLeft(LAMBDA out, t : out \o (IF out = <<>> THEN <<>> ELSE sep) \o InText(t, 0), <<>>, trees)

Plain(tree) ==
    LET p == tree.parts
        infix(l, r) == InText(p[1], l) \o <<tree.text>> \o InText(p[2], r)
    IN CASE tree.node \in {"name", "literal", "variable"} -> <<tree.text>>
         [] tree.node = "missing" -> <<>>
         [] tree.node = "some" -> InText(p[1], 0)
         [] tree.node = "list" -> Row(p, <<",">>)
         [] tree.node = "wildcard" -> <<"_">>
         [] tree.node = "binary" -> infix(Level(tree), Level(tree) + 1)
         [] tree.node = "range" -> infix(8, 8)
         [] tree.node = "assign" -> infix(1, 0)
         [] tree.node = "unary" -> <<tree.text>> \o InText(p[1], 10)
         [] tree.node = "pipe" -> InText(p[1], 1) \o <<"|>">> \o InText(p[2], 2)
         [] tree.node = "call" -> InText(p[1], IF p[1].node = "member" THEN 12 ELSE 11) \o <<"(">> \o InText(p[2], 0) \o <<")">>
         [] tree.node = "index" -> InText(p[1], 11) \o <<"[">> \o InText(p[2], 0) \o <<"]">>
         [] tree.node = "member" -> InText(p[1], 11) \o <<".">> \o InText(p[2], 0)
                                    \o (IF p[3] = Missing THEN <<>> ELSE <<"(">> \o InText(p[3], 0) \o <<")">>)
         [] tree.node = "struct literal" -> InText(p[1], 12) \o <<"{">> \o InText(p[2], 0) \o <<"}">>
         [] tree.node = "enum variant" -> <<tree.text, "::">> \o InText(p[1], 0) \o <<"(">> \o InText(p[2], 0) \o <<")">>
         [] tree.node \in {"field", "pair"} -> InText(p[1], 0) \o <<":">> \o InText(p[2], 0)
         [] tree.node = "array" -> <<"[">> \o InText(p[1], 0) \o <<"]">>
         [] tree.node = "map literal" -> <<"map", "{">> \o InText(p[1], 0) \o <<"}">>
         [] tree.node = "match" -> <<"match">> \o InText(p[1], 0) \o <<"{">> \o InText(p[2], 0) \o <<"}">>
         [] tree.node = "arm" -> InText(p[1], 0) \o (IF p[2] = Missing THEN <<>> ELSE <<"if">> \o InText(p[2], 0))
                                 \o <<"=>">> \o InText(p[3], 0)
         [] tree.node = "block" -> <<"{">> \o Row(p[1].parts, <<>>) \o <<"}">>
         [] tree.node = "expression" -> InText(p[1], 0) \o <<";">>
         [] tree.node = "return" -> <<"return">> \o InText(p[1], 0) \o <<";">>
         [] tree.node = "if" -> <<"if">> \o InText(p[1], 0) \o InText(p[2], 0)
         [] tree.node = "for" -> <<"for">> \o InText(p[1], 0) \o <<"in">> \o InText(p[2], 0) \o InText(p[3], 0)

InText(tree, level) ==
    IF Level(tree) >= level THEN Plain(tree) ELSE <<"(">> \o Plain(tree) \o <<")">>

-----------------------------------------------------------------------------
(* What is read of a tree that was written: pipes are calls, and an empty   *)
(* pair of braces anywhere in a map literal is an empty map.                *)
RECURSIVE Meant(_, _)
Meant(tree, inMap) ==
    LET body == CASE tree.node = "if" -> 2 [] tree.node = "for" -> 3 [] OTHER -> 0
        within == inMap \/ tree.node = "map literal"
        parts == [i \in DOMAIN tree.parts |-> IF i = body THEN tree.parts[i] ELSE Meant(tree.parts[i], within)]
        f == parts[2]
        callee == IF f.node = "call" THEN f.parts[1] ELSE f
        others == IF f.node = "call" THEN f.parts[2].parts ELSE <<>>
    IN CASE tree.node = "pipe" -> Tree("call", "", <<callee, Listed(<<parts[1]>> \o others)>>)
         [] tree.node = "block" /\ inMap /\ tree.parts[1].parts = <<>> -> Tree("map literal", "", <<Listed(<<>>)>>)
         [] OTHER -> [tree EXCEPT !.parts = parts]

\* a condition that ends with a name, and an empty body: together a struct literal
Header(tree) ==
    CASE tree.node = "if" -> InText(tree.parts[1], 0) [] tree.node = "for" -> InText(tree.parts[2], 0) [] OTHER -> <<"1">>
EndsInName(toks) ==
    Last(toks) \in Identifiers /\ (Len(toks) = 1 \/ toks[Len(toks) - 1] # ".")

RECURSIVE TakenForStruct(_)
TakenForStruct(tree) ==
    EndsInName(Header(tree)) \/ \E i \in DOMAIN tree.parts : TakenForStruct(tree.parts[i])

(* An expression reads back as it was built, whatever stands in whatever,   *)
(* with the parentheses its levels need: a pipe as the call it stands for;  *)
(* only a condition that ends with a name before an empty body is refused.  *)
(* (assignment to primary, match_expression, is_struct_literal.)            *)
ExpressionsReadBack ==
    Family = "expression" =>
        LET r == ParseProgram(Append(InText(shape[2], 0), ";"))
        IN IF TakenForStruct(shape[2]) THEN ~r.ok
           ELSE r.ok /\ r.tree = Listed(<<Ex(Meant(shape[2], FALSE))>>)

-----------------------------------------------------------------------------
(* Statements, one after another *)
Closed ==   \* they end with a brace, and take no semicolon
    {<<"if", "a", "{", "1", ";", "}">>, <<"if", "a", "{", "a", "}", "else", "if", "1", "{", "}", "else", "{", "}">>,
     <<"while", "!", "1", "{", "break", ";", "}">>, <<"loop", "{", "continue", "}">>,
     <<"for", "a", "in", "1", "..", "1", "{", "a", "}">>,
     <<"fn", "f", "<", "P", ":", "P", "+", "P", ">", "(", "a", ":", "P", "=", "1", ",", "a", ")", "->", "P", "?",
       "requires", "1", "ensures", "1", "{", "return", "}">>,
     <<"#", "[", "f", "(", "1", ")", "]", "struct", "P", "{", "pub", "a", ":", "P", "<", "P", ",", "P", ">", ",", "}">>,
     <<"export", "enum", "P", "{", "P", "(", "P", "|", "P", ")", ",", "P", "}">>,
     <<"trait", "P", ":", "P", "{", "fn", "f", "(", "a", ",", ")", "->", "P", ";", "fn", "f", "(", ")", "{", "a", "}", "}">>,
     <<"impl", "P", "for", "P", "{", "invariant", "a", ";", "#", "[", "f", "]", "fn", "f", "(", ")", "{", "}", "}">>,
     <<"mod", "a", "{", "let", "a", "}">>, <<"protocol", "P", "{", "a", "+", "}">>}

Open ==     \* they end with an expression
    {<<"let", "mut", "a", ":", "P", "=", "a">>, <<"let", "[", "a", ",", "_", "]", "=", "f", "(", ")">>, <<"return", "1">>,
     <<"defer", "f", "(", ")">>, <<"a", "=", "1">>, <<"1", "..=", "a">>, <<"a", ".", "f">>,
     <<"{", "a", "}">>, <<"match", "a", "{", "P", "::", "P", "(", "a", ")", "if", "a", "=>", "1", ",", "P", "{", "a", ":", "_", "}", "=>", "f", "}">>,
     <<"-", "1">>, <<"(", "a", ")">>, <<"[", "1", "]">>, <<"{", "}">>}

Others ==
    {<<"let", "a">>, <<"type", "P", "=", "P">>, <<"return">>, <<"break">>, <<"continue">>, <<"use", "a", ":", ":", "f">>,
     <<"import", "{", "a", "as", "f", ",", "f", "}", "from", "a", "/", "f">>, <<"import", "'s'", "as", "a">>, <<"import", "a">>,
     <<"import", "a", "from", "'s'">>, <<"pub", "let", "a", "=", "1">>, <<"export", "{", "a", ",", "f", "}">>}

Statements == Closed \cup Open \cup Others
EndsWithExpression(s) == s \in Open \cup {<<"pub", "let", "a", "=", "1">>}

\* nothing separates the two, and the second goes on where the first could end
RunsOn(s, t) ==
    \/ EndsWithExpression(s) /\ Head(t) \in {"(", "[", "-"}
    \/ EndsWithExpression(s) /\ (EndsInName(s) \/ s = <<"(", "a", ")">>) /\ t = <<"{", "}">>
    \/ s = <<"return">>
    \/ s = <<"type", "P", "=", "P">> /\ Head(t) = "["

(* Statements stay apart: what is read of one does not depend on what       *)
(* stands before or after it, but without a semicolon a line that begins    *)
(* with ( [ - or {} continues the expression before it, and a semicolon     *)
(* after a closing brace is refused. (declaration, statement, block.)       *)
StatementsStayApart ==
    Family = "program" =>
        LET ended(s) == IF s \in Closed THEN s ELSE Append(s, ";")
            joined == ParseProgram(shape[2] \o shape[3] \o ended(shape[4]))
            each == ParseProgram(ended(shape[2])).tree.parts \o ParseProgram(ended(shape[4])).tree.parts
            apart == joined.ok /\ joined.tree.parts = each
        IN /\ Len(each) = 2
           /\ apart = IF shape[3] = <<";">> THEN shape[2] \notin Closed ELSE ~RunsOn(shape[2], shape[4])

(* The parser comes to an end: with a program, or with an error at the      *)
(* first token that does not fit. Only in the body of a trait or an impl it *)
(* looks for ever at a token that begins no method.                         *)
BrokenProgramsEnd ==
    Family = "broken" =>
        LET r == ParseProgram(shape[2])
        IN r.tree.node = "endless" => {"trait", "impl"} \cap ToSet(shape[2]) # {}

(* What is written is what is read. *)
WrittenIsRead == ExpressionsReadBack /\ StatementsStayApart /\ BrokenProgramsEnd

SyntaxStarts ==
    {<<"expression", e>> : e \in Atoms} \cup {<<"statements">>} \cup {<<"broken", s>> : s \in Statements}

SyntaxGrows ==
    \/ /\ Family = "expression" /\ Len(shape) <= MaxWraps + 1
       /\ \E e \in Around(shape[2]) : shape' = <<"expression", e>> \o SubSeq(shape, 3, Len(shape)) \o <<"wrapped">>
    \/ /\ Family = "statements"
       /\ \E s, t \in Statements, sep \in {<<>>, <<";">>} : shape' = <<"program", s, sep, t>>
    \/ /\ Family = "broken" /\ Len(shape) = 2
       /\ \E i \in DOMAIN shape[2] :
             \/ shape' = <<"broken", RemoveAt(shape[2], i), "once">>
             \/ \E t \in {"a", "}", ")", ",", "pub"} : shape' = <<"broken", [shape[2] EXCEPT ![i] = t], "once">>

-----------------------------------------------------------------------------
(* Tokens *)
CONSTANTS MaxTokens, MaxText   \* tokens of a line, characters of a text

Space == <<" ">>
Numbers == {<<"1">>, <<"1", ".", "1">>, <<"1", "e", "-", "1">>, <<"0", "x", "b">>, <<"1", "1", "1", "1">>}
Words == {<<"a">>, <<"r">>, <<"e", "1">>, <<"@", "a">>}
Strings == {<<"\"", "a", "\"">>, <<"'", "\"", "'">>, <<"\"", "\"">>, <<"r", "\"", "\\", "\"">>,
            <<"r", "#", "\"", "\"", "a", "\"", "#">>, <<"\"", "a", "{", "\"", "}", "\"">>}
Signs == {<<"=">>, <<"-">>, <<">">>, <<".">>, <<".", ".">>, <<"/">>, <<"*">>, <<"#">>}
Comment == <<"/", "*", "a", "*", "/">>

Lexemes == Numbers \cup Words \cup Strings \cup Signs
OneToken(lexeme) == NextToken(lexeme, 1).token

\* what would be read as something else without a space between
RunsInto(l, m) ==
    \/ l \in Words /\ Head(m) \in Letters \cup Digital
    \/ l = <<"r">> /\ Head(m) = "\""
    \/ l \in Numbers /\ Head(m) \in Digital
    \/ l \in {<<"1">>, <<"1", ".", "1">>, <<"1", "1", "1", "1">>, <<"0", "x", "b">>} /\ Head(m) = "e"
    \/ l \o m \in Operators \/ l \o m \in {<<"/", "/">>, <<"/", "*">>, <<".", ".", ".">>}
    \/ l = <<"\"", "\"">> /\ Head(m) = "\""

Written(i) == i > 1 /\ i <= Len(shape) /\ shape[i] \in Lexemes
\* a point between figures is a decimal point, r and # before a quote begin a raw string
ThreeAreOne ==
    \E i \in DOMAIN shape :
        /\ Written(i - 1) /\ Written(i) /\ Written(i + 1)
        /\ \/ shape[i - 1] \in {<<"1">>, <<"1", "1", "1", "1">>} /\ shape[i] = <<".">> /\ shape[i + 1] \in Numbers
           \/ shape[i - 1] = <<"r">> /\ shape[i] = <<"#">> /\ Head(shape[i + 1]) = "\""

(* Tokens written one after another are the tokens read: with a space or a  *)
(* comment between any two, without one between those that do not run into  *)
(* each other. (next_token, scan_number, scan_identifier, skip_whitespace.) *)
TokensReadBack ==
    Family = "tokens" =>
        LET lexemes == SelectSeq(Tail(shape), LAMBDA l : l \in Lexemes)
        IN (Tokens(FlattenSeq(Tail(shape))) = [i \in DOMAIN lexemes |-> OneToken(lexemes[i])]) = ~ThreeAreOne

-----------------------------------------------------------------------------
(* Texts *)
Chars == {"a", "n", "\"", "\\", "{", "}", "#", "\n"}

Quoted(text) == FlattenSeq([i \in DOMAIN text |->
    CASE text[i] = "\n" -> <<"\\", "n">> [] text[i] \in {"\"", "\\", "{", "}"} -> <<"\\", text[i]>> [] OTHER -> <<text[i]>>])
HashesFor(text) ==   \* more than follow any quote in the text
    Max({0} \cup {After(text, j + 1, {"#"}) - j : j \in {k \in DOMAIN text : text[k] = "\""}})
Hashes(n) == [i \in 1..n |-> "#"]
Balanced(text) ==
    LET opened(n) == Cardinality({k \in 1..n : text[k] = "{"})
        closed(n) == Cardinality({k \in 1..n : text[k] = "}"})
    IN opened(Len(text)) = closed(Len(text)) /\ \A n \in DOMAIN text : closed(n) <= opened(n)

(* Any text can be written as a string with its quotes, braces and          *)
(* backslashes escaped, and as a raw string with enough #, and is that text *)
(* again; an expression with balanced braces reaches the parser as it is    *)
(* written, quotes and all. (scan_string, scan_raw_string.)                 *)
TextsReadBack ==
    Family = "text" =>
        LET text == Tail(shape)
            n == HashesFor(text)
            written == <<"\"">> \o Quoted(text) \o <<"\"">>
            raw == <<"r">> \o Hashes(n) \o <<"\"">> \o text \o <<"\"">> \o Hashes(n)
            within == <<"\"", "a", "{">> \o text \o <<"}", "\"">>
        IN /\ Tokens(written) = <<[kind |-> "string", value |-> text]>>
           /\ Tokens(raw) = <<[kind |-> "raw", value |-> text]>>
           /\ Balanced(text) =>
                Tokens(within) = <<[kind |-> "interpolated", value |-> <<<<"literal", <<"a">>>>, <<"expression", text>>>>]>>

(* What is written is what the parser is given. *)
LexemesReadBack == TokensReadBack /\ TextsReadBack

LexerStarts == {<<"tokens">>, <<"text">>}
LexerGrows ==
    \/ /\ Family = "tokens" /\ Len(SelectSeq(Tail(shape), LAMBDA l : l \in Lexemes)) < MaxTokens
       /\ \E l \in Lexemes :
             \/ Len(shape) = 1 /\ Piece(l)
             \/ Len(shape) > 1 /\ ~RunsInto(shape[Len(shape)], l) /\ Piece(l)
             \/ Len(shape) = 2 /\ \E sep \in {Space} \cup (IF shape[2] = <<"/">> THEN {} ELSE {Comment}) : Pieces(<<sep, l>>)
    \/ /\ Family = "text" /\ Len(shape) <= MaxText
       /\ \E c \in Chars : Piece(c)
=============================================================================
