------------------------------- MODULE Parser -------------------------------
(***************************************************************************)
(* The recursive-descent parser of src/src/parser.rs.                      *)
(*                                                                         *)
(* Each parsing method is a rule: the tokens it consumes and the methods   *)
(* it calls, in order. Parse follows a rule from one position of the       *)
(* tokens, as the code does: it looks one token ahead (more only for       *)
(* struct and map literals), never goes back, and stops at the first       *)
(* error. Tokens are their lexemes; a tree is the node of ast.rs with its  *)
(* name or operator and its children in the order they are read.           *)
(***************************************************************************)
EXTENDS Integers, Sequences, FiniteSets, SequencesExt, TLC

CONSTANTS
    Identifiers,   \* Identifier tokens
    Capitalized,   \* those that begin with a capital letter
    NumberTokens,  \* Integer, Float and Bool tokens
    TextTokens,    \* String tokens
    RawTokens      \* RawString tokens

LiteralTokens == NumberTokens \cup TextTokens \cup RawTokens

ASSUME ParserAssumption ==
    /\ Capitalized \subseteq Identifiers
    /\ Cardinality(Identifiers \cup LiteralTokens)
         = Cardinality(Identifiers) + Cardinality(NumberTokens) + Cardinality(TextTokens) + Cardinality(RawTokens)

-----------------------------------------------------------------------------
(* Trees and outcomes *)
Tree(node, text, parts) == [node |-> node, text |-> text, parts |-> parts]
Missing == Tree("missing", "", <<>>)
Listed(parts) == Tree("list", "", parts)

Read(tree, at) == [ok |-> TRUE, tree |-> tree, at |-> at]
Failed == [ok |-> FALSE, tree |-> Missing, at |-> 0]
\* the parser goes round a loop that consumes nothing
Endless == [ok |-> FALSE, tree |-> Tree("endless", "", <<>>), at |-> 0]

Peek(toks, at) == IF at <= Len(toks) THEN toks[at] ELSE "end of file"

-----------------------------------------------------------------------------
(* What a rule is made of *)
Token(t) == [k |-> "token", t |-> t]                        \* consume
Name == [k |-> "name"]                                      \* consume_identifier
Source == [k |-> "source"]                                  \* parse_module_source
Flag(t) == [k |-> "flag", t |-> t]                          \* match_token, remembered
Skip(t) == [k |-> "skip", t |-> t]                          \* match_token, forgotten
Rule(r) == [k |-> "rule", rule |-> r]
Node(n, items) == [k |-> "node", node |-> n, items |-> items]
Maybe(t, items) == [k |-> "maybe", t |-> t, items |-> items]   \* if match_token(t) { items }
Unless(ts, item) == [k |-> "unless", ts |-> ts, item |-> item] \* if !check(t) { item }
When(ts, then, else) == [k |-> "when", ts |-> ts, then |-> then, else |-> else]
Choice(cases, else) == [k |-> "choice", cases |-> cases, else |-> else]
List(item, sep) == [k |-> "list", item |-> item, sep |-> sep, acc |-> <<>>]
Members(item) == [k |-> "members", item |-> item, acc |-> <<>>]
Until(t, item) == [k |-> "until", t |-> t, item |-> item, acc |-> <<>>]
Repeat(t, item) == [k |-> "repeat", t |-> t, item |-> item, acc |-> <<>>]
Left(next, ops) == [k |-> "left", next |-> next, ops |-> ops, acc |-> <<>>]

Literal == [k |-> "literal"]                              \* a token that is a value
Expression == Rule("assignment")
Type == Rule("type")
Pattern == Rule("pattern")
Block == Rule("block")
TypeParams == Rule("type parameters")
Contract == Rule("contract")
Arguments == Unless({")"}, List(Expression, ","))
Fields(item) == Unless({")"}, List(item, ","))

-----------------------------------------------------------------------------
(* Declarations *)
Attributes ==
    Repeat("#", Node("attribute", <<Token("["), Name, Maybe("(", <<Arguments, Token(")")>>), Token("]")>>))

LetDeclaration ==
    Node("let", <<Flag("mut"), When({"(", "["}, Pattern, Name), Maybe(":", <<Type>>),
                  Maybe("=", <<Expression>>), Skip(";")>>)

TypeAliasDeclaration == Node("type", <<Name, TypeParams, Token("="), Type, Skip(";")>>)

Parameters ==
    Fields(Node("parameter", <<Name, Maybe(":", <<Type>>), Maybe("=", <<Expression>>)>>))

FunctionDeclaration ==
    Node("fn", <<Name, TypeParams, Token("("), Parameters, Token(")"), Maybe("->", <<Type>>),
                 Contract, Token("{"), Block>>)

ParseContract == Node("contract", <<Repeat("requires", Expression), Repeat("ensures", Expression)>>)

StructDeclaration ==
    Node("struct", <<Name, TypeParams, Token("{"),
                     Members(Node("field", <<Flag("pub"), Name, Token(":"), Type>>)), Token("}")>>)

EnumDeclaration ==
    Node("enum", <<Name, TypeParams, Token("{"),
                   Members(Node("variant", <<Name, Maybe("(", <<Fields(Type), Token(")")>>)>>)), Token("}")>>)

\* a parameter of a trait method may be missing
TraitMethod ==
    Node("method", <<Name, Token("("),
                     Fields(When(Identifiers, Node("parameter", <<Name, Maybe(":", <<Type>>)>>), Node("nothing", <<>>))),
                     Token(")"), Maybe("->", <<Type>>), Contract,
                     Choice(<<<<"{", Node("body", <<Until("}", Rule("declaration")), Token("}")>>)>>>>,
                            Node("no body", <<Skip(";")>>))>>)

\* anything but `fn` is looked at again and again
TraitDeclaration ==
    Node("trait", <<Name, TypeParams, Maybe(":", <<List(Name, "+")>>), Token("{"),
                    Until("}", Choice(<<<<"fn", TraitMethod>>>>, [k |-> "endless"])), Token("}")>>)

ImplDeclaration ==
    Node("impl", <<Name, Maybe("for", <<Name>>), Token("{"),
                   Until("}", Choice(<<<<"invariant", Node("invariant", <<Expression, Skip(";")>>)>>>>,
                                     Node("attributed", <<Attributes,
                                              Choice(<<<<"fn", FunctionDeclaration>>>>, [k |-> "endless"])>>))),
                   Token("}")>>)

ModuleDeclaration == Node("mod", <<Name, Token("{"), Until("}", Rule("declaration")), Token("}")>>)

\* the separator is two Colon tokens, not the ColonColon the lexer makes of `::`
UseDeclaration == Node("use", <<[k |-> "path", acc |-> <<>>], Skip(":"), Skip(";")>>)

ImportDeclaration ==
    LET as == Maybe("as", <<Name>>)
        items == <<List(Node("item", <<Name, as>>), ","), Token("}"), Token("from"), Source, Skip(";")>>
        whole == <<Name, as, Maybe("from", <<Source>>), Skip(";")>>
    IN Choice(<<<<"{", Node("import items", items)>>>>,
              When(TextTokens, Node("import file", <<Source, as, Skip(";")>>), Node("import name", whole)))

ExportDeclaration ==
    Choice(<<<<"{", Node("export items", <<List(Name, ","), Token("}"), Skip(";")>>)>>>>,
           Node("export", <<Choice(<<<<"fn", FunctionDeclaration>>, <<"struct", StructDeclaration>>,
                                     <<"enum", EnumDeclaration>>, <<"type", TypeAliasDeclaration>>,
                                     <<"let", LetDeclaration>>>>, [k |-> "error"])>>))

ProtocolDeclaration == Node("protocol", <<Name, Token("{"), [k |-> "advance"], Token("}")>>)

Declaration ==
    Node("attributed", <<Attributes,
        Choice(<<<<"let", LetDeclaration>>, <<"fn", FunctionDeclaration>>, <<"type", TypeAliasDeclaration>>,
                 <<"struct", StructDeclaration>>, <<"enum", EnumDeclaration>>, <<"trait", TraitDeclaration>>,
                 <<"impl", ImplDeclaration>>, <<"mod", ModuleDeclaration>>, <<"use", UseDeclaration>>,
                 <<"import", ImportDeclaration>>, <<"export", ExportDeclaration>>,
                 <<"pub", ExportDeclaration>>, <<"protocol", ProtocolDeclaration>>>>, Rule("statement"))>>)

-----------------------------------------------------------------------------
(* Statements *)
IfStatement ==
    Node("if", <<Expression, Token("{"), Block,
                 Maybe("else", <<Choice(<<<<"if", Rule("if")>>>>, Node("else", <<Token("{"), Block>>))>>)>>)

WhileStatement == Node("while", <<Expression, Token("{"), Block>>)
LoopStatement == Node("loop", <<Token("{"), Block>>)
ForInStatement == Node("for", <<Name, Token("in"), Expression, Token("{"), Block>>)
DeferStatement == Node("defer", <<Expression, Skip(";")>>)

Statement ==
    Choice(<<<<"return", Node("return", <<Unless({";", "}"}, Expression), Skip(";")>>)>>,
             <<"if", Rule("if")>>, <<"while", WhileStatement>>, <<"loop", LoopStatement>>,
             <<"for", ForInStatement>>, <<"defer", DeferStatement>>,
             <<"break", Node("break", <<Skip(";")>>)>>,
             <<"continue", Node("continue", <<Skip(";")>>)>>>>,
           Node("expression", <<Expression, Skip(";")>>))

ParseBlock == Node("block", <<Until("}", Rule("declaration")), Token("}")>>)

-----------------------------------------------------------------------------
(* Patterns and types *)
ParsePattern ==
    LET fields == Maybe("(", <<Fields(Pattern), Token(")")>>)
        named == Node("field pattern", <<Name, Token(":"), Pattern>>)
        qualified == Node("qualified", <<Name, fields>>)
        struct == Node("struct pattern", <<Unless({"}"}, List(named, ",")), Token("}")>>)
        variant == Node("variant pattern", <<Fields(Pattern), Token(")")>>)
    IN Choice(<<<<"_", Node("wildcard", <<>>)>>,
                <<"[", Node("array pattern", <<Unless({"]"}, List(Pattern, ",")), Token("]")>>)>>,
                <<"(", Node("tuple pattern", <<Fields(Pattern), Token(")")>>)>>>>,
              When(LiteralTokens, Literal,
                   Node("binding", <<Name, Choice(<<<<"::", qualified>>, <<"(", variant>>, <<"{", struct>>>>,
                                                  Node("plain", <<>>))>>)))

\* brackets after a name are read and forgotten, except after Array
SingleType ==
    Node("named", <<Name, Choice(<<<<"<", Node("generic", <<List(Type, ","), Token(">"), Flag("?")>>)>>>>,
                                 Node("simple", <<[k |-> "brackets"], Flag("?")>>))>>)

ParseType == [Left("single type", {"|"}) EXCEPT !.k = "union"]

ParseTypeParams ==
    Maybe("<", <<List(Node("type parameter", <<Name, Maybe(":", <<List(Name, "+")>>)>>), ","), Token(">")>>)

-----------------------------------------------------------------------------
(* Expressions: every level reads the next tighter one first *)
PrimaryExpression ==
    LET path == Choice(<<<<"::", Node("variant", <<Name, Maybe("(", <<Arguments, Token(")")>>)>>)>>>>,
                       Node("plain", <<>>))
    IN When(LiteralTokens, Literal,
       When(Identifiers, Node("identifier", <<Name, path>>),
       Choice(<<<<"(", Choice(<<<<")", Node("unit", <<>>)>>>>, Node("parentheses", <<Expression, Token(")")>>))>>,
                <<"[", Node("array", <<Unless({"]"}, List(Expression, ",")), Token("]")>>)>>,
                <<"map", Node("map", <<Token("{"), [k |-> "map"]>>)>>>>,
              [k |-> "braces"])))

MapContents ==
    Node("map literal", <<Unless({"}"}, List(Node("pair", <<Expression, Token(":"), Expression>>), ",")), Token("}")>>)

MatchExpression ==
    Node("match", <<Expression, Token("{"),
                    Until("}", Node("arm", <<Pattern, Maybe("if", <<Expression>>), Token("=>"), Expression, Skip(",")>>)),
                    Token("}")>>)

Grammar(r) ==
    CASE r = "declaration" -> Declaration [] r = "statement" -> Statement [] r = "if" -> IfStatement
      [] r = "block" -> ParseBlock [] r = "contract" -> ParseContract [] r = "type parameters" -> ParseTypeParams
      [] r = "pattern" -> ParsePattern [] r = "type" -> ParseType [] r = "single type" -> SingleType
      [] r = "primary" -> PrimaryExpression [] r = "match" -> MatchExpression
      [] r = "pipe" -> [Left("null_coalesce", {"|>"}) EXCEPT !.k = "pipe"]
      [] r = "null_coalesce" -> Left("or", {"??"})
      [] r = "or" -> Left("and", {"||"})
      [] r = "and" -> Left("equality", {"&&"})
      [] r = "equality" -> Left("comparison", {"==", "!="})
      [] r = "comparison" -> Left("range", {"<", "<=", ">", ">="})
      [] r = "term" -> Left("factor", {"+", "-"})
      [] r = "factor" -> Left("unary", {"*", "/", "%"})
      [] OTHER -> [k |-> r]   \* assignment, range, unary, call

-----------------------------------------------------------------------------
(* What becomes of the trees that were read *)

\* only functions, structs, enums, and exports of them, keep their attributes
Attributed(attributes, tree) ==
    CASE tree.node \in {"fn", "struct", "enum"} -> [tree EXCEPT !.parts = <<attributes>> \o @]
      [] tree.node = "export" /\ tree.parts[1].node \in {"fn", "struct", "enum"} ->
            [tree EXCEPT !.parts[1].parts = <<attributes>> \o @]
      [] OTHER -> tree

\* binding patterns: a capital letter makes a unit variant
Bound(name, rest) ==
    CASE rest.node = "qualified" -> Tree("variant pattern", name.text, rest.parts)
      [] rest.node = "variant pattern" -> Tree("variant pattern", "", <<name>> \o rest.parts)
      [] rest.node = "struct pattern" -> Tree("struct pattern", name.text, rest.parts)
      [] name.text \in Capitalized -> Tree("variant pattern", "", <<name, Missing>>)
      [] OTHER -> Tree("variable", name.text, <<>>)

Optional(tree, flag) == IF flag.text = "yes" THEN Tree("optional", "", <<tree>>) ELSE tree
Typed(name, rest) ==
    IF rest.node = "generic"
    THEN Optional(Tree("generic", name.text, <<rest.parts[1]>>), rest.parts[2])
    ELSE Optional(Tree("type name", name.text, <<>>), rest.parts[1])

Made(node, parts) ==
    CASE node = "attributed" -> Attributed(parts[1], parts[2])
      [] node = "binding" -> Bound(parts[1], parts[2])
      [] node = "named" -> Typed(parts[1], parts[2])
      [] node = "identifier" ->
            IF parts[2].node = "variant" THEN Tree("enum variant", parts[1].text, parts[2].parts) ELSE parts[1]
      [] node \in {"parentheses", "map"} -> parts[1]
      [] OTHER -> Tree(node, "", parts)

\* mutant: the value comes last
PipedLast(left, right) ==
    CASE right.node = "call" -> Tree("call", "", <<right.parts[1], Listed(Append(right.parts[2].parts, left))>>)
      [] right.node = "name" -> Tree("call", "", <<right, Listed(<<left>>)>>)
      [] OTHER -> Tree("refused", "", <<>>)

\* x |> f(a) is f(x, a), x |> f is f(x); anything else is refused
Piped(left, right) ==
    CASE right.node = "call" -> Tree("call", "", <<right.parts[1], Listed(<<left>> \o right.parts[2].parts)>>)
      [] right.node = "name" -> Tree("call", "", <<right, Listed(<<left>>)>>)
      [] OTHER -> Tree("refused", "", <<>>)

\* { } or { name: after an identifier is a struct literal
IsStructLiteral(toks, at) ==
    /\ Peek(toks, at) = "{"
    /\ \/ Peek(toks, at + 1) = "}"
       \/ Peek(toks, at + 1) \in Identifiers /\ Peek(toks, at + 2) = ":"

\* { }, { name: or { "text": inside a map literal is a map
IsNestedMapLiteral(toks, at) ==
    /\ Peek(toks, at) = "{"
    /\ \/ Peek(toks, at + 1) = "}"
       \/ Peek(toks, at + 1) \in Identifiers \cup TextTokens /\ Peek(toks, at + 2) = ":"

Clauses(item, toks, at) == {i \in DOMAIN item.cases : item.cases[i][1] = Peek(toks, at)}

(***************************************************************************)
(* One rule from one position; inMap is in_map_context.                    *)
(***************************************************************************)
RECURSIVE Parse(_, _, _, _)

InOrder(items, toks, from, inMap) ==
    FoldLeft(LAMBDA r, item :
                IF ~r.ok THEN r
                ELSE LET one == Parse(item, toks, r.at, inMap)
                     IN CASE ~one.ok -> one
                          [] item.k \in {"token", "skip", "advance", "brackets"} -> [r EXCEPT !.at = one.at]
                          [] OTHER -> Read(Listed(Append(r.tree.parts, one.tree)), one.at),
             Read(Listed(<<>>), from), items)

\* after one element of a loop: again from `next`, or the list is complete
Again(item, one, goesOn, next, toks, inMap) ==
    CASE ~one.ok -> one
      [] goesOn -> Parse([item EXCEPT !.acc = Append(@, one.tree)], toks, next, inMap)
      [] OTHER -> Read(Listed(Append(item.acc, one.tree)), one.at)

\* `one` is the operand just read: the tree so far is the only element of acc
Operand(item, one, toks, inMap) ==
    LET op == Head(item.acc)
        tree == IF item.acc = <<>> THEN one.tree
                ELSE IF item.k = "pipe" THEN Piped(item.acc[2], one.tree)
                ELSE IF item.k = "union" THEN Tree("union", "", Append(item.acc[2].parts, one.tree))
                ELSE Tree("binary", op.text, <<item.acc[2], one.tree>>)
        seen == IF item.k = "union" /\ item.acc = <<>> THEN Tree("union", "", <<tree>>) ELSE tree
        more == Peek(toks, one.at) \in item.ops
    IN CASE ~one.ok -> one
         [] tree.node = "refused" -> Failed
         [] more -> Parse([item EXCEPT !.acc = <<Tree("op", toks[one.at], <<>>), seen>>], toks, one.at + 1, inMap)
         [] OTHER -> Read(tree, one.at)

\* at most one operator of a level: x = (y = z), a..b
Followed(one, node, ops, rest, toks, inMap) ==
    IF ~one.ok \/ Peek(toks, one.at) \notin ops THEN one
    ELSE LET right == Parse(Rule(rest), toks, one.at + 1, inMap)
         IN IF right.ok THEN Read(Tree(node, toks[one.at], <<one.tree, right.tree>>), right.at) ELSE right

Unary(t, toks, at, inMap) ==
    IF t \notin {"!", "-"} THEN Parse(Rule("call"), toks, at, inMap)
    ELSE LET one == Parse(Rule("unary"), toks, at + 1, inMap)
         IN IF one.ok THEN Read(Tree("unary", t, <<one.tree>>), one.at) ELSE one

\* what follows a primary expression: calls, struct literals, members, indices
Suffix(toks, at, tree) ==
    CASE Peek(toks, at) = "(" -> Node("call", <<Token("("), Arguments, Token(")")>>)
      [] Peek(toks, at) = "{" /\ tree.node = "name" /\ IsStructLiteral(toks, at) ->
            Node("struct literal", <<Token("{"),
                   Unless({"}"}, List(Node("field", <<Name, Token(":"), Expression>>), ",")), Token("}")>>)
      [] Peek(toks, at) = "." -> Node("member", <<Token("."), Name, Maybe("(", <<Arguments, Token(")")>>)>>)
      [] Peek(toks, at) = "[" -> Node("index", <<Token("["), Expression, Token("]")>>)
      [] OTHER -> [k |-> "none"]

Called(one, suffix, rest, toks, inMap) ==
    CASE ~one.ok \/ suffix.k = "none" -> one
      [] ~rest.ok -> rest
      [] OTHER -> Parse([k |-> "postfix", one |-> Read(Tree(rest.tree.node, "", <<one.tree>> \o rest.tree.parts), rest.at)],
                        toks, rest.at, inMap)

Parse(item, toks, at, inMap) ==
    LET t == Peek(toks, at) IN
    CASE item.k = "token" -> IF t = item.t THEN Read(Missing, at + 1) ELSE Failed
      [] item.k = "name" -> IF t \in Identifiers THEN Read(Tree("name", t, <<>>), at + 1) ELSE Failed
      [] item.k = "literal" -> Read(Tree("literal", t, <<>>), at + 1)
      [] item.k = "source" -> IF t \in TextTokens THEN Read(Tree("source", t, <<>>), at + 1)
                              ELSE Parse(Node("source path", <<List(Name, "/")>>), toks, at, inMap)
      [] item.k = "flag" -> Read(Tree("flag", IF t = item.t THEN "yes" ELSE "no", <<>>), IF t = item.t THEN at + 1 ELSE at)
      [] item.k = "skip" -> Read(Missing, IF t = item.t THEN at + 1 ELSE at)
      [] item.k = "brackets" ->
            IF t = "[" /\ toks[at - 1] # "Array" THEN Parse(Token("]"), toks, at + 1, inMap) ELSE Read(Missing, at)
      [] item.k = "advance" -> Read(Missing, Min({Len(toks) + 1} \cup {i \in at..Len(toks) : toks[i] = "}"}))
      [] item.k = "error" -> Failed
      [] item.k = "endless" -> Endless
      [] item.k = "rule" -> Parse(Grammar(item.rule), toks, at, inMap)
      [] item.k = "node" -> LET r == InOrder(item.items, toks, at, inMap)
                            IN IF r.ok THEN Read(Made(item.node, r.tree.parts), r.at) ELSE r
      [] item.k = "maybe" -> IF t = item.t THEN Parse(Node("some", item.items), toks, at + 1, inMap) ELSE Read(Missing, at)
      [] item.k = "unless" -> IF t \in item.ts THEN Read(Listed(<<>>), at) ELSE Parse(item.item, toks, at, inMap)
      [] item.k = "when" -> Parse(IF t \in item.ts THEN item.then ELSE item.else, toks, at, inMap)
      [] item.k = "choice" -> LET i == Clauses(item, toks, at)
                              IN IF i = {} THEN Parse(item.else, toks, at, inMap)
                                 ELSE Parse(item.cases[CHOOSE j \in i : TRUE][2], toks, at + 1, inMap)
      [] item.k = "path" -> LET one == Parse(Name, toks, at, inMap)
                            IN Again(item, one, Peek(toks, one.at) = ":" /\ Peek(toks, one.at + 1) = ":",
                                     one.at + 2, toks, inMap)
      [] item.k = "list" -> LET one == Parse(item.item, toks, at, inMap)
                            IN Again(item, one, Peek(toks, one.at) = item.sep, one.at + 1, toks, inMap)
      [] item.k = "members" ->
            IF t \in {"}", "end of file"} THEN Read(Listed(item.acc), at)
            ELSE LET one == Parse(item.item, toks, at, inMap)
                 IN Again(item, one, Peek(toks, one.at) = ",", one.at + 1, toks, inMap)
      [] item.k = "until" ->
            IF t \in {item.t, "end of file"} THEN Read(Listed(item.acc), at)
            ELSE LET one == Parse(item.item, toks, at, inMap) IN Again(item, one, TRUE, one.at, toks, inMap)
      [] item.k = "repeat" ->
            IF t # item.t THEN Read(Listed(item.acc), at)
            ELSE LET one == Parse(item.item, toks, at + 1, inMap) IN Again(item, one, TRUE, one.at, toks, inMap)
      [] item.k \in {"left", "pipe", "union"} ->
            Operand(item, Parse(Rule(item.next), toks, at, inMap), toks, inMap)
      [] item.k = "assignment" -> Followed(Parse(Rule("pipe"), toks, at, inMap), "assign", {"="}, "assignment", toks, inMap)
      [] item.k = "range" -> Followed(Parse(Rule("term"), toks, at, inMap), "range", {"..", "..="}, "term", toks, inMap)
      [] item.k = "unary" -> Unary(t, toks, at, inMap)
      [] item.k = "call" -> Parse([k |-> "postfix", one |-> Parse(Rule("primary"), toks, at, inMap)], toks, at, inMap)
      [] item.k = "postfix" ->
            LET suffix == Suffix(toks, item.one.at, item.one.tree)
            IN Called(item.one, suffix,
                      IF item.one.ok /\ suffix.k # "none" THEN Parse(suffix, toks, item.one.at, inMap) ELSE Failed, toks, inMap)
      \* the rest of a map literal, read in map context
      [] item.k = "map" ->
            Parse(MapContents, toks, at, TRUE)
      [] item.k = "braces" ->
            CASE inMap /\ IsNestedMapLiteral(toks, at) -> Parse([k |-> "map"], toks, at + 1, inMap)
              [] t = "{" -> Parse(Block, toks, at + 1, inMap)
              [] t = "match" -> Parse(Rule("match"), toks, at + 1, inMap)
              [] OTHER -> Failed

\* parse: declarations to the end of the file
ParseProgram(toks) == Parse(Until("end of file", Rule("declaration")), toks, 1, FALSE)
=============================================================================
