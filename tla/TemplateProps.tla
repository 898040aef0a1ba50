---------------------------- MODULE TemplateProps ----------------------------
(***************************************************************************)
(* Templates are written out and rendered, and values are filtered. A      *)
(* shape: <<"template", nodes>> or <<"filters", value, filter, ...>>. A    *)
(* node: <<"piece", piece>>, <<"comment", pieces>>, <<"escaped", tag>>,    *)
(* <<"for", name, variable, nodes, nodes>> (of {{#empty}}), <<"if",        *)
(* <<variable, nodes>>, ..., nodes>> (of {{#else}}).                       *)
(***************************************************************************)
EXTENDS Samples, Template

CONSTANTS MaxNodes, MaxFilters

Env == ("x" :> StrV(<<"a", "<">>)) @@ ("yes" :> BoolV(TRUE)) @@ ("no" :> StrV(<<>>))
       @@ ("items" :> ArrV(<<IntV(0), IntV(1)>>)) @@ ("none" :> ArrV(<<>>))
       @@ ("pairs" :> <<"Map", <<<<<<"k">>, IntV(1)>>>>>>)

PieceNode(c) == <<"piece", <<"text", c>>>>
Show1(name, filters) == <<"piece", <<"show", name, filters>>>>

Leaves ==
    {PieceNode("a"), PieceNode("e'"), Show1("x", <<>>), Show1("u", <<<<"default", StrV(<<"d">>)>>>>), Show1("@index1", <<>>),
     <<"comment", <<<<"text", "a">>, <<"show", "x", <<>>>>>>>>, <<"comment", <<<<"/if">>>>>>, <<"escaped", <<"/for">>>>,
     <<"escaped", <<"show", "x", <<>>>>>>}

BlocksOf(nodes) ==
    LET a == <<PieceNode("b")>>
        c == <<PieceNode("c")>>
    IN {<<"for", "x", "items", nodes, <<>>>>, <<"for", "x", "none", a, nodes>>, <<"for", "x", "pairs", nodes, a>>,
        <<"for", "x", "yes", nodes, <<>>>>, <<"if", <<"yes", nodes>>, <<>>>>, <<"if", <<"no", a>>, nodes>>,
        <<"if", <<"no", a>>, <<"yes", nodes>>, <<"u", a>>, c>>, <<"if", <<"@first", nodes>>, <<"yes", a>>, c>>,
        <<"if", <<"no", nodes>>, <<"no", a>>, c>>}

Branches(node) == SubSeq(node, 2, Len(node) - 1)

RECURSIVE WriteOut(_)
WriteOut(nodes) ==
    FoldLeft(LAMBDA out, n : out \o
        CASE n[1] = "piece" -> <<n[2]>>
          [] n[1] = "comment" -> <<<<"{{!">>>> \o n[2] \o <<<<"}}">>>>
          [] n[1] = "escaped" -> <<<<"\\">>, n[2]>>
          [] n[1] = "for" -> <<<<"#for", n[2], n[3]>>>> \o WriteOut(n[4])
                             \o (IF n[5] = <<>> THEN <<>> ELSE <<<<"#empty">>>> \o WriteOut(n[5])) \o <<<<"/for">>>>
          [] n[1] = "if" -> FlattenSeq([i \in DOMAIN Branches(n) |->
                                <<<<IF i = 1 THEN "#if" ELSE "#elif", Branches(n)[i][1]>>>> \o WriteOut(Branches(n)[i][2])])
                            \o (IF Last(n) = <<>> THEN <<>> ELSE <<<<"#else">>>> \o WriteOut(Last(n))) \o <<<<"/if">>>>,
        <<>>, nodes)

-----------------------------------------------------------------------------
(* What the nodes say *)
RECURSIVE Meaning(_, _)
Truth(name, env) == IF name \in DOMAIN env THEN Truthy(env[name]) ELSE FALSE

\* one after another, to the first that cannot be shown
Together(outcomes) ==
    LET bad == {i \in DOMAIN outcomes : ~outcomes[i].ok}
    IN IF bad # {} THEN outcomes[Min(bad)] ELSE Done(FlattenSeq([i \in DOMAIN outcomes |-> outcomes[i].value]))

Taken(node, env) ==
    LET chosen == {i \in DOMAIN Branches(node) : Truth(Branches(node)[i][1], env)}
        missing == {i \in DOMAIN Branches(node) : Branches(node)[i][1] \notin DOMAIN env}
        first == Min({Len(node)} \cup chosen)
    IN IF \E i \in missing : i < first THEN Undefined
       ELSE Meaning(IF chosen = {} THEN Last(node) ELSE Branches(node)[first][2], env)

Meaning(nodes, env) ==
    Together([i \in DOMAIN nodes |->
        LET n == nodes[i] IN
        CASE n[1] = "comment" -> Done(<<>>)
          [] n[1] = "escaped" -> Done(<<n[2]>>)
          [] n[1] = "if" -> Taken(n, env)
          [] n[1] = "for" ->
                LET items == Items(env[n[3]])
                IN IF env[n[3]][1] \notin {"Array", "Map"} THEN Failing
                   ELSE IF items = <<>> THEN Meaning(n[5], env)
                   ELSE Together([k \in DOMAIN items |->
                            Meaning(n[4], ("@first" :> BoolV(k = 1)) @@ ("@index1" :> IntV(k)) @@ (n[2] :> items[k]) @@ env)])
          [] n[2][1] = "text" -> Done(<<n[2]>>)
          [] n[2][2] = "u" -> Done(Characters(<<"d">>))
          [] n[2][2] \notin DOMAIN env -> Undefined
          [] OTHER -> Done(Characters(Text(env[n[2][2]])))])

Inner(node) ==   \* the lists of nodes of a block
    CASE node[1] = "for" -> {node[4], node[5]}
      [] node[1] = "if" -> {Last(node)} \cup {b[2] : b \in ToSet(Branches(node))}
      [] OTHER -> {}

\* a node of a kind, at any depth
RECURSIVE Has(_, _)
Has(nodes, kinds) ==
    \E n \in ToSet(nodes) : n[1] \in kinds \/ \E inner \in Inner(n) : Has(inner, kinds)
\* <<block, nodes in it>>, at any depth
RECURSIVE Held(_)
Held(nodes) == UNION {{<<n, inner>> : inner \in Inner(n)} \cup UNION {Held(inner) : inner \in Inner(n)} : n \in ToSet(nodes)}

\* a tag of a block that is in a comment or escaped
Mentions(nodes) ==
    \E n \in ToSet(nodes) : \E h \in Held(<<n>>) \cup {<<n, <<n>>>>} : \E k \in ToSet(h[2]) :
        k \in {<<"comment", <<<<"/if">>>>>>, <<"escaped", <<"/for">>>>}
RECURSIVE HasWide(_)
HasWide(nodes) ==
    \E n \in ToSet(nodes) : n = PieceNode("e'") \/ \E inner \in Inner(n) : HasWide(inner)

NestsItself == \E h \in Held(shape[2]) : Has(h[2], {h[1][1]})
HidesTags == \E h \in Held(shape[2]) : Mentions(h[2])
HoldsWide == \E h \in Held(shape[2]) : HasWide(h[2])

(* A template shows what its blocks say, wherever they stand: every item    *)
(* its body, nothing its {{#empty}}, the first branch that holds; comments  *)
(* vanish and escaped tags stay. Except that a block in a block of its kind *)
(* is cut at the first end, a tag that is only mentioned in a block may end *)
(* it, and a character of two bytes in a block stops the program.           *)
(* (parse_template_content, parse_if_block_content, eval_template_parts.)   *)
BlocksShow ==
    Family = "template" /\ ~NestsItself /\ ~HidesTags =>
        RenderTemplate(WriteOut(shape[2]), Env) = IF HoldsWide THEN Panic ELSE Meaning(shape[2], Env)

(* lexer.rs:664, "Find matching closing tag, respecting nested blocks". *)
NestedBlocksMatch ==
    Family = "template" /\ ~HidesTags /\ ~HoldsWide =>
        RenderTemplate(WriteOut(shape[2]), Env) = Meaning(shape[2], Env)
-----------------------------------------------------------------------------
(* Filters *)
StartValues ==
    {StrV(<<"a", "<">>), StrV(<<"e'", " ">>), StrV(<<"&", "'">>), StrV(<<>>), ArrV(<<IntV(7), StrV(<<"a">>)>>), ArrV(<<>>), Unit}

SomeFilters ==
    {<<name>> : name \in {"uppercase", "lowercase", "capitalize", "trim", "escape", "default", "length", "first", "last",
                          "reverse", "join", "raw", "slice"}}
    \cup {<<"truncate", IntV(n)>> : n \in {1, -1}} \cup {<<"default", StrV(<<"<", "d">>)>>, <<"slice", IntV(1)>>,
          <<"slice", IntV(0), IntV(-1)>>, <<"replace", StrV(<<"a">>), StrV(<<"b", "a">>)>>, <<"replace", StrV(<<>>), StrV(<<"-">>)>>}

Filtered == FoldLeft(LAMBDA r, f : IF r.ok THEN ApplyFilter(r.value, f) ELSE r, Done(shape[2]), SubSeq(shape, 3, Len(shape)))
Applied(v, filter) == ApplyFilter(v, filter).value

\* character by character
Entity(c) == IF \E e \in ToSet(Entities) : e[1] = c THEN (CHOOSE e \in ToSet(Entities) : e[1] = c)[2] ELSE <<c>>

EscapedSince ==   \* escape, and nothing after it that writes text of its own
    \E i \in 3..Len(shape) : shape[i] = <<"escape">> /\ \A j \in (i + 1)..Len(shape) : shape[j][1] \notin {"replace", "default"}

(* Filters keep their laws wherever a chain has led: what was escaped stays *)
(* free of markup; escaping is done once for each character; a list is its  *)
(* two slices; the last element is the first of the reverse; truncate keeps *)
(* n bytes and the ellipsis, or all when n is negative, and stops the       *)
(* program only within a character. (apply_template_filter.)                *)
FiltersKeepTheirLaws ==
    Family = "filters" =>
        LET v == Filtered.value
            text == Text(v)
        IN IF ~Filtered.ok THEN Filtered.end = "panic" => "e'" \in ToSet(Text(shape[2]))
           ELSE /\ EscapedSince => {"<", ">", "\""} \cap ToSet(text) = {}
                /\ Escape(text) = FlattenSeq([i \in DOMAIN text |-> Entity(text[i])])
                /\ v[1] \in {"String", "Array"} =>
                      /\ \A n \in 0..Len(v[2]) :
                            Applied(v, <<"slice", IntV(0), IntV(n)>>)[2] \o Applied(v, <<"slice", IntV(n)>>)[2] = v[2]
                      /\ Applied(v, <<"last">>) = Applied(Applied(v, <<"reverse">>), <<"first">>)
                /\ \A n \in 0..3 :
                      LET cut == ApplyFilter(v, <<"truncate", IntV(n)>>)
                      IN cut.ok => \/ cut.value = StrV(text) /\ ByteLength(text) <= n
                                   \/ ByteLength(cut.value[2]) = n + 3 /\ IsPrefix(SubSeq(cut.value[2], 1, Len(cut.value[2]) - 3), text)
                /\ Applied(v, <<"truncate", IntV(-1)>>) = StrV(text)

-----------------------------------------------------------------------------
(* Filter chains as they are written: <<"chain", expression, filter, ...>>, *)
(* a filter its name and arguments. *)
Operands == {<<"a">>, <<"a", "|", "|", "b">>, <<"f", "(", "a", ",", "b", "|", "b", ")">>, <<"\"", "|", ",", "\"">>,
             <<"'", "\"", "'">>, <<"\"", "\\", "\"", "|", "\"">>, <<"\"", "\\", "\\", "\"">>}
Calls == {<<<<"f">>>>} \cup {<<<<"f">>, o>> : o \in Operands} \cup {<<<<"f">>, o, <<"a">>>> : o \in Operands}
         \cup {<<<<"f">>, <<"a">>, o>> : o \in Operands}
InRow(rows, sep) == Tail(FlattenSeq([i \in DOMAIN rows |-> <<sep>> \o rows[i]]))
WriteCall(call) == IF Len(call) = 1 THEN call[1] ELSE call[1] \o <<"(">> \o InRow(Tail(call), ",") \o <<")">>

EndsWithBackslash(o) == o = <<"\"", "\\", "\\", "\"">>
HasComma(o) == o = <<"f", "(", "a", ",", "b", "|", "b", ")">>

(* The filters of an expression and their arguments are those written, with *)
(* bars and commas in strings and calls. Except that a string whose last    *)
(* character is an escaped backslash does not end for the bars after it, and *)
(* a comma of a call within an argument separates two. (parse_filter_chain,  *)
(* split_filter_args.)                                                       *)
ChainsReadBack ==
    Family = "chain" =>
        LET calls == SubSeq(shape, 3, Len(shape))
            operands(call) == IF Len(call) = 1 THEN {} ELSE ToSet(Tail(call))
            all == {shape[2]} \cup UNION {operands(c) : c \in ToSet(calls)}
            text == InRow(<<shape[2]>> \o [i \in DOMAIN calls |-> WriteCall(calls[i])], "|")
        IN ~(\E o \in all : EndsWithBackslash(o)) /\ ~(\E c \in ToSet(calls) : \E o \in operands(c) : HasComma(o)) =>
              ParseFilterChain(text) = <<shape[2]>> \o calls

(* A template shows what is written in it. *)
TemplatesShow == BlocksShow /\ FiltersKeepTheirLaws /\ ChainsReadBack

TemplateStarts == {<<"template", <<>>>>} \cup {<<"chain", o>> : o \in Operands} \cup {<<"filters", v>> : v \in StartValues}
TemplateGrows ==
    \/ /\ Family = "template" /\ Len(shape) <= MaxNodes + 1
       /\ \E nodes \in {Append(shape[2], l) : l \in Leaves} \cup {<<b>> : b \in BlocksOf(shape[2])} :
             shape' = <<"template", nodes>> \o SubSeq(shape, 3, Len(shape)) \o <<"grown">>
    \/ /\ Family = "filters" /\ Len(shape) <= MaxFilters + 1
       /\ \E f \in SomeFilters : Piece(f)
    \/ /\ Family = "chain" /\ Len(shape) <= MaxFilters
       /\ \E call \in Calls : Piece(call)
=============================================================================
