------------------------------ MODULE Template -------------------------------
(***************************************************************************)
(* Templates: the blocks of a template text (src/src/lexer.rs), the text   *)
(* they show and the filters of what is shown (src/src/interpreter.rs).    *)
(*                                                                         *)
(* A text is a sequence of pieces: <<"text", character>>, a whole tag such *)
(* as <<"#for", name, variable>> or <<"/if">>, <<"show", variable,         *)
(* filters>> for {{variable | filter | ...}}, and the marks <<"{{!">> and  *)
(* <<"}}">> of a comment, <<"\\">> and <<"quotes">> (three double quotes). *)
(* Expressions are variables.                                              *)
(***************************************************************************)
EXTENDS Integers, Sequences, FiniteSets, SequencesExt, TLC

CONSTANTS
    Wide,      \* characters of two bytes, the others have one
    Upper      \* character -> its upper case, for those that have another one

ASSUME TemplateAssumption == \A c \in DOMAIN Upper : Upper[c] \notin DOMAIN Upper

IsTag(text, i, kinds) == i \in DOMAIN text /\ text[i][1] \in kinds
FirstTag(text, from, kinds) == Min({Len(text) + 1} \cup {i \in from..Len(text) : text[i][1] \in kinds})

-----------------------------------------------------------------------------
(* The blocks of a text. The searches look at every tag, of comments and    *)
(* escaped ones too; depth counts the blocks of both kinds.                 *)
Depth(text, i) ==
    Cardinality({j \in 1..i : text[j][1] \in {"#for", "#if"}}) - Cardinality({j \in 1..i : text[j][1] \in {"/for", "/if"}})

\* the opening tag that is counted is {{#for}, which no tag begins with
MatchingEnd(text, kind) == FirstTag(text, 1, {kind})

AtLevel(text, kinds) == {i \in DOMAIN text : text[i][1] \in kinds /\ Depth(text, i - 1) = 0}

\* the search goes on byte by byte and stops the program within a character
CutsCharacter(text, end) == \E i \in 1..(end - 1) : text[i][1] = "text" /\ text[i][2] \in Wide

Verbatim(piece) == <<"literal", piece>>

RECURSIVE ParseContent(_)

ParseForBlock(tag, block) ==
    LET empty == Min({Len(block) + 1} \cup AtLevel(block, {"#empty"}))
    IN <<"for", tag[2], tag[3], ParseContent(SubSeq(block, 1, empty - 1)),
         ParseContent(SubSeq(block, empty + 1, Len(block)))>>

\* sections, each to the next one; the last {{#else}} counts
ParseIfBlock(tag, block) ==
    LET marks == SetToSortSeq(AtLevel(block, {"#elif", "#else"}), <) \o <<Len(block) + 1>>
        sections == [n \in 1..(Len(marks) - 1) |->
                        [tag |-> block[marks[n]], parts |-> ParseContent(SubSeq(block, marks[n] + 1, marks[n + 1] - 1))]]
        elifs == SelectSeq(sections, LAMBDA x : x.tag[1] = "#elif")
        elses == SelectSeq(sections, LAMBDA x : x.tag[1] = "#else")
    IN <<"if", <<<<tag[2], ParseContent(SubSeq(block, 1, marks[1] - 1))>>>>
                 \o [n \in DOMAIN elifs |-> <<elifs[n].tag[2], elifs[n].parts>>],
         IF elses = <<>> THEN <<>> ELSE Last(elses).parts>>

ParseContent(text) ==
    IF text = <<>> THEN <<>>
    ELSE
    LET tag == Head(text)
        rest == Tail(text)
        end == MatchingEnd(rest, IF tag[1] = "#for" THEN "/for" ELSE "/if")
        block == SubSeq(rest, 1, end - 1)
        opens == tag[1] = "#if" \/ (tag[1] = "#for" /\ Len(tag) = 3)
    IN CASE opens /\ CutsCharacter(rest, end) -> <<<<"panic">>>>
         [] opens /\ end <= Len(rest) ->
              <<IF tag[1] = "#for" THEN ParseForBlock(tag, block) ELSE ParseIfBlock(tag, block)>>
              \o ParseContent(SubSeq(rest, end + 1, Len(rest)))
         [] tag[1] = "{{!" ->
              LET close == FirstTag(rest, 1, {"}}"}) IN ParseContent(SubSeq(rest, close + 1, Len(rest)))
         [] tag[1] = "\\" /\ rest # <<>> /\ Head(rest)[1] \notin {"text", "\\"} ->
              <<Verbatim(Head(rest))>> \o ParseContent(Tail(rest))
         [] tag[1] = "show" -> <<tag>> \o ParseContent(rest)
         [] OTHER -> <<Verbatim(tag)>> \o ParseContent(rest)   \* text, and tags of no block

-----------------------------------------------------------------------------
(* The text of {{ }}, characters: an expression and its filters *)
Quotes == {"\"", "'"}
Segments(chars, cuts) ==   \* between the cuts
    LET marks == SetToSortSeq(cuts \cup {0, Len(chars) + 1}, <)
    IN [n \in 1..(Len(marks) - 1) |-> SubSeq(chars, marks[n] + 1, marks[n + 1] - 1)]

\* a bar that is not doubled, in parentheses or in a string; a quote after a backslash ends none
FilterCuts(expr) ==
    FoldLeft(LAMBDA r, i :
                LET c == expr[i] IN
                CASE r.quote # "" -> IF c = r.quote /\ expr[i - 1] # "\\" THEN [r EXCEPT !.quote = ""] ELSE r
                  [] r.skip = i -> r
                  [] c \in Quotes -> [r EXCEPT !.quote = c]
                  [] c = "(" -> [r EXCEPT !.depth = @ + 1]
                  [] c = ")" -> [r EXCEPT !.depth = @ - 1]
                  [] c = "|" /\ r.depth = 0 ->
                        IF i < Len(expr) /\ expr[i + 1] = "|" THEN [r EXCEPT !.skip = i + 1] ELSE [r EXCEPT !.cuts = @ \cup {i}]
                  [] OTHER -> r,
             [quote |-> "", skip |-> 0, depth |-> 0, cuts |-> {}], [i \in DOMAIN expr |-> i]).cuts

\* a comma outside a string; a backslash in one hides the next character
SplitFilterArgs(chars) ==
    LET cuts == FoldLeft(LAMBDA r, i :
                    LET c == chars[i] IN
                    CASE r.skip = i -> r
                      [] r.quote # "" /\ c = "\\" -> [r EXCEPT !.skip = i + 1]
                      [] r.quote # "" -> IF c = r.quote THEN [r EXCEPT !.quote = ""] ELSE r
                      [] c \in Quotes -> [r EXCEPT !.quote = c]
                      [] c = "," -> [r EXCEPT !.cuts = @ \cup {i}]
                      [] OTHER -> r,
                 [quote |-> "", skip |-> 0, cuts |-> {}], [i \in DOMAIN chars |-> i]).cuts
        args == Segments(chars, cuts)
    IN IF Last(args) = <<>> THEN Front(args) ELSE args

FilterCall(chars) ==
    LET open == Min({Len(chars) + 1} \cup {i \in DOMAIN chars : chars[i] = "("})
    IN IF open > Len(chars) \/ Last(chars) # ")" THEN <<chars>>
       ELSE <<SubSeq(chars, 1, open - 1)>> \o SplitFilterArgs(SubSeq(chars, open + 1, Len(chars) - 1))

ParseFilterChain(expr) ==
    LET parts == Segments(expr, FilterCuts(expr))
        filters == SelectSeq(Tail(parts), LAMBDA p : p # <<>>)
    IN <<Head(parts)>> \o [n \in DOMAIN filters |-> FilterCall(filters[n])]

-----------------------------------------------------------------------------
(* Values, and their text, a sequence of characters *)
StrV(chars) == <<"String", chars>>
IntV(n) == <<"Int", n>>
BoolV(b) == <<"Bool", b>>
ArrV(values) == <<"Array", values>>
Unit == <<"Unit">>

RECURSIVE Text(_)
Text(v) ==
    CASE v[1] = "String" -> v[2]
      [] v[1] = "Array" ->
            <<"[">> \o FoldLeft(LAMBDA out, x : out \o (IF out = <<>> THEN <<>> ELSE <<",", " ">>) \o Text(x), <<>>, v[2]) \o <<"]">>
      [] v[1] = "Unit" -> <<"(", ")">>
      [] v[1] = "Map" -> <<"map">>
      [] OTHER -> <<ToString(v[2])>>

Truthy(v) ==
    CASE v[1] = "Bool" -> v[2] [] v[1] = "Unit" -> FALSE [] v[1] \in {"String", "Array", "Map"} -> v[2] # <<>> [] OTHER -> TRUE

Done(v) == [ok |-> TRUE, end |-> "done", value |-> v]
Failing == [ok |-> FALSE, end |-> "error", value |-> Unit]
Undefined == [Failing EXCEPT !.end = "undefined"]
Panic == [Failing EXCEPT !.end = "panic"]

-----------------------------------------------------------------------------
(* Filters: <<name, argument, ...>> *)
ByteLength(chars) == Len(chars) + Len(SelectSeq(chars, LAMBDA c : c \in Wide))
Cased(c, upper) ==
    IF upper THEN IF c \in DOMAIN Upper THEN Upper[c] ELSE c
    ELSE IF \E d \in DOMAIN Upper : Upper[d] = c THEN CHOOSE d \in DOMAIN Upper : Upper[d] = c ELSE c
Trimmed(chars) ==
    LET kept == {i \in DOMAIN chars : chars[i] # " "}
    IN IF kept = {} THEN <<>> ELSE SubSeq(chars, Min(kept), Max(kept))

\* `n as usize`: a negative number is larger than any length
AsUsize(n, largest) == IF n < 0 THEN largest ELSE n

\* bytes are counted, and cut: within a character the program stops
Truncate(chars, n) ==
    LET max == AsUsize(n, ByteLength(chars))
        cuts == {i \in 0..Len(chars) : ByteLength(SubSeq(chars, 1, i)) = max}
    IN IF ByteLength(chars) <= max THEN Done(StrV(chars))
       ELSE IF cuts = {} THEN Panic
       ELSE Done(StrV(SubSeq(chars, 1, CHOOSE i \in cuts : TRUE) \o <<".", ".", ".">>))

\* from the left, one after another; nothing stands between any two characters
ReplaceEach(chars, from, to) ==
    IF from = <<>>
    THEN FoldLeft(LAMBDA out, c : out \o <<c>> \o to, to, chars)
    ELSE FoldLeft(LAMBDA r, i :
                     CASE i < r.next -> r
                       [] IsPrefix(from, SubSeq(chars, i, Len(chars))) -> [out |-> r.out \o to, next |-> i + Len(from)]
                       [] OTHER -> [out |-> Append(r.out, chars[i]), next |-> i + 1],
                  [out |-> <<>>, next |-> 1], [i \in 1..Len(chars) |-> i]).out

Entities == <<<<"&", <<"&", "a", "m", "p", ";">>>>, <<"<", <<"&", "l", "t", ";">>>>, <<">", <<"&", "g", "t", ";">>>>,
              <<"\"", <<"&", "q", "u", "o", "t", ";">>>>, <<"'", <<"&", "#", "x", "2", "7", ";">>>>>>
Escape(chars) == FoldLeft(LAMBDA out, e : ReplaceEach(out, <<e[1]>>, e[2]), chars, Entities)

StringFilter(name, chars, args) ==
    CASE name \in {"uppercase", "lowercase"} -> Done(StrV([i \in DOMAIN chars |-> Cased(chars[i], name = "uppercase")]))
      [] name = "capitalize" -> Done(StrV([i \in DOMAIN chars |-> IF i = 1 THEN Cased(chars[1], TRUE) ELSE chars[i]]))
      [] name = "trim" -> Done(StrV(Trimmed(chars)))
      [] name = "truncate" -> IF args # <<>> /\ args[1][1] = "Int" THEN Truncate(chars, args[1][2]) ELSE Failing
      [] name = "replace" -> IF Len(args) >= 2 /\ args[1][1] = "String" /\ args[2][1] = "String"
                             THEN Done(StrV(ReplaceEach(chars, args[1][2], args[2][2]))) ELSE Failing
      [] name = "escape" -> Done(StrV(Escape(chars)))

DefaultFilter(v, args) ==
    IF v[1] = "Unit" \/ v = StrV(<<>>) THEN Done(IF args = <<>> THEN StrV(<<>>) ELSE args[1]) ELSE Done(v)

Whole(v, elements) == IF v[1] = "String" THEN StrV(elements) ELSE ArrV(elements)

\* the arguments of slice are taken modulo the length, from above only
Slice(v, args) ==
    LET n == Len(v[2])
        number(i, other) == IF Len(args) >= i /\ args[i][1] = "Int" THEN AsUsize(args[i][2], n) ELSE other
        end == Min({number(2, n), n})
        start == Min({number(1, 0), end})
    IN Done(Whole(v, SubSeq(v[2], start + 1, end)))

CollectionFilter(name, v, args) ==
    CASE name = "length" /\ v[1] = "String" -> Done(IntV(ByteLength(v[2])))
      [] name = "length" /\ v[1] \in {"Array", "Map"} -> Done(IntV(Len(v[2])))
      [] name \in {"first", "last"} /\ v[1] = "String" ->
            Done(StrV(IF v[2] = <<>> THEN <<>> ELSE IF name = "first" THEN <<Head(v[2])>> ELSE <<Last(v[2])>>))
      [] name \in {"first", "last"} /\ v[1] = "Array" ->
            Done(IF v[2] = <<>> THEN Unit ELSE IF name = "first" THEN Head(v[2]) ELSE Last(v[2]))
      [] name = "reverse" /\ v[1] \in {"String", "Array"} -> Done(Whole(v, Reverse(v[2])))
      [] name = "join" /\ v[1] = "Array" ->
            LET sep == IF args # <<>> /\ args[1][1] = "String" THEN args[1][2] ELSE <<",", " ">>
            IN Done(StrV(FoldLeft(LAMBDA out, i : out \o (IF i = 1 THEN <<>> ELSE sep) \o Text(v[2][i]), <<>>,
                                 [i \in DOMAIN v[2] |-> i])))
      [] name = "slice" /\ v[1] \in {"String", "Array"} -> Slice(v, args)
      [] OTHER -> Failing

ApplyFilter(v, filter) ==
    LET name == Head(filter)
        args == Tail(filter)
    IN CASE name \in {"uppercase", "lowercase", "capitalize", "trim", "truncate", "replace", "escape"} ->
              StringFilter(name, Text(v), args)
         [] name = "raw" -> Done(v)
         [] name = "default" -> DefaultFilter(v, args)
         [] OTHER -> CollectionFilter(name, v, args)

\* default is there for a variable that is not, if the filters before it take ()
ShowValue(variable, filters, env) ==
    LET covered == \E i \in DOMAIN filters : filters[i][1] = "default"
        start == IF variable \in DOMAIN env THEN Done(env[variable]) ELSE IF covered THEN Done(Unit) ELSE Undefined
    IN FoldLeft(LAMBDA r, f : IF r.ok THEN ApplyFilter(r.value, f) ELSE r, start, filters)

-----------------------------------------------------------------------------
(* What a template shows: a sequence of pieces *)
Characters(chars) == [i \in DOMAIN chars |-> <<"text", chars[i]>>]

Items(v) == IF v[1] = "Map" THEN [i \in DOMAIN v[2] |-> ArrV(<<StrV(v[2][i][1]), v[2][i][2]>>)] ELSE v[2]

LoopScope(env, name, items, i) ==
    (name :> items[i]) @@ ("@index" :> IntV(i - 1)) @@ ("@index1" :> IntV(i)) @@ ("@first" :> BoolV(i = 1))
    @@ ("@last" :> BoolV(i = Len(items))) @@ ("@length" :> IntV(Len(items))) @@ ("@even" :> BoolV(i % 2 = 1))
    @@ ("@odd" :> BoolV(i % 2 = 0)) @@ env

RECURSIVE EvalParts(_, _)

\* mutant: the last one
EvalIfLast(branches, else, env) ==
    LET holds == {n \in DOMAIN branches : branches[n][1] \in DOMAIN env /\ Truthy(env[branches[n][1]])}
    IN EvalParts(IF holds = {} THEN else ELSE branches[Max(holds)][2], env)

\* the first branch whose condition holds; a condition after it is not evaluated
EvalIf(branches, else, env) ==
    LET stops == {n \in DOMAIN branches : branches[n][1] \notin DOMAIN env \/ Truthy(env[branches[n][1]])}
    IN CASE stops = {} -> EvalParts(else, env)
         [] branches[Min(stops)][1] \notin DOMAIN env -> Undefined
         [] OTHER -> EvalParts(branches[Min(stops)][2], env)

EvalFor(name, variable, body, empty, env) ==
    CASE variable \notin DOMAIN env -> Undefined
      [] variable \in DOMAIN env /\ env[variable][1] \notin {"Array", "Map"} -> Failing
      [] OTHER ->
            LET items == Items(env[variable])
            IN IF items = <<>> THEN EvalParts(empty, env)
               ELSE FoldLeft(LAMBDA r, i : IF ~r.ok THEN r
                                           ELSE LET one == EvalParts(body, LoopScope(env, name, items, i))
                                                IN IF one.ok THEN Done(r.value \o one.value) ELSE one,
                             Done(<<>>), [i \in DOMAIN items |-> i])

EvalParts(parts, env) ==
    FoldLeft(LAMBDA r, part :
                IF ~r.ok THEN r
                ELSE LET one == CASE part[1] = "literal" -> Done(<<part[2]>>)
                                  [] part[1] = "show" ->
                                        LET shown == ShowValue(part[2], part[3], env)
                                        IN IF shown.ok THEN Done(Characters(Text(shown.value))) ELSE shown
                                  [] part[1] = "for" -> EvalFor(part[2], part[3], part[4], part[5], env)
                                  [] part[1] = "if" -> EvalIf(part[2], part[3], env)
                     IN IF one.ok THEN Done(r.value \o one.value) ELSE one,
             Done(<<>>), parts)

RECURSIVE Panics(_)
Panics(parts) ==
    \E i \in DOMAIN parts :
        \/ parts[i][1] = "panic"
        \/ parts[i][1] = "for" /\ (Panics(parts[i][4]) \/ Panics(parts[i][5]))
        \/ parts[i][1] = "if" /\ (Panics(parts[i][3]) \/ \E n \in DOMAIN parts[i][2] : Panics(parts[i][2][n][2]))

\* a file is put between quotes and read as a template: it ends at its own
RenderTemplate(text, env) ==
    LET parts == ParseContent(SubSeq(text, 1, FirstTag(text, 1, {"quotes"}) - 1))
    IN IF Panics(parts) THEN Panic ELSE EvalParts(parts, env)
=============================================================================
