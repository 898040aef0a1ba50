-------------------------- MODULE TypeCheckerProps --------------------------
(***************************************************************************)
(* Programs with annotations, built piece by piece: what the type checker  *)
(* says of them beside what the evaluator does with them. The evaluator    *)
(* does not look at annotations.                                           *)
(***************************************************************************)
EXTENDS EvaluatorProps, TypeChecker

CONSTANT MaxSteps   \* lets of a program, and contexts around a mistake

IntN == NamedT("Int")
TextN == NamedT("String")
LetOf(x, type, e) == [k |-> "let", pattern |-> Var(x), type |-> type, e |-> e]
FnOf(name, x, type, ret, body) ==
    [k |-> "fn", name |-> name, params |-> <<x>>, types |-> <<type>>, ret |-> ret,
     requires |-> <<>>, ensures |-> <<>>, body |-> body]
Back(e) == <<[k |-> "return", e |-> e]>>

StructP == [k |-> "structdef", name |-> "P", fields |-> <<"x">> :> IntN]
TypedE == [k |-> "enum", name |-> "E", types |-> "A" :> <<IntN>>, arity |-> "A" :> 1, order |-> <<"A">>]
AliasN == [k |-> "alias", name |-> "N", type |-> IntN]
TypeDeclarations == <<StructP, TypedE, AliasN>>
FnDeclarations ==
    <<FnOf("same", "n", IntN, IntN, Back(Id("n"))),
      FnOf("text", "s", TextN, TextN, <<Do(Id("s"))>>),
      FnOf("pick", "o", GenericT("Option", <<IntN>>), IntN, Back(Bin("NullCoalesce", Id("o"), Num(0)))),
      FnOf("any", "v", Untyped, Untyped, Back(Id("v")))>>

\* what the evaluator gets: it has nothing to do for the declarations it does not know
Runnable(ds) == SelectSeq(ds, LAMBDA d : d.k \notin {"structdef", "alias"})
StartTyped ==
    DefineAll(Start({"note"}), <<<<"None", NoneV>>, <<"Some", CtorV("Option", "Some", 1)>>,
                                 <<"Ok", CtorV("Result", "Ok", 1)>>, <<"Err", CtorV("Result", "Err", 1)>>>>)

-----------------------------------------------------------------------------
(* Steps: each is a `let` with the value of the one before in an           *)
(* expression.                                                             *)
Atoms == {Num(1), Lit(StrV(<<"s">>)), True, Id("None"), [k |-> "array", es |-> <<Num(1), Num(2)>>]}
Wraps == {"same", "array", "mixed", "some", "ok", "err", "plus", "concat", "or", "not", "neg", "first", "map",
          "key", "struct", "field", "variant", "call", "text", "pick", "any", "match", "block"}
Key == Lit(StrV(<<"x">>))
Wrap(w, x) ==
    CASE w = "same" -> x
      [] w = "array" -> [k |-> "array", es |-> <<x>>]
      [] w = "mixed" -> [k |-> "array", es |-> <<x, Lit(StrV(<<"s">>))>>]
      [] w = "some" -> CallOf("Some", <<x>>)
      [] w = "ok" -> CallOf("Ok", <<x>>)
      [] w = "err" -> CallOf("Err", <<x>>)
      [] w = "plus" -> Bin("Add", x, Num(1))
      [] w = "concat" -> Bin("Add", Lit(StrV(<<"s">>)), x)
      [] w = "or" -> Bin("NullCoalesce", x, Num(0))
      [] w = "not" -> [k |-> "unary", op |-> "Not", e |-> x]
      [] w = "neg" -> [k |-> "unary", op |-> "Neg", e |-> x]
      [] w = "first" -> [k |-> "index", of |-> x, i |-> Num(0)]
      [] w = "map" -> [k |-> "map", pairs |-> <<<<Key, x>>>>]
      [] w = "key" -> [k |-> "index", of |-> x, i |-> Key]
      [] w = "struct" -> [k |-> "struct", name |-> "P", fields |-> <<<<"x">>>>, es |-> <<x>>]
      [] w = "field" -> [k |-> "field", of |-> x, field |-> <<"x">>]
      [] w = "variant" -> [k |-> "variant", enum |-> "E", variant |-> "A", es |-> <<x>>]
      [] w = "call" -> CallOf("same", <<x>>)
      [] w \in {"text", "pick", "any"} -> CallOf(w, <<x>>)
      [] w = "match" -> MatchOf(x, <<Arm([k |-> "variant", enum |-> "", variant |-> "Some", parts |-> <<Var("v")>>],
                                         True, Id("v")),
                                     Arm(Wild, True, Num(0))>>)
      [] w = "block" -> Block(<<LetOf("y", IntN, x), Do(Id("y"))>>)

(* The annotations; what a step demands of the value before it. *)
Annotated ==
    {IntN, NamedT("Float"), TextN, NamedT("N"), NamedT("P"), NamedT("E"), GenericT("Array", <<IntN>>),
     GenericT("Option", <<IntN>>), GenericT("Map", <<TextN, IntN>>), ResultT(IntN, TextN), UnionT(<<IntN, TextN>>)}
Demands(w) == CASE w \in {"struct", "variant", "call", "block"} -> IntN
                [] w = "text" -> TextN
                [] w = "pick" -> GenericT("Option", <<IntN>>)
                [] OTHER -> Untyped

Name(i) == "r" \o ToString(i)
StepsOf(steps) ==
    FlattenSeq([i \in DOMAIN steps |->
        <<LetOf(Name(i), steps[i].type, IF i = 1 THEN steps[i].e ELSE Wrap(steps[i].e, Id(Name(i - 1)))),
          Do(CallOf("note", <<Id(Name(i))>>))>>])
Program(steps) == TypeDeclarations \o FnDeclarations \o StepsOf(steps)

(* What it means for a value to be of the type an annotation denotes.      *)
RECURSIVE Fits(_, _)
Fits(v, t) ==
    CASE t = Untyped -> TRUE
      [] Is(t, "Union") -> \E i \in DOMAIN t[2] : Fits(v, t[2][i])
      [] Is(t, "Generic") ->
            CASE t[2] = "Array" -> Kind(v) = "Array" /\ \A i \in DOMAIN v[2] : Fits(v[2][i], t[3][1])
              [] t[2] = "Map" -> Kind(v) = "Map" /\ \A x \in DOMAIN v[2] : Fits(v[2][x], t[3][2])
              [] OTHER -> /\ Kind(v) = "Enum"
                          /\ v[2] = t[2]
                          /\ v[4] # <<>> => Fits(v[4][1], t[3][IF v[3] = "Err" THEN 2 ELSE 1])
      [] t[2] \in {"Int", "Float", "N"} -> Kind(v) = "Int"
      [] t[2] = "String" -> Kind(v) = "String"
      [] t[2] = "P" -> Kind(v) = "Struct" /\ v[2] = "P"
      [] t[2] = "E" -> Kind(v) = "Enum" /\ v[2] = "E"

TypedValues(r) == [i \in DOMAIN r.s.notes |-> r.s.notes[i][2][1]]
AllFit(steps, vs) ==
    \A i \in DOMAIN steps : Fits(vs[i], steps[i].type) /\ (i > 1 => Fits(vs[i - 1], Demands(steps[i].e)))

(* Steps whose type says nothing of the value, or one thing of several:    *)
(* what comes of an unannotated function, a list of unlike elements, an    *)
(* annotation that is a union.                                             *)
Loose(t) == \/ t[1] \in {"Any", "Union"}
            \/ t[1] \in {"Array", "Optional"} /\ t[2][1] \in {"Any", "Union"}
            \/ Is(t, "Map") /\ t[3][1] \in {"Any", "Union"}

(* Steps the checker is mistaken about: `a ?? b` where a is no Option has  *)
(* the type of b, and its value is a; text and a Float make a Float.       *)
IsOption(v) == IF Kind(v) = "Enum" THEN v[2] = "Option" ELSE FALSE
Before(steps, w) == {steps[i - 1].type : i \in {j \in DOMAIN steps \ {1} : steps[j].e = w}}
FloatText(steps) == NamedT("Float") \in Before(steps, "concat")
Mistaken(steps, vs) ==
    \/ FloatText(steps)
    \/ \E i \in DOMAIN steps \ {1} : steps[i].e = "or" /\ ~IsOption(vs[i - 1])

(* A step with Any for its annotation; the steps up to one that has none,  *)
(* so that its name gets the type inferred for it.                         *)
Relaxed(steps, i) == [steps EXCEPT ![i].type = NamedT("Any")]
UpTo(steps, i) == SubSeq([steps EXCEPT ![i].type = Untyped], 1, i)

StepsGrow ==
    /\ Family = "types"
    /\ Len(shape) <= MaxSteps
    /\ \/ /\ Len(shape) = 1
          /\ \E a \in Atoms, t \in Annotated \cup {Untyped} : Piece([e |-> a, type |-> t])
       \/ /\ Len(shape) > 1
          /\ Len(shape) > 2 => shape[2].type = Untyped /\ shape[3].type = Untyped
          /\ \E w \in Wraps, t \in Annotated \cup {Untyped} : Piece([e |-> w, type |-> t])

Agree(steps, r, result) ==   \* r is what the program does, result[p] what is said of p
    LET vs == TypedValues(r)
        Clean(p) == StrictCheck(result[p]) = <<>>
        vague == \E i \in DOMAIN steps :
            Loose(LookupType(result[UpTo(steps, i)], Name(i))) \/ Is(steps[i].type, "Union")
        results == \E i \in DOMAIN steps : steps[i].type = ResultT(IntN, TextN)
    IN /\ r.ok /\ ~Mistaken(steps, vs) =>
            IF AllFit(steps, vs) THEN Clean(steps) \/ results ELSE vague \/ ~Clean(steps)
       /\ Clean(steps) /\ Before(steps, "mixed") = {} /\ ~FloatText(steps) =>
            \A i \in DOMAIN steps : steps[i].type # Untyped => Clean(Relaxed(steps, i))

(* A program is found wrong exactly when it gives an annotation a value    *)
(* that does not fit it: where a type is vague the checker may miss that,  *)
(* and no value is ever accepted as a Result. What it accepts, it accepts  *)
(* with Any in the place of an annotation, unlike elements of a list apart *)
(* (the type of the list is that of the first one then).                   *)
ChecksAgreeWithRuns ==
    Family = "types" /\ Len(shape) > 1 =>
        LET steps == Tail(shape)
            variants == {steps} \cup {Relaxed(steps, i) : i \in DOMAIN steps} \cup {UpTo(steps, i) : i \in DOMAIN steps}
        IN Agree(steps, Run(Runnable(Program(steps)), StartTyped),
                 [p \in variants |-> CheckProgram(Program(p), Nothing, FALSE)])

-----------------------------------------------------------------------------
(* One mistake inside contexts inside each other: every place of a tree     *)
(* that holds statements or an expression.                                 *)
Unseen ==   \* the checker does not look into these
    {"defer", "export", "module", "trait", "default", "range", "interpolated", "template", "callee",
     "unknown struct", "unknown variant", "second of Some"}
StatementPlaces == {"if", "else", "while", "for", "fn", "method", "return", "let", "condition", "over", "requires",
                    "ensures", "invariant", "defer", "export", "module", "trait", "default"}
ExpressionPlaces ==
    {"block", "arm", "guard", "scrutinee", "operand", "not", "element", "key", "entry", "argument", "receiver",
     "method argument", "object", "indexed", "index", "struct", "variant", "Some", "target", "assign",
     "lambda", "otherwise", "try", "range", "interpolated", "template", "callee", "unknown struct",
     "unknown variant", "second of Some"}
Doing(body) == Block(body \o <<Do(Num(1))>>)
Claiming(body) == Block(body \o <<Do(True)>>)
EmptyList == [k |-> "array", es |-> <<>>]
IndexOf(of, i) == [k |-> "index", of |-> of, i |-> i]
MethodOf(of, args) == [k |-> "method", of |-> of, method |-> "touch", args |-> args]
StructOf(name, e) == [k |-> "struct", name |-> name, fields |-> <<<<"x">>>>, es |-> <<e>>]
VariantOf(enum, variant, es) == [k |-> "variant", enum |-> enum, variant |-> variant, es |-> es]
ImplOf(invariants, methods) == [k |-> "impl", name |-> "P", invariants |-> invariants, methods |-> methods]
Plainly(body) == FnOf("f", "v", Untyped, Untyped, body)

PlacedBody(place, body) ==   \* a statement
    CASE place = "if" -> If(True, body, <<>>)
      [] place = "else" -> If(True, <<>>, body)
      [] place = "condition" -> If(Claiming(body), <<>>, <<>>)
      [] place = "while" -> [k |-> "while", cond |-> True, body |-> body]
      [] place = "for" -> [k |-> "for", name |-> "i", over |-> Id("None"), body |-> body]
      [] place = "over" -> [k |-> "for", name |-> "i", over |-> Doing(body), body |-> <<>>]
      [] place = "fn" -> Plainly(body)
      [] place = "method" -> ImplOf(<<>>, <<Plainly(body)>>)
      [] place = "invariant" -> ImplOf(<<Claiming(body)>>, <<>>)
      [] place = "return" -> Plainly(Back(Doing(body)))
      [] place = "requires" -> [Plainly(<<>>) EXCEPT !.requires = <<Claiming(body)>>]
      [] place = "ensures" -> [Plainly(<<>>) EXCEPT !.ensures = <<Claiming(body)>>]
      [] place = "default" -> Plainly(<<>>) @@ [default |-> Doing(body)]
      [] place = "let" -> LetOf("y", Untyped, Doing(body))
      [] place = "defer" -> [k |-> "defer", e |-> Doing(body)]
      [] place = "export" -> [k |-> "export", of |-> Plainly(body)]
      [] place = "module" -> [k |-> "module", body |-> body]
      [] place = "trait" -> [k |-> "trait", name |-> "T", methods |-> <<Plainly(body)>>]

PlacedExpression(place, e) ==   \* an expression
    CASE place = "block" -> e
      [] place = "arm" -> MatchOf(Num(1), <<Arm(Wild, True, e)>>)
      [] place = "guard" -> MatchOf(Num(1), <<Arm(Wild, e, True)>>)
      [] place = "scrutinee" -> MatchOf(e, <<Arm(Wild, True, True)>>)
      [] place = "operand" -> Bin("Add", Num(1), e)
      [] place = "not" -> [k |-> "unary", op |-> "Not", e |-> e]
      [] place = "element" -> [k |-> "array", es |-> <<Num(1), e>>]
      [] place = "key" -> [k |-> "map", pairs |-> <<<<e, Num(1)>>>>]
      [] place = "entry" -> [k |-> "map", pairs |-> <<<<Num(1), e>>>>]
      [] place = "argument" -> CallOf("any", <<e>>)
      [] place = "callee" -> [k |-> "call", f |-> e, args |-> <<>>]
      [] place = "receiver" -> MethodOf(e, <<>>)
      [] place = "method argument" -> MethodOf(EmptyList, <<e>>)
      [] place = "object" -> [k |-> "field", of |-> e, field |-> <<"x">>]
      [] place = "indexed" -> IndexOf(e, Num(0))
      [] place = "index" -> IndexOf(EmptyList, e)
      [] place = "struct" -> StructOf("P", e)
      [] place = "unknown struct" -> StructOf("Q", e)
      [] place = "variant" -> VariantOf("E", "A", <<e>>)
      [] place = "unknown variant" -> VariantOf("E", "B", <<e>>)
      [] place = "Some" -> VariantOf("Option", "Some", <<e>>)
      [] place = "second of Some" -> VariantOf("Option", "Some", <<Num(1), e>>)
      [] place = "assign" -> [k |-> "assign", target |-> IndexOf(EmptyList, Num(0)), e |-> e]
      [] place = "target" -> [k |-> "assign", target |-> IndexOf(EmptyList, e), e |-> Num(1)]
      [] place = "lambda" -> [k |-> "lambda", params |-> <<"v">>, types |-> <<IntN>>, e |-> e]
      [] place = "otherwise" -> [k |-> "ifexpr", cond |-> True, then |-> Num(1), else |-> e]
      [] place = "try" -> [k |-> "try", e |-> e]
      [] place = "range" -> [k |-> "range", lo |-> Num(0), hi |-> e, inclusive |-> FALSE]
      [] place \in {"interpolated", "template"} -> [k |-> place, parts |-> <<e>>]

Context1(place, body) ==
    <<IF place \in StatementPlaces THEN PlacedBody(place, body) ELSE Do(PlacedExpression(place, Doing(body)))>>

Mistake(good) == <<LetOf("z", IntN, IF good THEN Num(1) ELSE Lit(StrV(<<"s">>)))>>
InContexts(ws, good) == FoldRight(Context1, ws, Mistake(good))
Reports(ds) == Len(StrictCheck(CheckProgram(ds, Nothing, FALSE)))
Reported(places, good) == Reports(TypeDeclarations \o InContexts(places, good)) > 0

(* Declarations, and statements that rely on them, in some order.          *)
Ordered == [p |-> StructP, q |-> [k |-> "alias", name |-> "Q", type |-> NamedT("P")], n |-> AliasN,
            f |-> FnOf("f", "v", NamedT("Q"), NamedT("N"), <<Do(Lit(StrV(<<"s">>)))>>),
            g |-> FnOf("g", "v", NamedT("P"), Untyped, <<Do(CallOf("f", <<Num(1)>>))>>),
            h |-> Do(CallOf("g", <<Num(1)>>)), l |-> LetOf("z", NamedT("N"), CallOf("f", <<Id("None")>>))]
Mentions(x) ==   \* in what pass 1 collects
    CASE x = "q" -> {"p"} [] x = "f" -> {"q", "n"} [] x = "g" -> {"p"} [] OTHER -> {}
Early(ns) == \E i, j \in DOMAIN ns : i < j /\ ns[j] \in Mentions(ns[i])   \* before its declaration
OrderedReports(ns) == Reports([i \in DOMAIN ns |-> Ordered[ns[i]]])
InOrderOfUse(ns) == SelectSeq(<<"p", "q", "n", "f", "g", "h", "l">>, LAMBDA x : x \in ToSet(ns))

TypedStarts == {<<"types">>, <<"mistakes">>, <<"orders">>}
TypedGrows ==
    \/ StepsGrow
    \/ Family = "mistakes" /\ Len(shape) <= MaxSteps /\ \E w \in StatementPlaces \cup ExpressionPlaces : Piece(w)
    \/ Family = "orders" /\ \E x \in DOMAIN Ordered \ ToSet(Tail(shape)) : Piece(x)

(* A mistake is reported, and a program without it is not, wherever it     *)
(* stands but in the places the checker does not look into: deferred        *)
(* expressions, what is exported or in a module, default methods of traits, *)
(* defaults of parameters, the bounds of ranges, the parts of strings and   *)
(* templates, called expressions, the values of structs and variants it     *)
(* does not know, and those after the first of Some, Ok and Err. A type     *)
(* that is declared after it is mentioned may hide mistakes and makes none; *)
(* apart from that the order of declarations and statements does not        *)
(* matter. (check_statement, infer_expression, collect_declaration.)        *)
MistakesAreFound ==
    LET pieces == Tail(shape)
    IN /\ Family = "mistakes" =>
            \A good \in BOOLEAN :
                Reported(pieces, good) <=> ~good /\ ToSet(pieces) \cap Unseen = {}
       /\ Family = "orders" =>
            \E most \in {OrderedReports(InOrderOfUse(pieces))} :
                OrderedReports(pieces) \in IF Early(pieces) THEN 0..most ELSE {most}
=============================================================================
