---------------------------- MODULE TypeChecker ----------------------------
(***************************************************************************)
(* What `ntnt lint`, and NTNT_STRICT before a program runs, find wrong     *)
(* with the types of a program.                                            *)
(*                                                                         *)
(* Modelled from src/src/typechecker.rs and is_compatible of               *)
(* src/src/types.rs. Infer(e, c) returns the type of an expression, or     *)
(* checks a statement, and the context after it: the types of the names in *)
(* the scopes, what was declared, and the diagnostics so far. Expressions  *)
(* and statements are those of Evaluator; a `let` has the annotation type, *)
(* a function has types for its parameters and a type ret, which may be    *)
(* Untyped. A diagnostic is the rule it is about; lines and wording are    *)
(* left out.                                                               *)
(***************************************************************************)
EXTENDS Integers, Sequences, FiniteSets, SequencesExt, TLC

(* Types; the expressions that denote them have the same shape, with every *)
(* name, built in or declared, as <<"Named", name>>.                       *)
AnyT == <<"Any">>
IntT == <<"Int">>
FloatT == <<"Float">>
BoolT == <<"Bool">>
StringT == <<"String">>
UnitT == <<"Unit">>
ArrayT(t) == <<"Array", t>>
OptionalT(t) == <<"Optional", t>>
MapT(k, v) == <<"Map", k, v>>
TupleT(ts) == <<"Tuple", ts>>
FunctionT(ts, t) == <<"Function", ts, t>>
NamedT(name) == <<"Named", name>>
GenericT(name, ts) == <<"Generic", name, ts>>
UnionT(ts) == <<"Union", ts>>
ResultT(t, e) == GenericT("Result", <<t, e>>)
Untyped == <<"Untyped">>   \* no annotation

Is(t, former) == t[1] = former

CompatibleByName(a, b) == Is(a, "Any") \/ Is(b, "Any") \/ a[1] = b[1]   \* mutant: the elements are not compared

(* is_compatible. Generic types, Never and a union of unions have no case  *)
(* of their own.                                                           *)
RECURSIVE Compatible(_, _)
Compatible(a, b) ==
    LET Each(xs, ys) == Len(xs) = Len(ys) /\ \A i \in DOMAIN xs : Compatible(xs[i], ys[i])
    IN CASE Is(a, "Any") \/ Is(b, "Any") -> TRUE
         [] {a[1], b[1]} = {"Int", "Float"} -> TRUE
         [] a[1] = b[1] /\ a[1] \in {"Unit", "Int", "Float", "Bool", "String"} -> TRUE
         [] a[1] = b[1] /\ a[1] \in {"Array", "Optional"} -> Compatible(a[2], b[2])
         [] Is(a, "Map") /\ Is(b, "Map") -> Compatible(a[2], b[2]) /\ Compatible(a[3], b[3])
         [] Is(a, "Union") -> \E i \in DOMAIN a[2] : Compatible(a[2][i], b)
         [] Is(b, "Union") -> \E i \in DOMAIN b[2] : Compatible(b[2][i], a)
         [] Is(a, "Named") /\ Is(b, "Named") -> a[2] = b[2]
         [] Is(a, "Tuple") /\ Is(b, "Tuple") -> Each(a[2], b[2])
         [] Is(a, "Function") /\ Is(b, "Function") -> Each(a[2], b[2]) /\ Compatible(a[3], b[3])
         [] OTHER -> FALSE

UnionOf(a, b) ==   \* union_type
    IF Compatible(a, b) THEN IF Is(a, "Any") THEN b ELSE a ELSE UnionT(<<a, b>>)

-----------------------------------------------------------------------------
(* The context *)
Nothing == [x \in {} |-> AnyT]
Signature(ts, ret) == [params |-> ts, ret |-> ret, variadic |-> FALSE]
Variadic(ts, ret) == [Signature(ts, ret) EXCEPT !.variadic = TRUE]
Each(names, sig) == [x \in names |-> sig]

TextMap == MapT(StringT, StringT)
Response == NamedT("Response")
Anys == ArrayT(AnyT)
TextArray == ArrayT(StringT)

(* register_builtins *)
BuiltinSignatures ==
    Each({"print"}, Variadic(<<AnyT>>, UnitT)) @@ Each({"assert"}, Variadic(<<BoolT>>, UnitT))
    @@ Each({"input"}, Signature(<<StringT>>, StringT))
    @@ Each({"str", "type"}, Signature(<<AnyT>>, StringT))
    @@ Each({"int", "len", "sign"}, Signature(<<AnyT>>, IntT))
    @@ Each({"float", "sqrt"}, Signature(<<AnyT>>, FloatT))
    @@ Each({"bool", "is_empty"}, Signature(<<AnyT>>, BoolT))
    @@ Each({"reverse", "abs", "unwrap"}, Signature(<<AnyT>>, AnyT))
    @@ Each({"push", "filter", "transform"}, Signature(<<Anys, AnyT>>, Anys))
    @@ Each({"pop"}, Signature(<<Anys>>, AnyT)) @@ Each({"sort", "flatten"}, Signature(<<Anys>>, Anys))
    @@ Each({"first", "last"}, Variadic(<<Anys>>, AnyT)) @@ Each({"slice"}, Variadic(<<Anys, IntT>>, Anys))
    @@ Each({"keys"}, Signature(<<AnyT>>, TextArray)) @@ Each({"values", "entries"}, Signature(<<AnyT>>, Anys))
    @@ Each({"has_key"}, Signature(<<AnyT, StringT>>, BoolT))
    @@ Each({"get_key"}, Signature(<<AnyT, StringT>>, AnyT))
    @@ Each({"contains"}, Signature(<<AnyT, AnyT>>, BoolT))
    @@ Each({"concat", "min", "max"}, Signature(<<AnyT, AnyT>>, AnyT))
    @@ Each({"clamp"}, Signature(<<AnyT, AnyT, AnyT>>, AnyT))
    @@ Each({"floor", "ceil"}, Signature(<<FloatT>>, IntT)) @@ Each({"round"}, Variadic(<<FloatT>>, IntT))
    @@ Each({"get", "post", "put", "patch", "delete"}, Signature(<<StringT, AnyT>>, UnitT))
    @@ Each({"listen"}, Signature(<<IntT>>, UnitT))
    @@ Each({"serve_static"}, Signature(<<StringT, StringT>>, UnitT))
    @@ Each({"use_middleware", "on_shutdown"}, Signature(<<AnyT>>, UnitT))
    @@ Each({"routes"}, Signature(<<StringT>>, UnitT))
    @@ Each({"template"}, Signature(<<StringT, AnyT>>, StringT))

(* get_module_signatures *)
OneText(t) == Signature(<<StringT>>, t)
TwoTexts(t) == Signature(<<StringT, StringT>>, t)
ThreeTexts == Signature(<<StringT, StringT, StringT>>, StringT)

StringSignatures ==
    Each({"split", "find_all_pattern", "split_pattern"}, TwoTexts(TextArray))
    @@ Each({"chars", "lines", "words"}, OneText(TextArray))
    @@ Each({"join"}, Signature(<<TextArray, StringT>>, StringT))
    @@ Each({"trim", "trim_left", "trim_right", "to_lower", "to_upper", "reverse", "capitalize", "title", "slugify"},
            OneText(StringT))
    @@ Each({"trim_chars", "remove_chars", "keep_chars"}, TwoTexts(StringT))
    @@ Each({"replace", "replace_first", "replace_all", "replace_chars", "replace_pattern"}, ThreeTexts)
    @@ Each({"contains", "starts_with", "ends_with", "matches_pattern"}, TwoTexts(BoolT))
    @@ Each({"is_uppercase", "is_lowercase", "is_numeric", "is_alphanumeric"}, OneText(BoolT))
    @@ Each({"index_of", "last_index_of", "count"}, TwoTexts(IntT))
    @@ Each({"substring"}, Signature(<<StringT, IntT, IntT>>, StringT))
    @@ Each({"char_at", "repeat"}, Signature(<<StringT, IntT>>, StringT))
    @@ Each({"pad_left", "pad_right"}, Signature(<<StringT, IntT, StringT>>, StringT))
    @@ Each({"truncate"}, Variadic(<<StringT, IntT>>, StringT))
    @@ Each({"find_pattern"}, TwoTexts(OptionalT(StringT)))

MathSignatures ==
    Each({"sin", "cos", "tan", "asin", "acos", "atan", "log", "log2", "log10", "exp"}, Signature(<<FloatT>>, FloatT))
    @@ Each({"atan2", "pow"}, Signature(<<FloatT, FloatT>>, FloatT))
    @@ Each({"random", "PI", "E"}, Signature(<<>>, FloatT)) @@ Each({"random_int"}, Signature(<<IntT, IntT>>, IntT))

CollectionSignatures ==
    Each({"push", "filter", "transform"}, Signature(<<Anys, AnyT>>, Anys)) @@ Each({"pop"}, Signature(<<Anys>>, AnyT))
    @@ Each({"keys"}, Signature(<<AnyT>>, TextArray)) @@ Each({"values", "entries"}, Signature(<<AnyT>>, Anys))
    @@ Each({"has_key"}, Signature(<<AnyT, StringT>>, BoolT)) @@ Each({"get_key"}, Variadic(<<AnyT, StringT>>, AnyT))
    @@ Each({"first", "last"}, Variadic(<<Anys>>, AnyT)) @@ Each({"concat"}, Signature(<<AnyT, AnyT>>, AnyT))
    @@ Each({"slice"}, Variadic(<<Anys, IntT>>, Anys)) @@ Each({"is_empty"}, Signature(<<AnyT>>, BoolT))
    @@ Each({"sort", "reverse", "flatten"}, Signature(<<Anys>>, Anys))

FileAndEnvSignatures(path) ==
    IF path = "std/fs"
    THEN Each({"read_file"}, OneText(StringT)) @@ Each({"exists", "is_file", "is_dir"}, OneText(BoolT))
         @@ Each({"write_file", "copy", "rename"}, TwoTexts(UnitT)) @@ Each({"mkdir", "remove"}, OneText(UnitT))
         @@ Each({"readdir"}, OneText(TextArray))
    ELSE Each({"get_env"}, OneText(OptionalT(StringT))) @@ Each({"set_env"}, TwoTexts(UnitT))
         @@ Each({"all_env"}, Signature(<<>>, AnyT)) @@ Each({"load_env"}, OneText(UnitT))
         @@ Each({"args"}, Signature(<<>>, TextArray)) @@ Each({"cwd"}, Signature(<<>>, StringT))

HttpSignatures(path) ==
    IF path = "std/http"
    THEN Each({"fetch"}, Variadic(<<StringT>>, ResultT(Response, StringT))) @@ Each({"download"}, TwoTexts(AnyT))
         @@ Each({"Cache"}, Signature(<<IntT>>, AnyT)) @@ Each({"cache_fetch"}, Variadic(<<AnyT, StringT>>, AnyT))
    ELSE Each({"json"}, Variadic(<<AnyT>>, Response)) @@ Each({"html"}, Variadic(<<StringT>>, Response))
         @@ Each({"text", "redirect"}, OneText(Response)) @@ Each({"status"}, Signature(<<IntT, AnyT>>, Response))
         @@ Each({"parse_json"}, Signature(<<AnyT>>, ResultT(MapT(StringT, AnyT), StringT)))
         @@ Each({"parse_form"}, Signature(<<AnyT>>, TextMap))

DatabaseSignatures(path) ==
    Each({"connect"}, OneText(AnyT)) @@ Each({"close"}, Signature(<<AnyT>>, UnitT))
    @@ Each({"query", "execute"}, Variadic(<<AnyT, StringT>>, AnyT))
    @@ IF path = "std/db/postgres" THEN Nothing
       ELSE Each({"query_one"}, Variadic(<<AnyT, StringT>>, AnyT)) @@ Each({"transaction"}, Signature(<<AnyT, AnyT>>, AnyT))

PlaceSignatures(path) ==
    IF path = "std/url"
    THEN Each({"encode", "decode"}, OneText(StringT)) @@ Each({"parse", "parse_query"}, OneText(AnyT))
         @@ Each({"build_query"}, Signature(<<AnyT>>, StringT)) @@ Each({"join"}, TwoTexts(StringT))
    ELSE Each({"join"}, Variadic(<<StringT>>, StringT)) @@ Each({"is_absolute"}, OneText(BoolT))
         @@ Each({"dirname", "basename", "extname"}, OneText(StringT))

TimeSignatures ==
    Each({"now"}, Signature(<<>>, AnyT)) @@ Each({"now_millis"}, Signature(<<>>, IntT))
    @@ Each({"format"}, Signature(<<AnyT, StringT>>, StringT)) @@ Each({"elapsed"}, Signature(<<AnyT>>, AnyT))
    @@ Each({"duration"}, Signature(<<IntT>>, AnyT)) @@ Each({"parse_datetime"}, TwoTexts(ResultT(IntT, StringT)))

ConcurrentSignatures ==
    Each({"channel"}, Signature(<<>>, AnyT)) @@ Each({"send"}, Signature(<<AnyT, AnyT>>, UnitT))
    @@ Each({"recv"}, Signature(<<AnyT>>, AnyT)) @@ Each({"sleep_ms"}, Signature(<<IntT>>, UnitT))

FormatSignatures(path) ==
    IF path = "std/json"
    THEN Each({"parse"}, OneText(AnyT)) @@ Each({"stringify", "stringify_pretty"}, Signature(<<AnyT>>, StringT))
    ELSE Each({"parse", "parse_csv"}, OneText(ArrayT(TextArray))) @@ Each({"parse_with_headers"}, OneText(Anys))
         @@ Each({"stringify"}, Signature(<<Anys>>, StringT))
         @@ Each({"stringify_with_headers"}, Signature(<<Anys, TextArray>>, StringT))

CryptoSignatures ==
    Each({"sha256"}, OneText(StringT)) @@ Each({"sha256_bytes", "hex_decode"}, OneText(ArrayT(IntT)))
    @@ Each({"hmac"}, Variadic(<<StringT, StringT>>, StringT)) @@ Each({"random_bytes"}, Signature(<<IntT>>, ArrayT(IntT)))
    @@ Each({"random_hex"}, Signature(<<IntT>>, StringT)) @@ Each({"hex_encode"}, Signature(<<AnyT>>, StringT))
    @@ Each({"uuid"}, Signature(<<>>, StringT))

StdModules ==
    {"std/" \o x : x \in {"string", "math", "collections", "fs", "env", "http", "http/server", "db/postgres", "db/sqlite",
                          "url", "path", "time", "concurrent", "json", "csv", "crypto"}}
ModuleSignatures(path) ==
    CASE path = "std/string" -> StringSignatures
      [] path = "std/math" -> MathSignatures
      [] path = "std/collections" -> CollectionSignatures
      [] path \in {"std/fs", "std/env"} -> FileAndEnvSignatures(path)
      [] path \in {"std/http", "std/http/server"} -> HttpSignatures(path)
      [] path \in {"std/db/postgres", "std/db/sqlite"} -> DatabaseSignatures(path)
      [] path \in {"std/url", "std/path"} -> PlaceSignatures(path)
      [] path = "std/time" -> TimeSignatures
      [] path = "std/concurrent" -> ConcurrentSignatures
      [] path \in {"std/json", "std/csv"} -> FormatSignatures(path)
      [] path = "std/crypto" -> CryptoSignatures

-----------------------------------------------------------------------------
(* The context as a program is begun *)
HttpStructs ==
    "Request" :> [x \in {"method", "path", "url", "query", "body", "id", "ip", "protocol"} |-> StringT]
                   @@ [x \in {"query_params", "params", "headers"} |-> TextMap]
    @@ "Response" :> ("status" :> IntT @@ "body" :> StringT @@ "headers" :> TextMap)

Context(files, lint) ==
    [vars |-> <<Nothing>>,            \* self.scopes
     functions |-> Nothing, structs |-> HttpStructs, enums |-> Nothing, aliases |-> Nothing,
     builtins |-> BuiltinSignatures,  \* builtins and what was imported
     ret |-> Untyped,                 \* current_return_type
     files |-> files,                 \* the statements of the files that relative imports name
     lint |-> lint,                   \* strict_lint
     found |-> <<>>]                  \* diagnostics

Typed(t, c) == [t |-> t, c |-> c]

Enter(c) == [c EXCEPT !.vars = Append(@, Nothing)]
Leave(c) == [c EXCEPT !.vars = Front(@)]
Left(r) == Typed(r.t, Leave(r.c))
Bind(c, x, t) == [c EXCEPT !.vars[Len(c.vars)] = (x :> t) @@ @]
BindAll(c, xs, ts) == FoldLeft(LAMBDA d, i : Bind(d, xs[i], ts[i]), c, [i \in 1..Len(xs) |-> i])

LookupType(c, x) ==   \* the innermost scope that has the name; what is unknown is Any
    LET holders == {i \in DOMAIN c.vars : x \in DOMAIN c.vars[i]}
    IN IF holders = {} THEN AnyT ELSE c.vars[CHOOSE i \in holders : \A j \in holders : j <= i][x]

Report(c, rule, wrong) == IF wrong THEN [c EXCEPT !.found = Append(@, rule)] ELSE c
Expect(c, rule, t, wanted) == Report(c, rule, ~Compatible(t, wanted))

-----------------------------------------------------------------------------
(* resolve_type_expr. A name that is not declared yet is Any.              *)
RECURSIVE ResolveType(_, _)
ResolveType(x, c) ==
    LET All(xs) == [i \in DOMAIN xs |-> ResolveType(xs[i], c)]
    IN CASE Is(x, "Named") /\ x[2] \in {"Int", "Float", "String", "Bool", "Unit", "Any", "Never"} -> <<x[2]>>
         [] Is(x, "Named") /\ x[2] = "Array" -> Anys
         [] Is(x, "Named") -> IF x[2] \in DOMAIN c.aliases THEN c.aliases[x[2]]
                              ELSE IF x[2] \in DOMAIN c.structs \cup DOMAIN c.enums THEN x ELSE AnyT
         [] Is(x, "Generic") ->
                LET args == All(x[3])
                IN CASE x[2] = "Array" /\ Len(args) = 1 -> ArrayT(args[1])
                     [] x[2] = "Option" /\ Len(args) = 1 -> OptionalT(args[1])
                     [] x[2] = "Map" /\ Len(args) = 2 -> MapT(args[1], args[2])
                     [] OTHER -> GenericT(x[2], args)
         [] Is(x, "Function") -> FunctionT(All(x[2]), ResolveType(x[3], c))
         [] Is(x, "Tuple") \/ Is(x, "Union") -> <<x[1], All(x[2])>>
         [] OTHER -> <<x[1]>> \o All(Tail(x))   \* arrays, maps and optional types

Annotation(x, c) == IF x = Untyped THEN AnyT ELSE ResolveType(x, c)
Annotations(xs, c) == [i \in DOMAIN xs |-> Annotation(xs[i], c)]

DeclareFunction(c, d) ==
    [c EXCEPT !.functions = (d.name :> Signature(Annotations(d.types, c), Annotation(d.ret, c))) @@ @]

(* Pass 1, collect_declaration: in the order of the program, so that the   *)
(* types a declaration names are those declared before it. What is         *)
(* exported, or in a module, is not looked at.                             *)
CollectDeclaration(c, d) ==
    CASE d.k = "fn" -> DeclareFunction(c, d)
      [] d.k = "structdef" ->
            [c EXCEPT !.structs = (d.name :> [f \in DOMAIN d.fields |-> ResolveType(d.fields[f], c)]) @@ @]
      [] d.k = "enum" ->   \* the variants that have fields
            [c EXCEPT !.enums = (d.name :> [v \in DOMAIN d.types |-> Annotations(d.types[v], c)]) @@ @]
      [] d.k = "alias" -> [c EXCEPT !.aliases = (d.name :> ResolveType(d.type, c)) @@ @]
      [] d.k = "impl" -> FoldLeft(DeclareFunction, c, d.methods)
      [] OTHER -> c

-----------------------------------------------------------------------------
(* Results of operators, and of functions and methods known by their name. *)
IsNumber(t) == t[1] \in {"Int", "Float"}
Comparing == {"Eq", "Ne", "Lt", "Le", "Gt", "Ge", "And", "Or"}
InferBinaryOp(op, l, r) ==
    CASE op \in Comparing -> BoolT
      [] op = "NullCoalesce" -> IF Is(l, "Optional") THEN l[2] ELSE r
      [] l = IntT /\ r = IntT -> IntT
      [] FloatT \in {l, r} -> FloatT
      [] op = "Add" /\ StringT \in {l, r} -> StringT
      [] OTHER -> AnyT

Unwrapped(t) == CASE Is(t, "Optional") -> t[2]
                  [] Is(t, "Generic") -> IF t[2] = "Result" THEN t[3][1] ELSE AnyT
                  [] OTHER -> AnyT

OfArray(name, t) ==   \* of the array type t; Untyped when the name says nothing
    CASE name \in {"filter", "sort", "reverse", "slice", "concat", "push"} -> t
      [] name = "flatten" -> IF Is(t[2], "Array") THEN t[2] ELSE t
      [] name \in {"first", "last", "pop"} -> t[2]
      [] OTHER -> Untyped

OfMap(name, t) ==
    CASE name = "keys" -> ArrayT(t[2])
      [] name = "values" -> ArrayT(t[3])
      [] name = "entries" -> ArrayT(Anys)
      [] name \in {"get", "get_key"} -> t[3]
      [] OTHER -> Untyped

CallbackResult(e, t, c) ==   \* resolve_callback_return_type
    CASE Is(t, "Function") -> t[3]
      [] e.k = "id" -> IF e.name \in DOMAIN c.functions THEN c.functions[e.name].ret
                       ELSE IF e.name \in DOMAIN c.builtins THEN c.builtins[e.name].ret ELSE Untyped
      [] OTHER -> Untyped

MethodType(name, t, args, ts, c) ==
    LET known == CASE Is(t, "Array") -> OfArray(name, t)
                   [] Is(t, "Map") -> OfMap(name, t)
                   [] OTHER -> Untyped
    IN CASE known # Untyped -> known
         [] name \in {"unwrap", "unwrap_or"} -> Unwrapped(t)
         [] name \in {"is_some", "is_none", "is_ok", "is_err"} -> BoolT
         [] name \in {"map", "transform"} ->
               LET ret == IF ts = <<>> THEN Untyped ELSE CallbackResult(args[1], ts[1], c)
               IN ArrayT(IF ret = Untyped THEN AnyT ELSE ret)
         [] name \in {"len", "length"} -> IntT
         [] name \in {"to_string", "to_str"} -> StringT
         [] name \in {"abs", "min", "max", "clamp"} /\ IsNumber(t) -> t
         [] name = "keys" -> TextArray
         [] OTHER -> AnyT

Arities == [x \in {"filter", "concat", "push", "min", "max", "transform"} |-> {2}]
           @@ [x \in {"sort", "reverse", "flatten", "abs", "keys", "values", "entries", "old", "unwrap"} |-> {1}]
           @@ [x \in {"slice", "first", "last", "pop"} |-> 1..9] @@ [x \in {"Some", "Ok", "Err"} |-> 0..9]
           @@ "clamp" :> {3} @@ "get_key" :> 2..9

FirstType(ts) == IF ts = <<>> THEN AnyT ELSE ts[1]

SpecialType(name, args, ts, c) ==   \* Untyped: the signature decides
    IF name \notin DOMAIN Arities THEN Untyped
    ELSE IF Len(ts) \notin Arities[name] THEN Untyped
    ELSE CASE name = "old" -> ts[1]
           [] name = "unwrap" -> Unwrapped(ts[1])
           [] name = "Some" -> OptionalT(FirstType(ts))
           [] name = "Ok" -> ResultT(FirstType(ts), AnyT)
           [] name = "Err" -> ResultT(AnyT, FirstType(ts))
           [] name \in {"abs", "clamp"} -> IF IsNumber(ts[1]) THEN ts[1] ELSE Untyped
           [] name \in {"min", "max"} -> IF ts[1] = IntT /\ ts[2] = IntT THEN IntT
                                         ELSE IF FloatT \in {ts[1], ts[2]} THEN FloatT ELSE Untyped
           [] name = "transform" -> LET ret == CallbackResult(args[2], ts[2], c)
                                    IN IF ret = Untyped THEN Untyped ELSE ArrayT(ret)
           [] Is(ts[1], "Array") -> OfArray(name, ts[1])
           [] Is(ts[1], "Map") -> OfMap(name, ts[1])
           [] OTHER -> Untyped

(* A call of a function that is known by its name, whatever the scopes say *)
(* of that name.                                                           *)
CallType(e, ts, c) ==
    LET name == IF e.f.k = "id" THEN e.f.name ELSE ""
        special == SpecialType(name, e.args, ts, c)
        sig == IF name \in DOMAIN c.functions THEN c.functions[name] ELSE c.builtins[name]
        checked == FoldLeft(LAMBDA d, i : Expect(d, "argument", ts[i], sig.params[i]),
                            c, [i \in DOMAIN ts |-> i])
    IN CASE special # Untyped -> Typed(special, c)
         [] name \notin DOMAIN c.functions \cup DOMAIN c.builtins -> Typed(AnyT, c)
         [] sig.variadic -> Typed(sig.ret, c)
         [] Len(ts) # Len(sig.params) -> Typed(sig.ret, Report(c, "count", TRUE))
         [] OTHER -> Typed(sig.ret, checked)

-----------------------------------------------------------------------------
(* bind_pattern *)
RECURSIVE BindPattern(_, _, _)
BindPattern(p, t, c) ==
    LET Parts(Of(_)) == FoldLeft(LAMBDA d, i : BindPattern(p.parts[i], Of(i), d), c,
                                 [i \in DOMAIN p.parts |-> i])
        struct == CASE p.name \in DOMAIN c.structs -> c.structs[p.name]
                    [] Is(t, "Named") -> IF t[2] \in DOMAIN c.structs THEN c.structs[t[2]] ELSE Nothing
                    [] OTHER -> Nothing
    IN CASE p.k = "var" -> Bind(c, p.name, t)
         [] p.k = "array" -> Parts(LAMBDA i : IF Is(t, "Array") THEN t[2] ELSE AnyT)
         [] p.k = "tuple" -> Parts(LAMBDA i : IF Is(t, "Tuple") THEN t[2][i] ELSE AnyT)
         [] p.k = "struct" ->
               Parts(LAMBDA i : IF p.fields[i] \in DOMAIN struct THEN struct[p.fields[i]] ELSE AnyT)
         [] p.k = "variant" ->
               Parts(LAMBDA i :
                    CASE p.variant = "Some" -> IF Is(t, "Optional") THEN t[2] ELSE AnyT
                      [] p.variant \in {"Ok", "Err"} /\ Is(t, "Generic") ->
                            IF t[2] = "Result" THEN t[3][IF p.variant = "Ok" THEN 1 ELSE 2] ELSE AnyT
                      [] OTHER -> AnyT)
         [] OTHER -> c

RECURSIVE Infer(_, _)

InferAll(es, c) ==
    FoldLeft(LAMBDA r, e : LET x == Infer(e, r.c) IN Typed(Append(r.t, x.t), x.c), Typed(<<>>, c), es)

CheckBools(es, rule, c) ==   \* the clauses of contracts, and conditions
    FoldLeft(LAMBDA d, e : LET x == Infer(e, d) IN Expect(x.c, rule, x.t, BoolT), c, es)

(* The type of a block is that of its last statement; to know it, every    *)
(* expression and `return` is inferred a second time.                      *)
CheckBlock(ds, c) ==
    FoldLeft(LAMBDA r, d : LET checked == Infer(d, r.c).c
                           IN IF d.k \in {"expr", "return"} THEN Infer(d.e, checked)
                              ELSE Typed(UnitT, checked),
             Typed(UnitT, c), ds)

InScope(ds, c) == Left(CheckBlock(ds, Enter(c)))

BindName(c, p, t) == IF p.k = "var" THEN Bind(c, p.name, t) ELSE c
CheckLet(d, c) ==
    LET value == Infer(d.e, c)
        wanted == ResolveType(d.type, c)
    IN CASE d.type # Untyped -> BindName(Expect(value.c, "let", value.t, wanted), d.pattern, wanted)
         [] d.pattern.k = "tuple" -> FoldLeft(LAMBDA x, p : BindName(x, p, AnyT), value.c, d.pattern.parts)
         [] OTHER -> BindName(value.c, d.pattern, value.t)

CheckFunction(d, c) ==
    LET ret == IF d.ret = Untyped THEN Untyped ELSE ResolveType(d.ret, c)
        linted == FoldLeft(LAMBDA x, t : Report(x, "untyped", c.lint /\ t = Untyped), c, Append(d.types, d.ret))
        inside == BindAll([Enter(linted) EXCEPT !.ret = ret], d.params, Annotations(d.types, c))
        required == CheckBools(d.requires, "requires", inside)
        ensured == IF d.ensures = <<>> THEN required
                   ELSE CheckBools(d.ensures, "ensures",
                                   Bind(required, "result", IF ret = Untyped THEN AnyT ELSE ret))
        body == CheckBlock(d.body, ensured)
        checked == IF ret = Untyped THEN body.c ELSE Expect(body.c, "return", body.t, ret)
    IN [Leave(checked) EXCEPT !.ret = c.ret]

CheckImpl(d, c) ==
    LET fields == IF d.name \in DOMAIN c.structs THEN c.structs[d.name] ELSE Nothing
        inside == [Enter(c) EXCEPT !.vars[Len(c.vars) + 1] = fields]
        checked == Leave(CheckBools(d.invariants, "invariant", inside))
    IN FoldLeft(LAMBDA x, f : CheckFunction(f, x), checked, d.methods)

FileSignatures(path, c) ==   \* of the functions the file declares; none when it cannot be read
    IF path \notin DOMAIN c.files THEN Nothing
    ELSE FoldLeft(CollectDeclaration, Context(Nothing, FALSE), c.files[path]).functions

Imported(d, sigs, c) ==
    FoldLeft(LAMBDA x, i : IF i.name \in DOMAIN sigs THEN [x EXCEPT !.builtins = (i.as :> sigs[i.name]) @@ @]
                           ELSE Bind(x, i.as, AnyT), c, d.items)
RegisterImport(d, c) ==
    CASE d.alias # "" -> Bind(c, d.alias, AnyT)
      [] d.alias = "" /\ d.path \in StdModules -> Imported(d, ModuleSignatures(d.path), c)
      [] OTHER -> Imported(d, FileSignatures(d.path, c), c)

CheckStatement(d, c) ==
    CASE d.k = "expr" -> Infer(d.e, c).c
      [] d.k = "let" -> CheckLet(d, c)
      [] d.k = "fn" -> CheckFunction(d, c)
      [] d.k = "return" ->
            LET r == Infer(d.e, c) IN IF c.ret = Untyped THEN r.c ELSE Expect(r.c, "return", r.t, c.ret)
      [] d.k = "if" -> InScope(d.else, InScope(d.then, CheckBools(<<d.cond>>, "condition", c)).c).c
      [] d.k = "while" -> InScope(d.body, CheckBools(<<d.cond>>, "condition", c)).c
      [] d.k = "for" ->
            LET over == Infer(d.over, c)
                item == CASE over.t[1] \in {"Array", "Map"} -> over.t[2]
                          [] Is(over.t, "String") -> StringT
                          [] OTHER -> AnyT
            IN Leave(CheckBlock(d.body, Bind(Enter(over.c), d.name, item)).c)
      [] d.k = "import" -> RegisterImport(d, c)
      [] d.k = "impl" -> CheckImpl(d, c)
      [] OTHER -> c   \* declarations of types, break, continue, defer, export, module

MatchTypeUnguarded(e, c) ==   \* mutant: guards are not looked at
    LET of == Infer(e.of, c)
    IN FoldLeft(LAMBDA r, arm :
                    LET body == Left(Infer(arm.body, BindPattern(arm.pattern, of.t, Enter(r.c))))
                    IN Typed(IF r.t = Untyped THEN body.t ELSE UnionOf(r.t, body.t), body.c),
                Typed(Untyped, of.c), e.arms)

MatchType(e, c) ==
    LET of == Infer(e.of, c)
    IN FoldLeft(LAMBDA r, arm :
                    LET guarded == Infer(arm.guard, BindPattern(arm.pattern, of.t, Enter(r.c))).c
                        body == Left(Infer(arm.body, guarded))
                    IN Typed(IF r.t = Untyped THEN body.t ELSE UnionOf(r.t, body.t), body.c),
                Typed(Untyped, of.c), e.arms)

StructType(e, c) ==
    LET fields == c.structs[e.name]
    IN Typed(NamedT(e.name),
             IF e.name \notin DOMAIN c.structs THEN c
             ELSE FoldLeft(LAMBDA d, i :
                      LET x == Infer(e.es[i], d)
                      IN IF e.fields[i] \in DOMAIN fields THEN Expect(x.c, "field", x.t, fields[e.fields[i]])
                         ELSE x.c, c, [i \in DOMAIN e.es |-> i]))

VariantType(e, c) ==   \* by its name, whatever its enum
    LET known == IF e.enum \in DOMAIN c.enums THEN e.variant \in DOMAIN c.enums[e.enum] ELSE FALSE
        wanted == c.enums[e.enum][e.variant]
        checked == IF ~known THEN c
                   ELSE IF Len(e.es) # Len(wanted) THEN Report(c, "variant count", TRUE)
                   ELSE FoldLeft(LAMBDA d, i : LET x == Infer(e.es[i], d) IN Expect(x.c, "variant", x.t, wanted[i]),
                                 c, [i \in DOMAIN e.es |-> i])
        first == IF e.es = <<>> THEN Typed(AnyT, checked) ELSE Infer(e.es[1], checked)
    IN CASE e.variant \in {"Some", "None"} ->
                IF e.variant = "None" THEN Typed(OptionalT(AnyT), checked) ELSE Typed(OptionalT(first.t), first.c)
         [] e.variant = "Ok" -> Typed(ResultT(first.t, AnyT), first.c)
         [] e.variant = "Err" -> Typed(ResultT(AnyT, first.t), first.c)
         [] OTHER -> Typed(NamedT(e.enum), checked)

UnionAll(ts) == IF ts = <<>> THEN AnyT ELSE FoldLeft(UnionOf, ts[1], Tail(ts))

(* The parser makes no lambda, `if` expression, await or try; a tree may    *)
(* have them.                                                               *)
LambdaType(e, c) ==
    LET params == Annotations(e.types, c)
        body == Infer(e.e, BindAll(Enter(c), e.params, params))
    IN Typed(FunctionT(params, body.t), Leave(body.c))

IfType(e, c) == LET r == InferAll(<<e.cond, e.then, e.else>>, c) IN Typed(UnionOf(r.t[2], r.t[3]), r.c)

InferExpression(e, c) ==
    CASE e.k = "lit" -> Typed(<<e.v[1]>>, c)
      [] e.k = "id" -> Typed(IF e.name = "None" THEN OptionalT(AnyT) ELSE LookupType(c, e.name), c)
      [] e.k = "binary" -> LET r == InferAll(<<e.l, e.r>>, c) IN Typed(InferBinaryOp(e.op, r.t[1], r.t[2]), r.c)
      [] e.k = "unary" ->
            LET r == Infer(e.e, c)
            IN Typed(IF e.op = "Not" THEN BoolT ELSE IF IsNumber(r.t) THEN r.t ELSE AnyT, r.c)
      [] e.k = "call" -> LET r == InferAll(e.args, c) IN CallType(e, r.t, r.c)
      [] e.k = "method" ->
            LET r == InferAll(<<e.of>> \o e.args, c)
            IN Typed(MethodType(e.method, r.t[1], e.args, Tail(r.t), c), r.c)
      [] e.k = "field" ->
            LET r == Infer(e.of, c)
                fields == IF r.t[1] # "Named" THEN Nothing
                          ELSE IF r.t[2] \in DOMAIN c.structs THEN c.structs[r.t[2]] ELSE Nothing
            IN Typed(IF e.field \in DOMAIN fields THEN fields[e.field] ELSE AnyT, r.c)
      [] e.k = "index" ->
            LET r == InferAll(<<e.of, e.i>>, c)
                of == r.t[1]
            IN Typed(CASE Is(of, "Array") -> of[2] [] Is(of, "Map") -> of[3] [] Is(of, "String") -> of
                       [] OTHER -> AnyT, r.c)
      [] e.k = "array" -> LET r == InferAll(e.es, c) IN Typed(ArrayT(UnionAll(r.t)), r.c)
      [] e.k = "map" ->
            LET r == InferAll(FlattenSeq(e.pairs), c)
                Nth(first) == UnionAll([i \in DOMAIN e.pairs |-> r.t[2 * i - first]])
            IN Typed(MapT(Nth(1), Nth(0)), r.c)
      [] e.k = "range" -> Typed(ArrayT(IntT), c)
      [] e.k \in {"interpolated", "template"} -> Typed(StringT, c)
      [] e.k = "struct" -> StructType(e, c)
      [] e.k = "variant" -> VariantType(e, c)
      [] e.k = "block" -> InScope(e.body, c)
      [] e.k = "match" -> MatchType(e, c)
      [] e.k = "lambda" -> LambdaType(e, c)
      [] e.k = "ifexpr" -> IfType(e, c)
      [] e.k \in {"await", "try"} -> Infer(e.e, c)
      [] e.k = "assign" -> Typed(UnitT, InferAll(<<e.target, e.e>>, c).c)

Expressions == {"lit", "id", "binary", "unary", "call", "method", "field", "index", "array", "map", "range",
                "interpolated", "template", "struct", "variant", "block", "match", "assign", "lambda", "ifexpr",
                "await", "try"}
Infer(e, c) ==   \* there is always a scope
    CASE c.vars = <<>> -> Typed(AnyT, c)
      [] e.k \in Expressions -> InferExpression(e, c)
      [] OTHER -> Typed(UnitT, CheckStatement(e, c))

(* check_program: the declarations, then the statements. strict_check      *)
(* keeps the errors.                                                       *)
CheckProgram(ds, files, lint) ==
    LET collected == FoldLeft(CollectDeclaration, Context(files, lint), ds)
    IN FoldLeft(LAMBDA c, d : Infer(d, c).c, collected, ds)

Warnings == {"condition", "untyped"}
StrictCheck(c) == SelectSeq(c.found, LAMBDA rule : rule \notin Warnings)
=============================================================================
