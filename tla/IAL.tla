--------------------------------- MODULE IAL ---------------------------------
(***************************************************************************)
(* The Intent Assertion Language: how a sentence of an intent file becomes *)
(* checks, and what the checks say of a response.                          *)
(*                                                                         *)
(* Modelled from src/src/ial: vocabulary.rs (patterns, lookup), resolve.rs *)
(* (rewriting, cycles, substitution), standard.rs (the standard terms) and *)
(* execute.rs (contexts and checks). A text is a sequence of words <<n, w>>*)
(* where n counts the double quotes around w; only a quoted word may have  *)
(* a space in it. A pattern is a sequence of plain words, of which those   *)
(* in Holes stand for a captured word. A string that checks look at is a   *)
(* sequence of words too. Placeholders written $name, single quotes and    *)
(* letter case are left out.                                               *)
(***************************************************************************)
EXTENDS Integers, Sequences, FiniteSets, SequencesExt, TLC

CONSTANTS
    Holes,     \* "{text}", ...: words that stand for a parameter
    Spaced,    \* words with a space in them
    Numerals,  \* words that parse as a number, with the number
    MaxDepth,  \* MAX_DEPTH
    MaxAttempts \* times a request is sent before it counts as failed

ASSUME IALAssumption == MaxDepth \in Nat /\ MaxAttempts \in Nat \ {0} /\ Holes \cap Spaced = {} /\ DOMAIN Numerals \cap Spaced = {}

NoParams == [h \in {} |-> ""]
Plain(w) == <<0, w>>
Quoted(w) == <<1, w>>
AsText(pattern) == [i \in DOMAIN pattern |-> Plain(pattern[i])]

-----------------------------------------------------------------------------
(* Patterns and vocabularies: sequences of [pattern, def] *)
HolesOf(pattern) == {i \in DOMAIN pattern : pattern[i] \in Holes}

\* a hole takes one word, quoted or not; quotes within quotes fit no hole
MatchText(pattern, text) ==
    /\ Len(pattern) = Len(text)
    /\ \A i \in DOMAIN pattern :
          IF i \in HolesOf(pattern) THEN text[i][1] = 1 \/ (text[i][1] = 0 /\ text[i][2] \notin Spaced) ELSE text[i] = Plain(pattern[i])

Captured(pattern, text) ==
    [h \in {pattern[i] : i \in HolesOf(pattern)} |->
        text[CHOOSE i \in DOMAIN pattern : pattern[i] = h][2]]

Size(pattern) == FoldLeft(LAMBDA n, w : n + Len(w) + 1, 0, pattern)

(* An entry by its very text, the last added; else the longest pattern that *)
(* fits, the first added of those.                                          *)
Lookup(vocab, text) ==
    LET exact == {i \in DOMAIN vocab : AsText(vocab[i].pattern) = text}
        fits == {i \in DOMAIN vocab : MatchText(vocab[i].pattern, text)}
        longest == {i \in fits : \A j \in fits : Size(vocab[j].pattern) <= Size(vocab[i].pattern)}
    IN CASE exact # {} -> Max(exact)
         [] exact = {} /\ fits # {} -> Min(longest)
         [] OTHER -> 0

-----------------------------------------------------------------------------
(* Substitution *)
SubstituteUnquoted(text, params) ==   \* mutant: a value with spaces is put in bare
    [i \in DOMAIN text |->
        IF text[i][2] \in DOMAIN params THEN <<text[i][1], params[text[i][2]]>> ELSE text[i]]

\* a value with a space gets quotes of its own, also between quotes
Substitute(text, params) ==
    [i \in DOMAIN text |->
        IF text[i][2] \notin DOMAIN params THEN text[i]
        ELSE LET v == params[text[i][2]]
             IN <<text[i][1] + (IF v \in Spaced THEN 1 ELSE 0), v>>]

Number(n) == <<"Number", n>>
Str(words) == <<"String", words>>
Hole(h) == <<"String", <<h>>>>

SubstituteString(w, params) == IF w \in DOMAIN params THEN params[w] ELSE w

SubstituteValueAsText(v, params) ==   \* mutant: what looks like a number stays a string
    IF v[1] # "String" THEN v ELSE Str([i \in DOMAIN v[2] |-> SubstituteString(v[2][i], params)])

\* strings that look like numbers become numbers; the rest is left as it is
SubstituteValue(v, params) ==
    IF v[1] # "String" THEN v
    ELSE LET words == [i \in DOMAIN v[2] |-> SubstituteString(v[2][i], params)]
         IN IF Len(words) = 1 /\ (IF Len(words) = 1 THEN words[1] \in DOMAIN Numerals ELSE FALSE)
            THEN Number(Numerals[words[1]]) ELSE Str(words)

SubstitutePrimitive(p, params) ==
    IF p.is # "check" THEN p
    ELSE [p EXCEPT !.path = [i \in DOMAIN @ |-> SubstituteString(@[i], params)],
                   !.expected = SubstituteValue(@, params)]

-----------------------------------------------------------------------------
(* Rewriting until only primitives are left *)
Found(prims) == [ok |-> TRUE, prims |-> prims]
Failed(why) == [ok |-> FALSE, why |-> why]
Joined(a, b) == IF b.ok THEN Found(a.prims \o b.prims) ELSE b

NormalizeForCycle(text) ==
    [i \in DOMAIN text |->
        IF text[i][1] = 1 \/ text[i][2] \in Holes THEN Quoted("<P>") ELSE text[i]]

RECURSIVE ResolveEach(_, _, _, _, _)

\* entry 0 is none; an entry found by its very text captures nothing
ResolveWith(i, captured, text, inherited, vocab, depth, visited) ==
    IF depth > MaxDepth THEN Failed("depth")
    ELSE IF NormalizeForCycle(text) \in visited THEN Failed("cycle")
    ELSE IF i = 0 THEN Failed("unknown")
    ELSE IF vocab[i].def.is # "terms"
    THEN Found(<<SubstitutePrimitive(vocab[i].def, captured @@ inherited)>>)
    ELSE ResolveEach(vocab[i].def.terms, captured @@ inherited, vocab, depth + 1,
                     visited \cup {NormalizeForCycle(text)})

CapturedBy(i, text, vocab) ==
    IF i = 0 THEN NoParams
    ELSE IF AsText(vocab[i].pattern) = text THEN NoParams ELSE Captured(vocab[i].pattern, text)

ResolveTerm(text, inherited, vocab, depth, visited) ==
    ResolveWith(Lookup(vocab, text), CapturedBy(Lookup(vocab, text), text, vocab),
                text, inherited, vocab, depth, visited)

ResolveEach(texts, params, vocab, depth, visited) ==   \* the first failure ends it
    FoldLeft(LAMBDA so, text :
                 IF ~so.ok THEN so ELSE Joined(so, ResolveTerm(Substitute(text, params), params, vocab, depth, visited)),
             Found(<<>>), texts)

Resolve(text, vocab) == ResolveTerm(text, NoParams, vocab, 0, {})

-----------------------------------------------------------------------------
(* The standard vocabulary. The number 0 stands where the code says         *)
(* "placeholder": it is never substituted, nor is a regular expression.     *)
Check(pattern, op, path, expected) ==
    [pattern |-> pattern,
     def |-> [is |-> "check", op |-> op, path |-> path, expected |-> expected]]
Alias(pattern, terms) == [pattern |-> pattern, def |-> [is |-> "terms", terms |-> terms]]
Status == <<"response.status">>
Body == <<"response.body">>
ResultPath == <<"result">>
HeaderOf(h) == <<"response.headers", h>>
Regex(r) == <<"Regex", r>>
Null == <<"Null">>
Say(words, value) == AsText(words) \o <<Quoted(value)>>

StandardHttp ==
    <<Check(<<"status:", "{code}">>, "Equals", Status, Hole("{code}")),
      Check(<<"status", "2xx">>, "InRange", Status, <<"Range", 200, 299>>),
      Check(<<"status", "4xx">>, "InRange", Status, <<"Range", 400, 499>>),
      Check(<<"status", "5xx">>, "InRange", Status, <<"Range", 500, 599>>),
      Check(<<"body", "contains", "{text}">>, "Contains", Body, Hole("{text}")),
      Check(<<"body", "not", "contains", "{text}">>, "NotContains", Body, Hole("{text}")),
      Check(<<"body", "matches", "{pattern}">>, "Matches", Body, Regex("{pattern}")),
      Check(<<"body", "is", "empty">>, "Equals", Body, Str(<<>>)),
      Check(<<"body", "is", "not", "empty">>, "NotEquals", Body, Str(<<>>)),
      Alias(<<"body", "has", "field", "{field}">>, <<Say(<<"body", "contains">>, "{field}")>>)>>

StandardMore ==
    <<Check(<<"response", "is", "valid", "JSON">>, "Matches", Body, Regex("json")),
      Check(<<"response", "time", "<", "{ms}", "ms">>, "LessThan", <<"response.time_ms">>, Number(0)),
      Check(<<"response", "time", "<", "{seconds}", "s">>, "LessThan", <<"response.time_ms">>, Number(0)),
      Check(<<"header", "{name}", "exists">>, "Exists", <<"response.headers">>, Null),
      Check(<<"header", "{name}", "equals", "{value}">>, "Equals", HeaderOf("{name}"), Hole("{value}")),
      Check(<<"header", "{name}", "contains", "{value}">>, "Contains", HeaderOf("{name}"), Hole("{value}")),
      Alias(<<"content-type", "is", "json">>,
            <<Say(<<"header", "content-type", "contains">>, "application/json")>>)>>

StandardOther ==
    <<Check(<<"exit", "code", "is", "{code}">>, "Equals", <<"cli.exit_code">>, Number(0)),
      Check(<<"stdout", "contains", "{text}">>, "Contains", <<"cli.stdout">>, Hole("{text}")),
      Check(<<"stderr", "is", "empty">>, "Equals", <<"cli.stderr">>, Str(<<>>)),
      [pattern |-> <<"code", "passes", "lint">>, def |-> [is |-> "quality"]],
      Check(<<"no", "syntax", "errors">>, "Equals", <<"code.quality.error_count">>, Number(0)),
      Alias(<<"no", "lint", "errors">>, <<AsText(<<"no", "syntax", "errors">>)>>),
      Check(<<"no", "lint", "warnings">>, "Equals", <<"code.quality.warning_count">>, Number(0)),
      Check(<<"result", "is", "{expected}">>, "Equals", ResultPath, Hole("{expected}")),
      Check(<<"result", "equals", "{expected}">>, "Equals", ResultPath, Hole("{expected}")),
      Alias(<<"is", "deterministic">>, <<AsText(<<"property:", "deterministic">>)>>),
      Alias(<<"is", "predictable">>, <<AsText(<<"is", "deterministic">>)>>)>>

StandardValues ==
    <<Check(<<"uses", "only", "{pattern}">>, "Matches", ResultPath, Regex("^{pattern}+$")),
      Check(<<"is", "lowercase">>, "Matches", ResultPath, Regex("lowercase")),
      Check(<<"is", "non-empty">>, "NotEquals", ResultPath, Str(<<>>)),
      Check(<<"does", "not", "start", "with", "{prefix}">>, "Matches", ResultPath, Regex("^(?!{prefix}).*$")),
      Check(<<"does", "not", "contain", "{text}">>, "NotContains", ResultPath, Hole("{text}")),
      Check(<<"starts", "with", "{prefix}">>, "StartsWith", ResultPath, Hole("{prefix}")),
      Check(<<"ends", "with", "{suffix}">>, "EndsWith", ResultPath, Hole("{suffix}")),
      Check(<<"length", "is", "at", "most", "{max}">>, "LessThan", <<"result.length">>, Number(0)),
      Check(<<"is", "at", "least", "{min}">>, "GreaterThan", ResultPath, Number(0)),
      Check(<<"is", "at", "most", "{max}">>, "LessThan", ResultPath, Number(0))>>

Standard == StandardHttp \o StandardMore \o StandardOther \o StandardValues

-----------------------------------------------------------------------------
(* Checks of a context: paths with their values, None for no value *)
None == <<"None">>
Get(ctx, path) ==   \* a path, or the key of a map
    IF Len(path) = 1 THEN IF path[1] \in DOMAIN ctx THEN ctx[path[1]] ELSE None
    ELSE IF path[1] \notin DOMAIN ctx THEN None
    ELSE IF path[2] \in DOMAIN ctx[path[1]][2] THEN ctx[path[1]][2][path[2]] ELSE None

\* a regular expression with a hole left in it, or that looks behind or ahead, does not compile
Compiles(r) == r \in {"json", "lowercase"}
LooksLike(words, r) == \A i \in DOMAIN words : words[i] = r   \* external: the regex crate

ExecuteCheck(p, ctx) ==
    LET a == Get(ctx, p.path)
        e == p.expected
        Both(x, y) == a[1] = x /\ e[1] = y
    IN CASE p.op = "Equals" -> a = e
         [] p.op = "NotEquals" -> a # e
         [] p.op = "Contains" -> Both("String", "String") /\ Contains(a[2], e[2][1])
         [] p.op = "NotContains" -> ~(Both("String", "String") /\ Contains(a[2], e[2][1]))
         [] p.op = "StartsWith" -> Both("String", "String") /\ IsPrefix(e[2], a[2])
         [] p.op = "EndsWith" -> Both("String", "String") /\ IsSuffix(e[2], a[2])
         [] p.op = "Matches" -> Both("String", "Regex") /\ Compiles(e[2]) /\ LooksLike(a[2], e[2])
         [] p.op = "Exists" -> a \notin {None, Null}
         [] p.op = "LessThan" -> Both("Number", "Number") /\ a[2] < e[2]
         [] p.op = "GreaterThan" -> Both("Number", "Number") /\ a[2] > e[2]
         [] p.op = "InRange" -> Both("Number", "Range") /\ a[2] \in e[2]..e[3]

-----------------------------------------------------------------------------
(* Actions. The world they act in is a record: faults, the files of the     *)
(* directory that do not parse; tries, what becomes of each attempt to send *)
(* a request ("refused", "lost" after the server handled it, or the answer  *)
(* as a context); commands, files and functions, by name; order, in which   *)
(* order a struct lists its fields.                                         *)
Did(ctx) == [passed |-> TRUE, ctx |-> ctx]
DidNot(ctx) == [passed |-> FALSE, ctx |-> ctx]

ExecuteCodeQuality(ctx, w) ==   \* lint finds nothing: only files that do not parse count
    [passed |-> w.faults = 0,
     ctx |-> ("code.quality.error_count" :> Number(w.faults)) @@
             ("code.quality.warning_count" :> Number(0)) @@ ctx]

\* the attempts made: up to the first that brings an answer back
Attempts(w) ==
    LET answered == {i \in 1..MaxAttempts : w.tries[i] \notin {"refused", "lost"}}
    IN IF answered = {} THEN MaxAttempts ELSE Min(answered)
HandledTimes(w) == Cardinality({i \in 1..Attempts(w) : w.tries[i] # "refused"})

ExecuteHttp(ctx, w) ==
    LET last == w.tries[Attempts(w)]
    IN IF last \in {"refused", "lost"} THEN DidNot(ctx) ELSE Did(w.answers[last] @@ ctx)

ExecuteCli(command, ctx, w) ==
    IF command \notin DOMAIN w.commands THEN DidNot(ctx) ELSE Did(w.commands[command] @@ ctx)

ExecuteReadFile(file, ctx, w) ==
    IF file \in DOMAIN w.files
    THEN Did((file \o ".content" :> w.files[file]) @@ (file \o ".exists" :> <<"Bool", TRUE>>) @@ ctx)
    ELSE DidNot((file \o ".exists" :> <<"Bool", FALSE>>) @@ ctx)

(* Values of the program and back: whole numbers become integers, a range   *)
(* an array, a regular expression a string, arrays and maps the same of     *)
(* what they hold. A struct becomes its text, which lists the fields of a   *)
(* hash map: each map that was built has an order of its own, and w.order[n] *)
(* says whether the n-th value lists them as <<"Struct", fields>> or        *)
(* backwards. Other values become their text.                               *)
RECURSIVE ToProgram(_)
ToProgram(v) ==
    CASE v[1] = "Number" -> <<"Int", v[2]>>
      [] v[1] = "Range" -> <<"Array", << <<"Float", v[2]>>, <<"Float", v[3]>> >> >>
      [] v[1] = "Regex" -> Str(<<v[2]>>)
      [] v[1] = "Null" -> <<"Unit">>
      [] v[1] \in {"Array", "Map"} -> <<v[1], [i \in DOMAIN v[2] |-> ToProgram(v[2][i])]>>
      [] OTHER -> v

Orders == {"as built", "backwards"}
FieldsListed(v, order) == IF order = "backwards" THEN Reverse(v[2]) ELSE v[2]

FromProgramAsIs(v, order) == IF v[1] = "Int" THEN Number(v[2]) ELSE v   \* mutant: floats are values of their own

RECURSIVE FromProgram(_, _)
FromProgram(v, order) ==
    CASE v[1] \in {"Int", "Float"} -> Number(v[2])
      [] v[1] \in {"String", "Bool"} -> v
      [] v[1] = "Unit" -> Null
      [] v[1] \in {"Array", "Map"} -> <<v[1], [i \in DOMAIN v[2] |-> FromProgram(v[2][i], order)]>>
      [] v[1] = "Struct" -> Str(<<ToString(FieldsListed(v, order))>>)
      [] OTHER -> Str(<<ToString(v)>>)

(* A function of the program: its result for the n-th call since the source *)
(* was loaded.                                                              *)
Invoke(functions, f, v, n) ==
    IF f \notin DOMAIN functions THEN DidNot(Null)
    ELSE IF <<v, n>> \in DOMAIN functions[f] THEN Did(functions[f][<<v, n>>]) ELSE DidNot(Null)

ExecuteFunctionCall(f, arg, ctx, w) ==
    LET r == Invoke(w.functions, f, ToProgram(arg), 1)
    IN IF r.passed THEN Did(("result" :> FromProgram(r.ctx, w.order[1])) @@ ctx) ELSE DidNot(ctx)

(* Both calls are made in one interpreter, whose state the first may change. *)
ExecutePropertyCheck(p, ctx, w) ==
    LET x == ToProgram(p.input)
        first == Invoke(w.functions, p.function, x, 1)
        then == CASE p.property = "Deterministic" -> Invoke(w.functions, p.function, x, 2)
                  [] p.property = "Idempotent" -> Invoke(w.functions, p.function, first.ctx, 2)
                  [] p.property = "RoundTrips" -> Invoke(w.functions, p.inverse, first.ctx, 2)
        left == FromProgram(IF p.property = "RoundTrips" THEN x ELSE first.ctx, w.order[1])
    IN IF first.passed /\ then.passed /\ left = FromProgram(then.ctx, w.order[2])
       THEN Did(("result" :> left) @@ ctx) ELSE DidNot(ctx)

Execute(p, ctx, w) ==
    CASE p.is = "check" -> [passed |-> ExecuteCheck(p, ctx), ctx |-> ctx]
      [] p.is = "quality" -> ExecuteCodeQuality(ctx, w)
      [] p.is = "http" -> ExecuteHttp(ctx, w)
      [] p.is = "cli" -> ExecuteCli(p.command, ctx, w)
      [] p.is = "file" -> ExecuteReadFile(p.file, ctx, w)
      [] p.is = "call" -> ExecuteFunctionCall(p.function, p.input, ctx, w)
      [] p.is = "property" -> ExecutePropertyCheck(p, ctx, w)
      [] p.is = "sql" -> DidNot(ctx)                                  \* not implemented
      [] p.is = "invariant" -> DidNot(("invariant.value" :> p.input) @@ ctx)   \* was not expanded

\* all of them in order, also after one that failed
ExecuteAll(prims, ctx, w) ==
    FoldLeft(LAMBDA r, p : LET now == Execute(p, r.ctx, w)
                           IN [passed |-> r.passed /\ now.passed, ctx |-> now.ctx],
             Did(ctx), prims)

(* run_scenario: the request, then the assertions when it was answered; one *)
(* that does not resolve is an error of the scenario, reported when it is   *)
(* reached.                                                                 *)
Judged(request, r, w) ==
    IF ~request.passed THEN "failed"
    ELSE IF ~r.ok THEN "error"
    ELSE IF ExecuteAll(r.prims, request.ctx, w).passed THEN "passed" ELSE "failed"
RunScenario(texts, vocab, w) ==
    Judged(ExecuteHttp([x \in {} |-> Null], w), ResolveEach(texts, NoParams, vocab, 0, {}), w)
=============================================================================
