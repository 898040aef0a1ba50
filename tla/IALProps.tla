------------------------------ MODULE IALProps ------------------------------
(***************************************************************************)
(* What a sentence of an intent file is taken to say, against what checking*)
(* it does.                                                                *)
(***************************************************************************)
EXTENDS Samples, IAL

CONSTANT MaxDefinitions   \* terms a glossary defines

-----------------------------------------------------------------------------
(* Glossaries: <<"glossary", definitions, sentence>> *)
Term(pattern, texts) == Alias(pattern, texts)
Definitions ==
    [ok |-> Term(<<"ok">>, <<AsText(<<"status", "2xx">>)>>),
     see |-> Term(<<"see", "{text}">>, <<Say(<<"body", "contains">>, "{text}")>>),
     shows |-> Term(<<"shows", "{text}">>, <<AsText(<<"see", "{text}">>), AsText(<<"ok">>)>>),
     good |-> Term(<<"ok">>, <<Say(<<"shows">>, "b c")>>),
     seen |-> Term(<<"see", "{text}">>, <<AsText(<<"body", "contains", "{text}">>)>>),
     exact |-> Term(<<"see", "a">>, <<Say(<<"shows">>, "b")>>),
     field |-> Term(<<"has", "{name}">>, <<AsText(<<"body", "has", "field", "{name}">>)>>)]
Sentences ==
    {AsText(<<"ok">>), AsText(<<"see", "a">>), Say(<<"see">>, "b c"), Say(<<"shows">>, "a"),
     Say(<<"has">>, "b c"), AsText(<<"has", "a">>)}

VocabularyOf(names) == Standard \o [i \in DOMAIN names |-> Definitions[names[i]]]

(* What a term means: its definition with the values put in the place of   *)
(* the holes, each a quoted word however it was written; a term that needs *)
(* more rewritings than there are is said to be endless.                   *)
Bound(text, params) ==
    [i \in DOMAIN text |->
        IF text[i][2] \notin DOMAIN params THEN text[i]
        ELSE <<IF params[text[i][2]] \in Spaced THEN 1 ELSE text[i][1], params[text[i][2]]>>]

RECURSIVE Meant(_, _, _, _)
Meant(text, params, vocab, seen) ==
    LET i == Lookup(vocab, text)
        now == (IF AsText(vocab[i].pattern) = text THEN NoParams ELSE Captured(vocab[i].pattern, text))
                  @@ params
        parts == [j \in DOMAIN vocab[i].def.terms |->
                    Meant(Bound(vocab[i].def.terms[j], now), now, vocab, Append(seen, text))]
        all == {parts[j] : j \in DOMAIN parts}
    IN IF i = 0 THEN [kind |-> "unknown"]
       ELSE IF Contains(seen, text) THEN [kind |-> "endless"]
       ELSE IF vocab[i].def.is # "terms"
       THEN [kind |-> "checks", prims |-> <<SubstitutePrimitive(vocab[i].def, now)>>]
       ELSE IF [kind |-> "endless"] \in all THEN [kind |-> "endless"]
       ELSE IF [kind |-> "unknown"] \in all THEN [kind |-> "unknown"]
       ELSE [kind |-> "checks", prims |-> FlattenSeq([j \in DOMAIN parts |-> parts[j].prims])]

\* the two shapes that the rewriting gets wrong: a value with a space within quotes that the
\* definition has already, and a term met again with another value
RECURSIVE Misread(_, _, _, _)
Misread(text, params, vocab, seen) ==
    LET i == Lookup(vocab, text)
        now == Captured(vocab[i].pattern, text) @@ params
        texts == vocab[i].def.terms
    IN IF i = 0 \/ Contains(seen, text) THEN FALSE
       ELSE \/ \E k \in DOMAIN seen : NormalizeForCycle(seen[k]) = NormalizeForCycle(text)
            \/ /\ vocab[i].def.is = "terms"
               /\ \E j \in DOMAIN texts :
                     \/ \E w \in DOMAIN texts[j] :
                           /\ texts[j][w][1] = 1
                           /\ (IF texts[j][w][2] \in DOMAIN now THEN now[texts[j][w][2]] \in Spaced
                               ELSE FALSE)
                     \/ Misread(Bound(texts[j], now), now, vocab, Append(seen, text))

(* Rewriting a sentence with a glossary gives the checks of its definitions *)
(* written out, in their order; a glossary that goes round in a circle is   *)
(* reported and never hangs; except where a value with a space is quoted    *)
(* twice, or a term comes back with another value. (resolve.rs, lookup.)    *)
ResolutionInlines ==
    Family = "glossary" /\ Len(shape) = 3 =>
    LET vocab == VocabularyOf(shape[2])
        text == shape[3]
        r == Resolve(text, vocab)
        meant == Meant(text, NoParams, vocab, <<>>)
    IN \/ Misread(text, NoParams, vocab, <<>>)
       \/ CASE meant.kind = "endless" -> ~r.ok
            [] meant.kind = "unknown" -> ~r.ok /\ r.why # "depth"
            [] meant.kind = "checks" -> IF r.ok THEN r.prims = meant.prims ELSE r.why = "depth"

-----------------------------------------------------------------------------
(* Assertions: <<"assert", sentence, value, context>> *)
Responses ==
    [page |-> ("response.status" :> Number(200)) @@ ("response.body" :> Str(<<"a", "b c">>))
                @@ ("response.headers" :> <<"Map", "x" :> Str(<<"a">>)>>)
                @@ ("response.time_ms" :> Number(3)),
     number |-> ("response.status" :> Number(404)) @@ ("response.body" :> Str(<<"42">>))
                @@ ("response.headers" :> <<"Map", "x" :> Str(<<"42">>)>>)
                @@ ("response.time_ms" :> Number(60)),
     empty |-> ("response.status" :> Number(204)) @@ ("response.body" :> Str(<<>>))
                @@ ("response.headers" :> <<"Map", NoParams>>) @@ ("response.time_ms" :> Number(0)),
     text |-> ("result" :> Str(<<"a", "b c">>)) @@ ("result.length" :> Number(3)),
     count |-> ("result" :> Number(42)),
     cli |-> ("cli.exit_code" :> Number(0)) @@ ("cli.stdout" :> Str(<<"a">>)) @@ ("cli.stderr" :> Str(<<>>))]

\* the functions of a program, for the numbers 0 and 1, and for structs: <<value, call>> to result;
\* "record" makes a struct of two fields and leaves one alone, "box" one of a single field
Record(n) == <<"Struct", << <<"a", n>>, <<"b", 0>> >> >>
Box(n) == <<"Struct", << <<"a", n>> >> >>
Records == {Record(0), Record(1)}
Twice(result) == [x \in {<<"Int", 0>>, <<"Int", 1>>, <<"Float", 1>>} \X {1, 2} |-> result[x[1][2] + 1][x[2]]]
Functions ==
    [same |-> Twice(<< << <<"Int", 0>>, <<"Int", 0>> >>, << <<"Int", 1>>, <<"Int", 1>> >> >>),
     flip |-> Twice(<< << <<"Int", 1>>, <<"Int", 1>> >>, << <<"Int", 0>>, <<"Int", 0>> >> >>),
     float |-> Twice(<< << <<"Float", 1>>, <<"Float", 1>> >>, << <<"Float", 1>>, <<"Float", 1>> >> >>),
     mixed |-> Twice(<< << <<"Int", 1>>, <<"Float", 1>> >>, << <<"Float", 1>>, <<"Int", 1>> >> >>),
     count |-> Twice(<< << <<"Int", 0>>, <<"Int", 1>> >>, << <<"Int", 0>>, <<"Int", 1>> >> >>),
     record |-> Twice([i \in 1..2 |-> <<Record(i - 1), Record(i - 1)>>]) @@ [x \in Records \X {1, 2} |-> x[1]],
     box |-> Twice([i \in 1..2 |-> <<Box(i - 1), Box(i - 1)>>]),
     open |-> [x \in Records \X {1, 2} |-> <<"Int", x[1][2][1][2]>>],
     partial |-> [x \in {<<"Int", 1>>} \X {1, 2} |-> <<"Int", 1>>]]

Answering(tries, answer) ==
    [faults |-> 0, tries |-> [i \in 1..MaxAttempts |-> IF i <= Len(tries) THEN tries[i] ELSE "refused"],
     answers |-> [answer |-> answer], commands |-> [tool |-> Responses.cli],
     files |-> [data |-> Str(<<"a">>)], functions |-> Functions,
     order |-> <<"as built", "as built">>]

\* sentences with a place for a value, and what they say of the value v and a context c
Words(c, path) == IF path \in DOMAIN c /\ (IF path \in DOMAIN c THEN c[path][1] = "String" ELSE FALSE)
                  THEN c[path][2] ELSE <<>>
NumberIn(c, path) == IF path \in DOMAIN c THEN c[path][2] ELSE -1
HeaderX(c) == IF "response.headers" \notin DOMAIN c THEN <<>>
              ELSE IF "x" \in DOMAIN c["response.headers"][2] THEN c["response.headers"][2]["x"][2] ELSE <<>>
IsNumeral(v) == v \in DOMAIN Numerals
Asserted ==
    [status |-> <<"status:">>, contains |-> <<"body", "contains">>, lacks |-> <<"body", "not", "contains">>,
     field |-> <<"body", "has", "field">>, header |-> <<"header", "x", "equals">>,
     headerHas |-> <<"header", "x", "contains">>, result |-> <<"result", "is">>,
     starts |-> <<"starts", "with">>, without |-> <<"does", "not", "contain">>,
     exit |-> <<"exit", "code", "is">>, stdout |-> <<"stdout", "contains">>,
     atLeast |-> <<"is", "at", "least">>, atMost |-> <<"is", "at", "most">>,
     uses |-> <<"uses", "only">>, unlike |-> <<"does", "not", "start", "with">>]
Holds(sentence, v, c) ==
    CASE sentence = "status" -> NumberIn(c, "response.status") = Numerals[v]
      [] sentence \in {"contains", "field"} -> Contains(Words(c, "response.body"), v)
      [] sentence = "lacks" -> ~Contains(Words(c, "response.body"), v)
      [] sentence = "header" -> HeaderX(c) = <<v>>
      [] sentence = "headerHas" -> Contains(HeaderX(c), v)
      [] sentence = "result" -> IF "result" \notin DOMAIN c THEN FALSE
                                ELSE c["result"] \in {Str(<<v>>)} \cup (IF IsNumeral(v) THEN {Number(Numerals[v])} ELSE {})
      [] sentence = "starts" -> Words(c, "result") # <<>> /\ Head(Words(c, "result") \o <<"">>) = v
      [] sentence = "without" -> ~Contains(Words(c, "result"), v)
      [] sentence = "stdout" -> Contains(Words(c, "cli.stdout"), v)
      [] sentence = "exit" -> NumberIn(c, "cli.exit_code") = Numerals[v]
      [] OTHER -> TRUE

\* sentences whose value never reaches the check
Unfilled == {"exit", "atLeast", "atMost", "uses", "unlike"}
\* text that looks like a number is compared as one: it is never found, nor missed
Numeric(sentence, v) ==
    /\ IsNumeral(v)
    /\ sentence \in {"contains", "lacks", "field", "header", "headerHas", "starts", "without", "stdout"}
Values == Spaced \cup {"a"} \cup DOMAIN Numerals
Sensible(sentence, v) == sentence \in {"status", "exit", "atLeast", "atMost"} => IsNumeral(v)

Verdict(sentence, v, c) ==
    RunScenario(<<Say(Asserted[sentence], v)>>, Standard, Answering(<<"answer">>, c))

VerdictIsRight(sentence, v, c, verdict) ==
    IF Numeric(sentence, v)
    THEN verdict = IF sentence \in {"lacks", "without"} THEN "passed" ELSE "failed"
    ELSE IF sentence = "field" /\ v \in Spaced THEN verdict = "error"   \* the value is quoted twice
    ELSE (verdict = "passed") = Holds(sentence, v, c)

(* A sentence with a value passes exactly when what it says of the value is *)
(* true; except those whose value the standard vocabulary drops, and text   *)
(* that looks like a number. (standard.rs, substitute_value,                *)
(* do_execute_check.)                                                       *)
SentencesMean ==
    Family = "assert" /\ Len(shape) = 4 =>
    IF shape[2] \in Unfilled   \* one verdict whatever the value
    THEN Cardinality({Verdict(shape[2], v, Responses[shape[4]]) : v \in Values}) = 1
    ELSE VerdictIsRight(shape[2], shape[3], Responses[shape[4]],
                        Verdict(shape[2], shape[3], Responses[shape[4]]))

-----------------------------------------------------------------------------
(* Requests and property checks: <<"send", try, ...>> and                   *)
(* <<"check", property, function, inverse, input>>                          *)
Tries == {"refused", "lost", "answer"}

(* A scenario is judged by the first answer that comes back within the      *)
(* attempts and fails without one; by then the server has handled the       *)
(* request once for every answer that was lost, and once for this one.      *)
(* (execute_http.)                                                          *)
RequestsRetried ==
    Family = "send" =>
    LET tries == Tail(shape)
        w == Answering(tries, Responses.page)
        got == \E i \in DOMAIN tries : tries[i] = "answer"
        lost == Len(SelectSeq(tries, LAMBDA t : t = "lost"))
    IN /\ (RunScenario(<<AsText(<<"status", "2xx">>)>>, Standard, w) = "passed") = got
       /\ HandledTimes(w) = lost + (IF got THEN 1 ELSE 0)

\* what a program says of its own values: here 1 and 1.0 are the same
Same(a, b) == a = b \/ (a[1] \in {"Int", "Float"} /\ b[1] \in {"Int", "Float"} /\ a[2] = b[2])
Inputs == {<<"Int", 0>>, <<"Int", 1>>, <<"Float", 1>>} \cup Records
Defined(f, v) == <<v, 1>> \in DOMAIN Functions[f]
Yields(f, v) == Functions[f][<<v, 1>>]
Pure(f) == \A v \in Inputs : Defined(f, v) => Functions[f][<<v, 1>>] = Functions[f][<<v, 2>>]

\* one value may be listed in two ways: the check of a struct of several fields may fail
ListedDifferently(v, order) == v[1] = "Struct" /\ Len(v[2]) > 1 /\ order[1] # order[2]

(* For functions whose result depends on the argument alone, a check that   *)
(* one is deterministic, idempotent or undone by another passes only when   *)
(* it is, for that input and with numbers compared by value; and it passes  *)
(* whenever it is, but for the first two of a result that is a struct of    *)
(* several fields, whose two texts may list them in two orders. A counter   *)
(* is found out, and a call that fails fails the check.                     *)
(* (execute_property_check, interpreter_value_to_ial_value.)                *)
PropertyChecksTell ==
    Family = "check" /\ Len(shape) = 5 => \A order \in Orders \X Orders :
    LET f == shape[3]
        again == IF shape[2] = "RoundTrips" THEN shape[4] ELSE f
        ctx == [x \in {} |-> Null]
        passed == Execute([is |-> "property", property |-> shape[2], function |-> f,
                           inverse |-> shape[4], input |-> Number(shape[5])],
                          ctx, [Answering(<<>>, ctx) EXCEPT !.order = order]).passed
        x == <<"Int", shape[5]>>
        y == Yields(f, x)
        right == /\ Defined(f, x)
                 /\ \/ shape[2] = "Deterministic"
                    \/ /\ Defined(again, y)
                       /\ Same(Yields(again, y), IF shape[2] = "RoundTrips" THEN x ELSE y)
    IN /\ Pure(f) /\ Pure(again) =>
            /\ passed => right
            /\ right => passed \/ (shape[2] # "RoundTrips" /\ ListedDifferently(y, order))
       /\ f = "count" /\ shape[2] # "RoundTrips" => ~passed

(* A value given to a function of the program and back is the same value,   *)
(* but for a range and a regular expression.                                *)
ConversionsKeep ==
    Family = "check" =>
        LET simple == {Number(0), Number(1), Str(<<"a">>), Null, <<"Bool", TRUE>>}
            nested == {<<"Array", <<v, Number(1)>> >> : v \in simple} \cup {<<"Map", "k" :> v>> : v \in simple}
        IN \A v \in simple \cup nested, order \in Orders : FromProgram(ToProgram(v), order) = v

(* Assertions, requests and property checks report what is the case, but    *)
(* for the exceptions named with each.                                      *)
AssertionsSayWhatTheyMean == SentencesMean /\ RequestsRetried /\ PropertyChecksTell /\ ConversionsKeep

-----------------------------------------------------------------------------
IALStarts == {<<"glossary", <<>> >>} \cup {<<"assert", x>> : x \in DOMAIN Asserted}
             \cup {<<"send">>} \cup {<<"check", p>> : p \in {"Deterministic", "Idempotent", "RoundTrips"}}

IALGrows ==
    \/ /\ Family = "glossary" /\ Len(shape) = 2 /\ Len(shape[2]) < MaxDefinitions
       /\ \E d \in DOMAIN Definitions : shape' = [shape EXCEPT ![2] = Append(@, d)]
    \/ /\ Family = "glossary" /\ Len(shape) = 2
       /\ \E t \in Sentences : Piece(t)
    \/ /\ Family = "assert" /\ Len(shape) = 2
       /\ \E v \in Values, c \in DOMAIN Responses :
             Sensible(shape[2], v) /\ Pieces(<<v, c>>)
    \/ /\ Family = "send" /\ Len(shape) <= MaxAttempts /\ ~(\E i \in DOMAIN shape : shape[i] = "answer")
       /\ \E t \in Tries : Piece(t)
    \/ /\ Family = "check" /\ Len(shape) = 2
       /\ \E f, g \in DOMAIN Functions, n \in {0, 1} : Pieces(<<f, g, n>>)
=============================================================================
