------------------------------- MODULE Library -------------------------------
(***************************************************************************)
(* The modules of the standard library that compute: std/string (Strings), *)
(* std/collections, std/csv, std/url, std/path and std/json, and how a     *)
(* function of them is called.                                             *)
(*                                                                         *)
(* Modelled from collections.rs, csv.rs, url.rs, path.rs and json.rs of    *)
(* src/src/stdlib and from call_function of src/src/interpreter.rs. A word *)
(* the library itself writes ("scheme") is one character here, and so is an *)
(* escape ("%20"). What serde makes of a text and std::path of a path is   *)
(* external.                                                               *)
(***************************************************************************)
EXTENDS Strings

CONSTANTS
    Codes,       \* the escapes of the characters that an URL may have to escape, one for each byte
    JsonTexts    \* the JSON values that some texts are

KeysInOrder(f) == SetToSeq(DOMAIN f)   \* some order: the program relies on none
Optional(found, v) == IF found THEN SomeV(v) ELSE NoneV

-----------------------------------------------------------------------------
(* std/collections *)
ItemAtPlain(args, i) ==   \* mutant: the item itself
    LET items == args[1][2]
    IN IF items # <<>> THEN items[i] ELSE IF Len(args) = 2 THEN args[2] ELSE NoneV

ItemAt(args, i) ==   \* first and last: an Option, or the item when there is a default
    LET items == args[1][2]
    IN CASE Len(args) = 2 -> IF items = <<>> THEN args[2] ELSE items[i]
         [] items = <<>> -> NoneV
         [] OTHER -> SomeV(items[i])

SliceOf(items, from, to) ==
    LET end == IF AsSize(to) < Len(items) THEN to ELSE Len(items)
    IN IF AsSize(from) > end THEN Raises("RuntimeError") ELSE Gives(ArrV(SubSeq(items, from + 1, end)))

SequenceFunction(name, args) ==
    LET items == args[1][2]
    IN CASE name = "push" -> Gives(ArrV(Append(items, args[2])))
         [] name = "pop" ->
               Gives(ArrV(IF items = <<>> THEN <<ArrV(items), NoneV>> ELSE <<ArrV(Front(items)), SomeV(Last(items))>>))
         [] name \in {"first", "last"} -> Gives(ItemAt(args, IF name = "first" THEN 1 ELSE Len(items)))
         [] name = "reverse" -> Gives(ArrV(Reverse(items)))
         [] name = "slice" -> SliceOf(items, args[2][2], args[3][2])
         [] name = "concat" -> Gives(ArrV(items \o args[2][2]))
         [] name = "is_empty" -> Truth(items = <<>>)

MapFunction(name, args) ==
    LET f == args[1][2]
        keys == KeysInOrder(f)
        has == args[2][2] \in DOMAIN f
        item == f[args[2][2]]
    IN CASE name = "keys" -> TextList(keys)
         [] name = "values" -> Gives(ArrV([i \in DOMAIN keys |-> f[keys[i]]]))
         [] name = "entries" -> Gives(ArrV([i \in DOMAIN keys |-> ArrV(<<StrV(keys[i]), f[keys[i]]>>)]))
         [] name = "has_key" -> Truth(has)
         [] name = "get_key" -> Gives(IF Len(args) = 2 THEN IF has THEN SomeV(item) ELSE NoneV
                                      ELSE IF has THEN item ELSE args[3])

-----------------------------------------------------------------------------
(* std/csv *)
Quote == "\""
NoTable == [rows |-> <<>>, row |-> <<>>, field |-> <<>>, quoted |-> FALSE, skip |-> FALSE]
EndField(t) == [t EXCEPT !.row = Append(@, Trim(t.field, Whitespace)), !.field = <<>>]
EndRow(t) ==   \* a row of one empty field is left out
    LET row == EndField(t).row
    IN [t EXCEPT !.rows = IF row = <<<<>>>> THEN @ ELSE Append(@, row), !.row = <<>>, !.field = <<>>]

ReadCsv(t, c, next) ==
    CASE t.skip -> [t EXCEPT !.skip = FALSE]
      [] ~t.skip /\ t.quoted /\ c = Quote ->
            IF next = Quote THEN [t EXCEPT !.field = Append(@, c), !.skip = TRUE] ELSE [t EXCEPT !.quoted = FALSE]
      [] ~t.skip /\ ~t.quoted /\ c = Quote -> [t EXCEPT !.quoted = TRUE]
      [] ~t.skip /\ ~t.quoted /\ c = "," -> EndField(t)
      [] ~t.skip /\ ~t.quoted /\ c \in {"\n", "\r"} -> [EndRow(t) EXCEPT !.skip = c = "\r" /\ next = "\n"]
      [] OTHER -> [t EXCEPT !.field = Append(@, c)]

ParseCsv(s) ==   \* parse_csv_string
    LET RowsOf(t) == (IF t.field # <<>> \/ t.row # <<>> THEN EndRow(t) ELSE t).rows
    IN RowsOf(FoldLeft(LAMBDA u, i : ReadCsv(u, s[i], IF i = Len(s) THEN "" ELSE s[i + 1]), NoTable, [i \in DOMAIN s |-> i]))

EscapeCsvOnce(field) ==   \* mutant: a quote within quotes is not doubled
    IF ToSet(field) \cap {",", Quote, "\n", "\r"} = {} THEN field ELSE <<Quote>> \o field \o <<Quote>>

EscapeCsv(field) ==
    IF ToSet(field) \cap {",", Quote, "\n", "\r"} = {} THEN field
    ELSE <<Quote>> \o Replaced(field, <<Quote>>, <<Quote, Quote>>) \o <<Quote>>

CsvRow(vs) == Join([i \in DOMAIN vs |-> EscapeCsv(IF vs[i] = Unit THEN <<>> ELSE Show(vs[i]))], <<",">>)
CsvRows(rows) == Join([i \in DOMAIN rows |-> CsvRow(rows[i])], <<"\n">>)

WithHeaders(rows) ==   \* a map of each row; columns without a header are lost
    [i \in DOMAIN rows \ {Len(rows)} |->
        MapV([h \in ToSet(rows[1]) |->
            LET n == Furthest({j \in DOMAIN rows[1] : rows[1][j] = h}, TRUE)
            IN StrV(IF n \in DOMAIN rows[i + 1] THEN rows[i + 1][n] ELSE <<>>)])]

Arrays(rows) == [i \in DOMAIN rows |-> TextList(rows[i]).v]
AllKind(vs, kind) == \A i \in DOMAIN vs : Kind(vs[i]) = kind
Under(m, header) == IF header[2] \in DOMAIN m[2] THEN m[2][header[2]] ELSE StrV(<<>>)

CsvFunction(name, args) ==
    LET a == args[1][2]
    IN CASE name = "parse_csv" -> Gives(ArrV(Arrays(ParseCsv(a))))
         [] name = "parse_with_headers" -> Gives(ArrV(WithHeaders(ParseCsv(a))))
         [] name = "stringify" -> IF AllKind(a, "Array") THEN TextOf(CsvRows([i \in DOMAIN a |-> a[i][2]]))
                                  ELSE Raises("TypeError")
         [] name = "stringify_with_headers" ->
               LET headers == args[2][2]
                   rows == [i \in DOMAIN a |-> [j \in DOMAIN headers |-> Under(a[i], headers[j])]]
               IN IF AllKind(headers, "String") /\ AllKind(a, "Map") THEN TextOf(CsvRows(<<headers>> \o rows))
                  ELSE Raises("TypeError")

-----------------------------------------------------------------------------
(* std/url *)
UrlSafe == {"-", "_", ".", "~", "/", ":", "?", "#", "[", "]", "@", "!", "$", "&", "'", "(", ")", "*", "+", ",", ";", "="}
Escaped(s, kept) == FlattenSeq([i \in DOMAIN s |-> IF s[i] \in DOMAIN Codes \ kept THEN Codes[s[i]] ELSE <<s[i]>>])
UrlEncode(s) == Escaped(s, UrlSafe)
UrlEncodeComponent(s) == Escaped(s, {"-", "_", ".", "~"})

Escapes == UNION {ToSet(Codes[c]) : c \in DOMAIN Codes}
Hex == {"0", "1", "2", "3", "4", "5", "6", "7", "8", "9", "A", "B", "C", "D", "E", "F"}
UpperHex == [x \in Hex |-> x] @@ ("a" :> "A" @@ "b" :> "B" @@ "c" :> "C" @@ "d" :> "D" @@ "e" :> "E" @@ "f" :> "F")
BeyondAscii == {"%" \o x \o y : x \in {"8", "9", "A", "B", "C", "D", "E", "F"}, y \in Hex}

\* part: the bytes of a character that is not complete, or that is none; an
\* escape below 128 that is not in Codes is the name of its character
FromUtf8(bytes) ==
    FoldLeft(LAMBDA r, b :
                LET whole == Append(r.part, b)
                    these == {c \in DOMAIN Codes : Codes[c] = whole}
                IN CASE these # {} -> [r EXCEPT !.chars = Append(@, CHOOSE c \in these : TRUE), !.part = <<>>]
                     [] these = {} /\ r.part = <<>> /\ b \notin Escapes \cup BeyondAscii -> [r EXCEPT !.chars = Append(@, b)]
                     [] OTHER -> [r EXCEPT !.part = whole],
             [chars |-> <<>>, part |-> <<>>], bytes)

(* A `%` is followed by two hexadecimal figures, or by a plus sign and one; *)
(* else the text is in error.                                               *)
UrlDecode(s) ==
    LET CharAt(i) == IF i \in DOMAIN s THEN s[i] ELSE ""
        Begun(i) == CharAt(i) = "%"
        Valid(i) == CharAt(i + 1) \in DOMAIN UpperHex \cup {"+"} /\ CharAt(i + 2) \in DOMAIN UpperHex
        Escape(i) == "%" \o (IF s[i + 1] = "+" THEN "0" ELSE UpperHex[s[i + 1]]) \o UpperHex[s[i + 2]]
        BytesAt(i) == CASE Begun(i - 1) \/ Begun(i - 2) -> <<>>
                        [] Begun(i) -> <<Escape(i)>>
                        [] s[i] = "+" -> Codes[" "]
                        [] s[i] \in DOMAIN Codes -> Codes[s[i]]
                        [] OTHER -> <<s[i]>>
        invalid == \E i \in DOMAIN s : Begun(i) /\ ~Valid(i)
        r == FromUtf8(FlattenSeq([i \in DOMAIN s |-> BytesAt(i)]))
    IN IF invalid \/ r.part # <<>> THEN ErrV(StrV(<<"invalid">>)) ELSE OkV(StrV(r.chars))

Cut(s, at) ==   \* what is before the first `at` and after it
    LET CutAt(i) == IF i = 0 THEN [found |-> FALSE, before |-> s, after |-> <<>>]
                    ELSE [found |-> TRUE, before |-> SubSeq(s, 1, i - 1), after |-> SubSeq(s, i + Len(at), Len(s))]
    IN CutAt(Furthest(Places(s, at), FALSE))

QueryPairs(query, Read(_)) ==   \* the later of two with one key
    LET Item(pair) == Read(pair.before) :> StrV(Read(pair.after))
    IN FoldLeft(LAMBDA f, p : Item(Cut(p, <<"=">>)) @@ f, Empty, SelectSeq(Split(query, <<"&">>), LAMBDA p : p # <<>>))

Root == <<"/">>
Entry(found, word, v) == IF found THEN <<word>> :> v ELSE Empty
Decimal(s) == FoldLeft(LAMBDA n, c : 10 * n + Figures[c], 0, s)

HostAndPort(place, colon, port) ==   \* a colon that figures follow, or nothing
    IF colon # 0 /\ Only(port, DOMAIN Figures)
    THEN [host |-> SubSeq(place, 1, colon - 1), port |-> Entry(port # <<>>, "port", IntV(Decimal(port)))]
    ELSE [host |-> place, port |-> Empty]
UserOf(found, user) ==
    IF ~found THEN Empty ELSE Entry(TRUE, "username", StrV(user.before)) @@ Entry(user.found, "password", StrV(user.after))
ReadHost(auth, host) == UserOf(auth.found, Cut(auth.before, <<":">>)) @@ Entry(host # <<>>, "host", StrV(host))
ReadAuth(auth) == ReadHost(auth, IF auth.found THEN auth.after ELSE auth.before)
ReadPort(r) == ReadAuth(Cut(r.host, <<"@">>)) @@ r.port
ReadPlace(place, colon) == ReadPort(HostAndPort(place, colon, SubSeq(place, colon + 1, Len(place))))
ReadPath(s, slash) ==   \* what stands before the path, and the path
    Entry(slash <= Len(s), "path", StrV(SubSeq(s, slash, Len(s))))
    @@ ReadPlace(SubSeq(s, 1, slash - 1), Furthest({i \in 1..(slash - 1) : s[i] = ":"}, TRUE))
ReadQuery(query) ==
    Entry(query.found, "query", StrV(query.after)) @@ ReadPath(query.before, SelectInSeq(query.before \o Root, LAMBDA c : c = "/"))
    @@ Entry(query.found, "params", MapV(QueryPairs(query.after, LAMBDA x : x)))
ReadFragment(fragment) ==
    Entry(fragment.found, "fragment", StrV(fragment.after)) @@ ReadQuery(Cut(fragment.before, <<"?">>))
ReadScheme(scheme) ==
    Entry(scheme.found, "scheme", StrV(scheme.before))
    @@ ReadFragment(Cut(IF scheme.found THEN scheme.after ELSE scheme.before, <<"#">>))
ParseUrl(url) == Entry(TRUE, "href", StrV(url)) @@ ReadScheme(Cut(url, <<":", "/", "/">>))

BuildQuery(f, keys) ==
    Join([i \in DOMAIN keys |-> UrlEncodeComponent(keys[i]) \o <<"=">> \o UrlEncodeComponent(Show(f[keys[i]]))], <<"&">>)
OrElse(result, s) == IF result[3] = "Ok" THEN result[4][1][2] ELSE s
Lenient(s) == OrElse(UrlDecode(s), s)   \* as it is when it cannot be decoded
ParseQuery(s) == QueryPairs(s, Lenient)
JoinUrl(base, path) == TrimRight(base, {"/"}) \o <<"/">> \o TrimLeft(path, {"/"})

UrlFunction(name, args) ==
    LET a == args[1][2]
    IN CASE name = "parse_url" -> Gives(OkV(MapV(ParseUrl(a))))
         [] name = "encode" -> TextOf(UrlEncode(a))
         [] name = "encode_component" -> TextOf(UrlEncodeComponent(a))
         [] name = "decode" -> Gives(UrlDecode(a))
         [] name = "build_query" -> TextOf(BuildQuery(a, KeysInOrder(a)))
         [] name = "parse_query" -> Gives(MapV(ParseQuery(a)))
         [] name = "join" -> TextOf(JoinUrl(a, args[2][2]))

-----------------------------------------------------------------------------
(* std/path. A path is its components: the root, and names, `.` only when  *)
(* it is the first; the separators between them are written once.          *)
Components(s) ==
    LET names == SelectSeq(Split(s, Root), LAMBDA x : x # <<>>)
        rooted == IF s = <<>> THEN FALSE ELSE s[1] = "/"
        kept == SelectSeq([i \in DOMAIN names |-> i], LAMBDA i : names[i] # <<".">> \/ (i = 1 /\ ~rooted))
    IN (IF rooted THEN <<Root>> ELSE <<>>) \o [i \in DOMAIN kept |-> names[kept[i]]]
WrittenPath(cs) ==
    IF cs = <<>> THEN <<>> ELSE IF cs[1] = Root THEN Root \o Join(Tail(cs), Root) ELSE Join(cs, Root)

Push(cs, part) == IF IsPrefix(<<Root>>, Components(part)) THEN Components(part) ELSE cs \o Components(part)
Above(cs) == IF cs = <<>> \/ cs = <<Root>> THEN <<>> ELSE <<Front(cs)>>   \* parent, if any
FileName(cs) == IF cs = <<>> THEN <<>> ELSE SelectSeq(<<Last(cs)>>, LAMBDA x : x \notin {Root, <<".">>, <<".", ".">>})

Dot(name) ==   \* where the extension begins; 0: there is none
    LET i == Furthest({j \in DOMAIN name : name[j] = "."}, TRUE) IN IF i = 1 THEN 0 ELSE i
Stem(name) == IF Dot(name) = 0 THEN name ELSE SubSeq(name, 1, Dot(name) - 1)
Extension(name) == SubSeq(name, Dot(name) + 1, Len(name))

Normalized(cs) ==
    FoldLeft(LAMBDA r, x : CASE x = <<".">> -> r
                             [] x = <<".", ".">> -> IF Above(r) = <<>> THEN Append(r, x) ELSE Above(r)[1]
                             [] OTHER -> Append(r, x), <<>>, cs)

WithExtension(cs, ext) ==
    IF FileName(cs) = <<>> THEN cs
    ELSE Append(Front(cs), Stem(Last(cs)) \o (IF ext = <<>> THEN <<>> ELSE <<".">> \o ext))

FirstOf(parts) == Gives(IF parts = <<>> THEN NoneV ELSE SomeV(StrV(parts[1])))
FilePart(name, file) ==
    CASE name = "basename" -> FirstOf(file)
      [] name = "extension" -> FirstOf([i \in DOMAIN SelectSeq(file, LAMBDA x : Dot(x) # 0) |-> Extension(file[i])])
      [] name = "stem" -> FirstOf([i \in DOMAIN file |-> Stem(file[i])])
PathPart(name, args, cs) ==
    CASE name = "dirname" -> FirstOf([i \in DOMAIN Above(cs) |-> WrittenPath(Above(cs)[i])])
      [] name \in {"basename", "extension", "stem"} -> FilePart(name, FileName(cs))
      [] name = "is_absolute" -> Truth(IsPrefix(<<Root>>, cs))
      [] name = "is_relative" -> Truth(~IsPrefix(<<Root>>, cs))
      [] name = "with_extension" -> TextOf(WrittenPath(WithExtension(cs, args[2][2])))
      [] name = "normalize" -> TextOf(WrittenPath(Normalized(cs)))
PathFunction(name, args) == PathPart(name, args, Components(args[1][2]))

JoinPath(parts) ==
    IF ~AllKind(parts, "String") THEN Raises("TypeError")
    ELSE TextOf(WrittenPath(FoldLeft(LAMBDA cs, p : Push(cs, p[2]), <<>>, parts)))

-----------------------------------------------------------------------------
(* std/json *)
RECURSIVE ToJson(_)   \* intent_value_to_json
ToJson(v) ==
    CASE Kind(v) = "Unit" -> <<"Null">>
      [] Kind(v) \in {"Bool", "Int", "String"} -> v
      [] Kind(v) = "Array" -> ArrV([i \in DOMAIN v[2] |-> ToJson(v[2][i])])
      [] Kind(v) = "Map" -> <<"Object", [x \in DOMAIN v[2] |-> ToJson(v[2][x])]>>
      [] Kind(v) = "Struct" -> <<"Object", [x \in DOMAIN v[3] |-> ToJson(v[3][x])]>>
      [] OTHER -> StrV(Show(v))

RECURSIVE FromJson(_)   \* json_to_intent_value
FromJson(j) ==
    CASE Kind(j) = "Null" -> Unit
      [] Kind(j) \in {"Bool", "Int", "String"} -> j
      [] Kind(j) = "Array" -> ArrV([i \in DOMAIN j[2] |-> FromJson(j[2][i])])
      [] Kind(j) = "Object" -> MapV([x \in DOMAIN j[2] |-> FromJson(j[2][x])])

JsonFunction(name, args) ==
    CASE name \in {"stringify", "stringify_pretty"} -> TextOf(<<ToString(ToJson(args[1]))>>)
      [] name = "parse_json" -> Gives(IF args[1][2] \in DOMAIN JsonTexts THEN OkV(FromJson(JsonTexts[args[1][2]]))
                                      ELSE ErrV(StrV(<<"invalid">>)))

-----------------------------------------------------------------------------
(* Calls. A function of no arguments takes any number of them.             *)
CollectionKinds ==
    WithKinds({"push"}, <<"Array", "any">>) @@ WithKinds({"pop", "reverse"}, <<"Array">>)
    @@ WithKinds({"slice"}, <<"Array", "Int", "Int">>) @@ WithKinds({"concat"}, <<"Array", "Array">>)
    @@ WithKinds({"is_empty"}, <<"any">>) @@ WithKinds({"keys", "values", "entries"}, <<"Map">>)
    @@ WithKinds({"has_key", "get_key"}, <<"Map", "String">>) @@ WithKinds({"first", "last"}, <<"Array">>)
CsvKinds == WithKinds({"parse_csv", "parse_with_headers"}, <<"String">>) @@ WithKinds({"stringify"}, <<"Array">>)
            @@ WithKinds({"stringify_with_headers"}, <<"Array", "Array">>)
UrlKinds == WithKinds({"parse_url", "encode", "encode_component", "decode", "parse_query"}, <<"String">>)
            @@ WithKinds({"build_query"}, <<"Map">>) @@ WithKinds({"join"}, <<"String", "String">>)
PathKinds == WithKinds({"dirname", "basename", "extension", "stem", "is_absolute", "is_relative", "normalize"}, <<"String">>)
             @@ WithKinds({"join"}, <<"Array">>) @@ WithKinds({"with_extension"}, <<"String", "String">>)
JsonKinds == WithKinds({"stringify", "stringify_pretty"}, <<"any">>) @@ WithKinds({"parse_json"}, <<"String">>)

KindsOf(module) ==
    CASE module = "std/string" -> StringKinds
      [] module = "std/collections" -> CollectionKinds
      [] module = "std/csv" -> CsvKinds
      [] module = "std/url" -> UrlKinds
      [] module = "std/path" -> PathKinds
      [] module = "std/json" -> JsonKinds

TakesDefault(module, name) == module = "std/collections" /\ name \in {"first", "last", "get_key"}   \* count their arguments
Fitting(args, kinds) == \A i \in DOMAIN kinds : kinds[i] \in {"any", Kind(args[i])}

Perform(module, name, args) ==
    CASE module = "std/string" -> IF name = "concat" THEN Concat(args[1], args[2])
                                  ELSE StringFunction(name, [i \in DOMAIN args |-> args[i][2]])
      [] module = "std/collections" ->
            CASE name \in {"keys", "values", "entries", "has_key", "get_key"} -> MapFunction(name, args)
              [] name = "is_empty" /\ Kind(args[1]) \notin {"Array", "String"} -> Raises("TypeError")
              [] OTHER -> SequenceFunction(name, args)
      [] module = "std/csv" -> CsvFunction(name, args)
      [] module = "std/url" -> UrlFunction(name, args)
      [] module = "std/path" -> IF name = "join" THEN JoinPath(args[1][2]) ELSE PathFunction(name, args)
      [] module = "std/json" -> JsonFunction(name, args)

CallNative(module, name, args) ==
    LET Called(kinds, more) ==
            CASE Len(args) \notin {Len(kinds), Len(kinds) + more} -> Raises(IF more = 1 THEN "TypeError" ELSE "ArityMismatch")
              [] Len(args) \in {Len(kinds), Len(kinds) + more} /\ ~Fitting(args, kinds) -> Raises("TypeError")
              [] OTHER -> Perform(module, name, args)
    IN IF name \notin DOMAIN KindsOf(module) THEN Raises("Missing")
       ELSE Called(KindsOf(module)[name], IF TakesDefault(module, name) THEN 1 ELSE 0)
=============================================================================
