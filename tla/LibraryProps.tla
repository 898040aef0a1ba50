----------------------------- MODULE LibraryProps -----------------------------
(***************************************************************************)
(* Texts, tables, addresses, paths, values and lists, built piece by       *)
(* piece, and what the functions of the library that undo each other, or   *)
(* say the same thing, make of them; and calls of the library, beside what *)
(* the type checker believes of them.                                      *)
(***************************************************************************)
EXTENDS TypeCheckerProps, Library

CONSTANT MaxPieces   \* characters of a text, fields of a table, items of a list

TextsOf(chars, n) == UNION {[1..m -> chars] : m \in 0..n}
HasWide(s) == ToSet(s) \cap Wide # {}
Flat(pieces) == FlattenSeq(pieces)

-----------------------------------------------------------------------------
(* Words *)
Letters == DOMAIN UpperCase \cup Uppers \cup Wide \cup {"1", " ", "-", "_"}
Delimiters == {<<>>, <<"a">>, <<"a", "a">>, <<"w">>, <<"-", "a">>}
Fills == {<<>>, <<".">>, <<".", ".">>, <<"w">>}

TakenApart(s, d) ==   \* of a text that is taken apart at d
    LET parts == Split(s, d)
        first == SearchFunction("index_of", s, d).v[2]
        last == SearchFunction("last_index_of", s, d).v[2]
        found == SubstringFunction("substring", <<s, first, first + Len(d)>>)
    IN /\ Join(parts, d) = s
       /\ d # <<>> => \A i \in DOMAIN parts : Places(parts[i], d) = {}
       /\ SearchFunction("count", s, d).v[2] = Len(parts) - 1
       /\ \A to \in Fills : /\ Len(Replaced(s, d, to)) = Len(s) + (Len(parts) - 1) * (Len(to) - Len(d))
                            /\ Len(parts) = 2 => Replaced(s, d, to) = ReplacedFirst(s, d, to)
       /\ (first = -1) = (Len(parts) = 1) /\ (first <= last) /\ ((first = 0) = IsPrefix(d, s))
       /\ IsSuffix(d, s) => last = Bytes(s) - Bytes(d)
       /\ Len(parts) > 1 /\ ~HasWide(parts[1]) => found = TextOf(d)

Fitted(s, n, fill) ==   \* what is cut, or padded, to a length
    LET cut == Truncated(s, n, fill)
        Pad(name) == PadFunction(name, <<s, n, fill>>).v[2]
        short == n > Bytes(s)
    IN /\ Len(s) <= n => cut = s
       /\ Len(cut) <= n \/ Bytes(fill) > n
       /\ \A name \in {"pad_left", "pad_right", "center"} :
            LET padded == Pad(name)
            IN /\ ~short => padded = s
               /\ short => IF HasWide(fill) THEN Bytes(padded) > n \/ Bytes(padded) = n ELSE Bytes(padded) = n
       /\ IsSuffix(s, Pad("pad_left")) /\ IsPrefix(s, Pad("pad_right"))
       /\ Len(Pad("pad_left")) = Len(Pad("center"))

Recased(s) ==
    LET pascal == Humped(s, TRUE)
        snake == Delimited(s, {" ", "-"}, "_")
        slug == Slug(s)
    IN /\ Changed(Changed(s, Down), Up) = Changed(s, Up)
       /\ Humped(snake, TRUE) = pascal
       /\ Delimited(snake, {" ", "-"}, "_") = snake
       /\ Delimited(s, {" ", "_"}, "-") = Replaced(snake, <<"_">>, <<"-">>)
       /\ Only(slug, Alphanumeric \cup {"-"}) /\ Places(slug, <<"-", "-">>) = {} /\ Trim(slug, {"-"}) = slug
       /\ Slug(slug) = Replaced(slug, <<"-">>, <<>>)   \* a dash is not kept
       /\ WordsOf(Join(WordsOf(s), <<" ">>)) = WordsOf(s)
       /\ Trim(s, Whitespace) = TrimLeft(TrimRight(s, Whitespace), Whitespace)

WordLaws(s) ==
    /\ \A d \in Delimiters : TakenApart(s, d)
    /\ \A n \in 0..MaxPieces, fill \in Fills : Fitted(s, n, fill)
    /\ Recased(s)

-----------------------------------------------------------------------------
(* Patterns with `*` and `?` *)
RECURSIVE Covers(_, _)   \* what such a pattern means
Covers(s, p) ==
    CASE p = <<>> -> s = <<>>
      [] p # <<>> /\ p[1] = "*" -> \E n \in 0..Len(s) : Covers(SubSeq(s, n + 1, Len(s)), Tail(p))
      [] OTHER -> s # <<>> /\ p[1] \in {"?", s[1]} /\ Covers(Tail(s), Tail(p))

\* a text with a star in it may be missed
GlobLaws(p) ==
    \A s \in TextsOf({"a", "b", "*"}, 3) :
        IF "*" \in ToSet(s) THEN GlobFunction(s, p).v[2] => Covers(s, p) ELSE GlobFunction(s, p).v[2] = Covers(s, p)

-----------------------------------------------------------------------------
(* Tables: fields, and a mark between the rows *)
NewRow == <<"row">>
Fields == {<<>>, <<"a">>, <<",", Quote>>, <<"\n", "a">>, <<" ", "a">>, <<"\r">>}
Rows(pieces) == Split(pieces, <<NewRow>>)
AsArrays(rows) == [i \in DOMAIN rows |-> TextList(rows[i]).v[2]]
Trimmed(row) == [j \in DOMAIN row |-> Trim(row[j], Whitespace)]

\* the blanks around a field are lost, and so are rows of one empty field
TableLaws(rows) ==
    LET kept == SelectSeq([i \in DOMAIN rows |-> Trimmed(rows[i])], LAMBDA row : row \notin {<<>>, <<<<>>>>})
    IN ParseCsv(CsvRows(AsArrays(rows))) = kept

FileLaws(s) ==   \* of a text
    /\ ParseCsv(CsvRows(AsArrays(ParseCsv(s)))) = ParseCsv(s)
    /\ \A ls \in {Lines(s)} :
        (\A i \in DOMAIN ls : ~IsSuffix(<<"\r">>, ls[i])) /\ ~IsSuffix(<<<<>>>>, ls) => Lines(Join(ls, <<"\n">>)) = ls

-----------------------------------------------------------------------------
(* Addresses and queries *)
AddressPieces == {<<"a">>, <<":", "/", "/">>, <<"/">>, <<":">>, <<"?">>, <<"#">>, <<"=">>, <<"@">>, <<"1">>}
Numeral(n) == CHOOSE d \in TextsOf(DOMAIN Figures, MaxPieces) : d # <<>> /\ Decimal(d) = n
Whole(f) ==   \* an address from its parts
    LET PartOf(before, word, after) == IF <<word>> \in DOMAIN f THEN before \o Show(f[<<word>>]) \o after ELSE <<>>
    IN PartOf(<<>>, "scheme", <<":", "/", "/">>) \o PartOf(<<>>, "username", <<>>) \o PartOf(<<":">>, "password", <<>>)
       \o (IF <<"username">> \in DOMAIN f THEN <<"@">> ELSE <<>>) \o PartOf(<<>>, "host", <<>>)
       \o (IF <<"port">> \in DOMAIN f THEN <<":">> \o Numeral(f[<<"port">>][2]) ELSE <<>>) \o PartOf(<<>>, "path", <<>>) \o PartOf(<<"?">>, "query", <<>>)
       \o PartOf(<<"#">>, "fragment", <<>>)

AddressLaws(s) ==   \* a colon that no port follows is lost
    /\ \E whole \in {Whole(ParseUrl(s))} : whole = s \/ \E i \in DOMAIN s : s[i] = ":" /\ whole = RemoveAt(s, i)
    /\ \A i, j \in DOMAIN s :
        i < j => LET x == SubSeq(s, 1, i)
                     y == SubSeq(s, i + 1, j)
                     z == SubSeq(s, j + 1, Len(s))
                 IN JoinUrl(JoinUrl(x, y), z) = JoinUrl(x, JoinUrl(y, z))

QueryLetters == {"a", "w", " ", "&", "=", "%", "+", "%20", "%C3"}
NoEscape(s) == ToSet(s) \cap Escapes = {}
QueryLaws(s) ==
    /\ NoEscape(s) => /\ UrlDecode(UrlEncodeComponent(s)) = OkV(StrV(s))
                      /\ UrlDecode(UrlEncode(s)) = OkV(StrV([i \in DOMAIN s |-> IF s[i] = "+" THEN " " ELSE s[i]]))
    /\ \A f \in {ParseQuery(s)} :
        (\A x \in DOMAIN f : NoEscape(x) /\ NoEscape(f[x][2])) => ParseQuery(BuildQuery(f, KeysInOrder(f))) = f

-----------------------------------------------------------------------------
(* Paths *)
Place(cs) ==   \* where a path leads: how far up, and down by which names
    FoldLeft(LAMBDA r, x :
                CASE x \in {Root, <<".">>} -> r
                  [] x = <<".", ".">> -> IF r.down # <<>> THEN [r EXCEPT !.down = Front(@)]
                                         ELSE IF cs[1] = Root THEN r ELSE [r EXCEPT !.up = @ + 1]
                  [] OTHER -> [r EXCEPT !.down = Append(@, x)],
             [up |-> 0, down |-> <<>>], cs)

\* two steps up from where one is are lost
PathLaws(s) ==
    LET cs == Components(s)
        name == FileName(cs)
        extended == FileName(WithExtension(cs, <<"b">>))
    IN /\ Components(WrittenPath(cs)) = cs
       /\ Normalized(Normalized(cs)) = Normalized(cs)
       /\ Place(cs).up < 2 => Place(Normalized(cs)) = Place(cs)
       /\ name # <<>> =>
            /\ JoinPath(<<StrV(WrittenPath(Above(cs)[1])), StrV(name[1])>>) = TextOf(WrittenPath(cs))
            /\ Dot(name[1]) # 0 => Stem(name[1]) \o <<".">> \o Extension(name[1]) = name[1]
            /\ Stem(extended[1]) = Stem(name[1]) /\ Extension(extended[1]) = <<"b">>

-----------------------------------------------------------------------------
(* Values *)
ValueWraps == {"array", "map", "struct", "some", "two"}
WrapValue(w, v) ==
    CASE w = "array" -> ArrV(<<v>>)
      [] w = "map" -> MapV(<<"x">> :> v)
      [] w = "struct" -> StructV("P", <<"x">> :> v)
      [] w = "some" -> SomeV(v)
      [] w = "two" -> ArrV(<<v, IntV(1)>>)
ValueOf(pieces) == FoldLeft(LAMBDA v, w : WrapValue(w, v), pieces[1], Tail(pieces))

\* a struct comes back as a map, and what is no data as a text
ValueLaws(pieces) ==
    LET v == ValueOf(pieces)
        back == FromJson(ToJson(v))
    IN /\ FromJson(ToJson(back)) = back
       /\ "struct" \notin ToSet(Tail(pieces)) /\ "some" \notin ToSet(Tail(pieces)) /\ Kind(pieces[1]) # "Enum" => back = v
       /\ Truthy(back) = Truthy(v) \/ v = NoneV

-----------------------------------------------------------------------------
(* Lists *)
ListLaws(items) ==
    LET all == ArrV(items)
        Calling(name, args) == SequenceFunction(name, args).v
        Keyed == MapV([x \in {<<ToString(i)>> : i \in DOMAIN items} |-> StrV(x)])
    IN /\ Calling("first", <<Calling("reverse", <<all>>)>>) = Calling("last", <<all>>)
       /\ \A i \in 0..Len(items) :
            Calling("concat", <<Calling("slice", <<all, IntV(0), IntV(i)>>), Calling("slice", <<all, IntV(i), IntV(-1)>>)>>) = all
       /\ items # <<>> => LET popped == Calling("pop", <<all>>)[2]
                          IN /\ Calling("push", <<popped[1], Last(items)>>) = all
                             /\ popped[2] = Calling("last", <<all>>)
       /\ \A i \in DOMAIN items :
            LET entry == MapFunction("entries", <<Keyed>>).v[2][i][2]
            IN MapFunction("get_key", <<Keyed, entry[1]>>).v = SomeV(entry[2])

-----------------------------------------------------------------------------
LawStarts == {<<"words">>, <<"globs">>, <<"tables">>, <<"files">>, <<"addresses">>, <<"queries">>, <<"paths">>,
              <<"values">>, <<"lists">>}
LawPieces ==
    CASE Family = "words" -> Letters
      [] Family = "globs" -> {"a", "b", "*", "?"}
      [] Family = "tables" -> Fields \cup {NewRow}
      [] Family = "files" -> {"a", ",", Quote, "\n", "\r"}
      [] Family = "addresses" -> AddressPieces
      [] Family = "queries" -> QueryLetters
      [] Family = "paths" -> {"a", ".", "/"}
      [] Family = "values" -> IF Len(shape) > 1 THEN ValueWraps
                              ELSE {Unit, IntV(0), BoolV(FALSE), StrV(<<>>), StrV(<<"a">>), ArrV(<<>>), NoneV}
      [] Family = "lists" -> {IntV(1), StrV(<<"a">>)}
      [] OTHER -> {}
LawsGrow ==
    /\ Len(shape) <= (IF Family = "paths" THEN MaxPieces + 2 ELSE MaxPieces)
    /\ \E x \in LawPieces : Piece(x)

(* What the library's functions promise of each other.                     *)
LibraryLaws ==
    LET pieces == Tail(shape)
    IN CASE Family = "words" -> WordLaws(pieces)
         [] Family = "globs" -> GlobLaws(pieces)
         [] Family = "tables" -> TableLaws(Rows(pieces))
         [] Family = "files" -> FileLaws(pieces)
         [] Family = "addresses" -> AddressLaws(Flat(pieces))
         [] Family = "queries" -> QueryLaws(pieces)
         [] Family = "paths" -> PathLaws(pieces)
         [] Family = "values" -> pieces # <<>> => ValueLaws(pieces)
         [] Family = "lists" -> ListLaws(pieces)
         [] OTHER -> TRUE

-----------------------------------------------------------------------------
(* Calls that the type checker accepts, of functions it has a signature of *)
CallModules == {"std/string", "std/collections", "std/csv", "std/url", "std/path", "std/json"}
Said(module, name) ==
    RegisterImport([path |-> module, alias |-> "", items |-> <<[name |-> name, as |-> name]>>], Context(Nothing, FALSE))

SampleText == StrV(<<"a">>)
Sample(t) ==
    CASE t = StringT -> {SampleText, StrV(<<>>)}
      [] t = IntT -> {IntV(-1), IntV(0), IntV(1)}
      [] t = TextArray -> {ArrV(<<SampleText>>)}
      [] t = Anys -> {ArrV(<<SampleText>>), ArrV(<<ArrV(<<SampleText>>)>>), ArrV(<<MapV(<<"a">> :> SampleText)>>)}
      [] t = AnyT -> {IntV(1), SampleText, ArrV(<<SampleText>>), MapV(<<"a">> :> SampleText)}

RECURSIVE TypeOfValue(_)
TypeOfValue(v) ==
    CASE Kind(v) \in {"Int", "String"} -> <<Kind(v)>>
      [] Kind(v) = "Array" -> ArrayT(UnionAll([i \in DOMAIN v[2] |-> TypeOfValue(v[2][i])]))
      [] Kind(v) = "Map" -> MapT(StringT, UnionAll(SetToSeq({TypeOfValue(v[2][x]) : x \in DOMAIN v[2]})))

RECURSIVE HasType(_, _)
HasType(v, t) ==
    CASE Is(t, "Any") -> TRUE
      [] Is(t, "Array") -> Kind(v) = "Array" /\ \A i \in DOMAIN v[2] : HasType(v[2][i], t[2])
      [] Is(t, "Map") -> Kind(v) = "Map" /\ \A x \in DOMAIN v[2] : HasType(v[2][x], t[3])
      [] Is(t, "Optional") -> Kind(v) = "Enum" /\ v[2] = "Option" /\ \A i \in DOMAIN v[4] : HasType(v[4][i], t[2])
      [] OTHER -> Kind(v) = t[1]

SaidOf(f, args, c) ==
    CallType([f |-> Id(f[2]), args |-> [i \in DOMAIN args |-> Num(0)]], [i \in DOMAIN args |-> TypeOfValue(args[i])], c)

Fate(said, did) ==   \* what becomes of a call, if it is not what was said of it
    CASE said.c.found # <<>> -> "not accepted"
      [] said.c.found = <<>> /\ did.ok -> IF HasType(did.v, said.t) THEN "alike" ELSE "of another type"
      [] OTHER -> did.v

LibraryStarts == LawStarts \cup {<<"calls">>}
CallsGrow ==
    /\ Family = "calls"
    /\ \/ Len(shape) = 1 /\ \E m \in CallModules : \E x \in DOMAIN ModuleSignatures(m) : Piece(<<m, x>>)
       \/ /\ Len(shape) \in 2..4
          /\ LET params == ModuleSignatures(shape[2][1])[shape[2][2]].params
             IN \E v \in (IF Len(shape) - 1 \in DOMAIN params THEN Sample(params[Len(shape) - 1]) ELSE {SampleText}) :
                    Piece(v)

LibraryGrows == LawsGrow \/ CallsGrow

(* Functions the checker knows that are not there; those that give an      *)
(* Option, a Result or a pair where it says what would be inside.          *)
Absent == {<<"std/collections", x>> : x \in {"sort", "flatten", "filter", "transform"}} \cup {<<"std/path", "extname">>}
          \cup {<<m, "parse">> : m \in {"std/json", "std/url", "std/csv"}}
Enclosed == {<<"std/collections", x>> : x \in {"first", "last", "pop", "get_key"}} \cup {<<"std/url", "decode">>}
          \cup {<<"std/path", x>> : x \in {"dirname", "basename"}}

(* A call that the type checker accepts is one the function takes, with a  *)
(* result of the type that was said, with the exceptions above and these:  *)
(* the arguments of a function of any number, or that the checker knows by *)
(* its name, are not counted; those of a function for Any may not be what  *)
(* it wants; an array is of its first type whatever is added to it.        *)
SignaturesTell ==
    Family = "calls" /\ Len(shape) > 1 =>
        \A f \in {shape[2]}, args \in {SubSeq(shape, 3, Len(shape))} :
        \A sig \in {ModuleSignatures(f[1])[f[2]]}, did \in {CallNative(f[1], f[2], args)}, c \in {Said(f[1], f[2])} :
        \A said \in {SaidOf(f, args, c)} : \A fate \in {Fate(said, did)} :
            LET vague == ToSet(sig.params) \cap {AnyT, Anys} # {}
                mixed == f[2] = "push" /\ ~Compatible(TypeOfValue(args[1])[2], TypeOfValue(args[2]))
                wrapped == f \in Enclosed /\ Len(args) = Len(sig.params)
            IN /\ fate \in {"alike", "of another type"} => (fate = "alike") = ~(wrapped \/ mixed)
               /\ fate = "TypeError" => vague \/ sig.variadic
               /\ fate = "ArityMismatch" => sig.variadic \/ f[2] \in DOMAIN Arities
               /\ fate # "not accepted" => (fate = "Missing") = (f \in Absent)
               /\ fate = "Panic" => f[2] \in {"pad_left", "pad_right"} /\ args[2] = IntV(-1)
=============================================================================
