------------------------------- MODULE Strings -------------------------------
(***************************************************************************)
(* std/string. Modelled from src/src/stdlib/string.rs, section by section: *)
(* StringFunction(name, a) is what the function of that name returns for   *)
(* arguments that have the kinds StringKinds says, a[i] being what the     *)
(* i-th one holds (the characters of a string). A regular expression is    *)
(* external: here one that matches itself.                                 *)
(***************************************************************************)
EXTENDS Evaluator

CONSTANTS
    UpperCase,   \* the upper-case letter of each lower-case one; those in Wide have no case
    Figures,     \* the digits, and what each is worth
    Malformed    \* texts that are no regular expression

ASSUME StringsAssumption == \A c \in DOMAIN UpperCase : UpperCase[c] \notin DOMAIN UpperCase

Gives(v) == [ok |-> TRUE, v |-> v]
Raises(kind) == [ok |-> FALSE, v |-> kind]
OkV(v) == EnumV("Result", "Ok", <<v>>)
ErrV(v) == EnumV("Result", "Err", <<v>>)
TextOf(chars) == Gives(StrV(chars))
Truth(b) == Gives(BoolV(b))
TextList(parts) == Gives(ArrV([i \in DOMAIN parts |-> StrV(parts[i])]))

Whitespace == {" ", "\n", "\r", "\t"}
Uppers == {UpperCase[c] : c \in DOMAIN UpperCase}
Alphabetic == DOMAIN UpperCase \cup Uppers \cup Wide
Alphanumeric == Alphabetic \cup DOMAIN Figures
Up(c) == IF c \in DOMAIN UpperCase THEN UpperCase[c] ELSE c
Down(c) == IF c \in Uppers THEN CHOOSE d \in DOMAIN UpperCase : UpperCase[d] = c ELSE c
Changed(s, To(_)) == [i \in DOMAIN s |-> To(s[i])]
Only(s, chars) == \A i \in DOMAIN s : s[i] \in chars

Huge == 1000   \* `n as usize` of a negative n is longer than any text
AsSize(n) == IF n < 0 THEN Huge ELSE n

-----------------------------------------------------------------------------
(* Basic operations *)
Occurrences(s, sub) ==   \* where sub begins, each time after the end of the time before
    FoldLeft(LAMBDA r, i : IF /\ SubSeq(s, i, i + Len(sub) - 1) = sub
                              /\ r = <<>> \/ i >= Last(r) + Len(sub)
                           THEN Append(r, i) ELSE r,
             <<>>, [i \in 1..(Len(s) - Len(sub) + 1) |-> i])

Between(s, at, size) ==   \* the pieces of s around those of this size that begin at `at`
    [i \in 1..(Len(at) + 1) |-> SubSeq(s, IF i = 1 THEN 1 ELSE at[i - 1] + size,
                                          IF i > Len(at) THEN Len(s) ELSE at[i] - 1)]
Split(s, delim) == Between(s, Occurrences(s, delim), Len(delim))

Join(parts, delim) ==
    FoldLeft(LAMBDA r, i : r \o (IF i = 1 THEN <<>> ELSE delim) \o parts[i], <<>>, [i \in DOMAIN parts |-> i])
Shown(vs) == [i \in DOMAIN vs |-> Show(vs[i])]

BasicFunction(name, a) ==
    CASE name = "split" -> TextList(Split(a[1], a[2]))
      [] name = "join" -> TextOf(Join(Shown(a[1]), a[2]))
      [] name = "repeat" -> IF a[2] < 0 THEN Raises("RuntimeError")
                            ELSE TextOf(FlattenSeq([i \in 1..a[2] |-> a[1]]))
      [] name = "reverse" -> TextOf(Reverse(a[1]))

Concat(x, y) ==   \* of two strings, or of the elements of an array, whatever the second argument is
    CASE Kind(x) = "Array" -> TextOf(FlattenSeq(Shown(x[2])))
      [] Kind(x) = "String" /\ Kind(y) = "String" -> TextOf(x[2] \o y[2])
      [] OTHER -> Raises("TypeError")

-----------------------------------------------------------------------------
(* Trimming *)
TrimLeft(s, chars) == SubSeq(s, SelectInSeq(s \o <<"end">>, LAMBDA c : c \notin chars), Len(s))
TrimRight(s, chars) == SubSeq(s, 1, SelectLastInSeq(s, LAMBDA c : c \notin chars))
Trim(s, chars) == TrimRight(TrimLeft(s, chars), chars)

TrimFunction(name, a) ==
    TextOf(CASE name = "trim" -> Trim(a[1], Whitespace)
             [] name \in {"trim_left", "trim_start"} -> TrimLeft(a[1], Whitespace)
             [] name \in {"trim_right", "trim_end"} -> TrimRight(a[1], Whitespace)
             [] name = "trim_chars" -> Trim(a[1], ToSet(a[2])))

-----------------------------------------------------------------------------
(* Case conversion *)
Capitalized(s) == [i \in DOMAIN s |-> IF i = 1 THEN Up(s[i]) ELSE Down(s[i])]
WordsOf(s) == SelectSeq(Between(s, SelectSeq([i \in DOMAIN s |-> i], LAMBDA i : s[i] \in Whitespace), 1),
                        LAMBDA w : w # <<>>)
CaseFunction(name, s) ==
    TextOf(CASE name \in {"to_upper", "upper"} -> Changed(s, Up)
             [] name \in {"to_lower", "lower"} -> Changed(s, Down)
             [] name = "capitalize" -> Capitalized(s)
             [] name = "title" -> Join(Changed(WordsOf(s), Capitalized), <<" ">>))

Delimited(s, others, mark) ==   \* to_snake_case, to_kebab_case
    FlattenSeq([i \in DOMAIN s |-> CASE s[i] \in Uppers -> (IF i > 1 THEN <<mark>> ELSE <<>>) \o <<Down(s[i])>>
                                     [] s[i] \in others -> <<mark>>
                                     [] OTHER -> <<s[i]>>])
Humped(s, first) ==   \* to_camel_case, to_pascal_case: letters after marks become upper case
    LET marks == {"_", "-", " "}
        AfterMark(i) == IF i = 1 THEN first ELSE s[i - 1] \in marks
    IN FlattenSeq([i \in DOMAIN s |-> IF s[i] \in marks THEN <<>> ELSE <<IF AfterMark(i) THEN Up(s[i]) ELSE s[i]>>])

WordFunction(name, s) ==
    TextOf(CASE name = "to_snake_case" -> Delimited(s, {" ", "-"}, "_")
             [] name = "to_kebab_case" -> Delimited(s, {" ", "_"}, "-")
             [] name = "to_camel_case" -> Humped(s, FALSE)
             [] name = "to_pascal_case" -> Humped(s, TRUE))

Slug(s) ==
    LET kept == SelectSeq(Changed(s, Down), LAMBDA c : c \in Alphanumeric \cup Whitespace \cup {"_"})
        dashed == [i \in DOMAIN kept |-> IF kept[i] \in Alphanumeric THEN kept[i] ELSE "-"]
        single == SelectSeq([i \in DOMAIN dashed |-> i],
                            LAMBDA i : i = 1 \/ {dashed[i - 1], dashed[i]} # {"-"})
    IN Trim([i \in DOMAIN single |-> dashed[single[i]]], {"-"})
SlugFunction(s) == TextOf(Slug(s))

-----------------------------------------------------------------------------
(* Search and replace. Positions are counted in bytes.                     *)
Position(s, i) == IF i = 0 THEN 0 - 1 ELSE Bytes(SubSeq(s, 1, i - 1))
Places(s, sub) == {i \in 1..(Len(s) - Len(sub) + 1) : SubSeq(s, i, i + Len(sub) - 1) = sub}
Furthest(places, far) ==
    IF places = {} THEN 0 ELSE CHOOSE i \in places : \A j \in places : IF far THEN i >= j ELSE i <= j

SearchFunction(name, s, sub) ==
    CASE name = "contains" -> Truth(Places(s, sub) # {})
      [] name = "starts_with" -> Truth(IsPrefix(sub, s))
      [] name = "ends_with" -> Truth(IsSuffix(sub, s))
      [] name = "index_of" -> Gives(IntV(Position(s, Furthest(Places(s, sub), FALSE))))
      [] name = "last_index_of" -> Gives(IntV(Position(s, Furthest(Places(s, sub), TRUE))))
      [] name = "count" -> Gives(IntV(Len(Occurrences(s, sub))))

Replaced(s, from, to) == Join(Split(s, from), to)
ReplacedFirst(s, from, to) ==
    LET at == Occurrences(s, from)
    IN IF at = <<>> THEN s ELSE Join(Between(s, <<at[1]>>, Len(from)), to)

ReplaceFunction(name, a) ==
    TextOf(CASE name \in {"replace", "replace_all"} -> Replaced(a[1], a[2], a[3])
             [] name = "replace_first" -> ReplacedFirst(a[1], a[2], a[3])
             [] name = "replace_chars" ->
                    FlattenSeq([i \in DOMAIN a[1] |-> IF a[1][i] \in ToSet(a[2]) THEN a[3] ELSE <<a[1][i]>>])
             [] name = "remove_chars" -> SelectSeq(a[1], LAMBDA c : c \notin ToSet(a[2]))
             [] name = "keep_chars" -> SelectSeq(a[1], LAMBDA c : c \in ToSet(a[2])))

PatternFunction(name, a) ==   \* a pattern that cannot be compiled is an error
    LET s == a[1]
        found == [i \in DOMAIN Occurrences(s, a[2]) |-> a[2]]
    IN CASE a[2] \in Malformed -> Raises("RuntimeError")
         [] name = "matches_pattern" -> Truth(found # <<>>)
         [] name = "find_pattern" -> Gives(IF found = <<>> THEN NoneV ELSE SomeV(StrV(a[2])))
         [] name = "find_all_pattern" -> TextList(found)
         [] name = "split_pattern" -> TextList(Split(s, a[2]))
         [] name = "replace_pattern" -> TextOf(Replaced(s, a[2], a[3]))

-----------------------------------------------------------------------------
(* Substrings, counted in characters *)
Lines(s) ==   \* a line ends with \n or \r\n; what follows the last one is a line if there is any
    LET ps == Split(s, <<"\n">>)
        cut == [i \in DOMAIN ps |-> IF i < Len(ps) /\ IsSuffix(<<"\r">>, ps[i]) THEN Front(ps[i]) ELSE ps[i]]
    IN IF Last(cut) = <<>> THEN Front(cut) ELSE cut

Truncated(s, n, suffix) ==   \* the suffix is measured in bytes
    IF Len(s) <= n THEN s
    ELSE SubSeq(s, 1, IF n > Bytes(suffix) THEN n - Bytes(suffix) ELSE 0) \o suffix

SubstringFunction(name, a) ==
    CASE name = "char_at" -> IF AsSize(a[2]) >= Len(a[1]) THEN Raises("RuntimeError") ELSE TextOf(<<a[1][a[2] + 1]>>)
      [] name = "substring" ->
            IF AsSize(a[2]) > Len(a[1]) \/ AsSize(a[3]) > Len(a[1]) \/ AsSize(a[2]) > AsSize(a[3])
            THEN Raises("RuntimeError") ELSE TextOf(SubSeq(a[1], a[2] + 1, a[3]))
      [] name = "chars" -> TextList([i \in DOMAIN a[1] |-> <<a[1][i]>>])
      [] name = "lines" -> TextList(Lines(a[1]))
      [] name = "words" -> TextList(WordsOf(a[1]))
      [] name = "truncate" -> TextOf(Truncated(a[1], AsSize(a[2]), a[3]))

(* Padding, in bytes, with the first character of the text given for it    *)
PadFunction(name, a) ==
    LET s == a[1]
        missing == AsSize(a[2]) - Bytes(s)
        left == CASE name = "pad_left" -> missing [] name = "pad_right" -> 0 [] name = "center" -> missing \div 2
        Pads(n) == [i \in 1..n |-> IF a[3] = <<>> THEN " " ELSE a[3][1]]
    IN CASE missing <= 0 -> TextOf(s)
         [] a[2] < 0 -> Raises("Panic")   \* no text is that long
         [] OTHER -> TextOf(Pads(left) \o s \o Pads(missing - left))

-----------------------------------------------------------------------------
(* Validation *)
IsFunction(name, s) ==
    LET all == CASE name = "is_numeric" -> DOMAIN Figures
                 [] name = "is_alpha" -> Alphabetic
                 [] name = "is_alphanumeric" -> Alphanumeric
                 [] name = "is_lowercase" -> ToSet(s) \ (Uppers \cup Wide)
                 [] name = "is_uppercase" -> ToSet(s) \ (DOMAIN UpperCase \cup Wide)
                 [] name = "is_whitespace" -> Whitespace
                 [] OTHER -> {}
    IN Truth(CASE name = "is_empty" -> s = <<>>
               [] name = "is_blank" -> Only(s, Whitespace)
               [] OTHER -> s # <<>> /\ Only(s, all))

(* simple_glob_match: i in the text, j in the pattern, the last star seen   *)
(* and where its match ends. A character of the pattern that is that of the *)
(* text is looked for before a star.                                        *)
RECURSIVE Glob(_, _, _, _, _, _)
Glob(s, p, i, j, star, end) ==
    CASE i > Len(s) -> Only(SubSeq(p, j, Len(p)), {"*"})
      [] i <= Len(s) /\ j <= Len(p) /\ p[j] \in {"?", s[i]} -> Glob(s, p, i + 1, j + 1, star, end)
      [] i <= Len(s) /\ j <= Len(p) /\ p[j] = "*" /\ s[i] # "*" -> Glob(s, p, i, j + 1, j, i)
      [] OTHER -> star # 0 /\ Glob(s, p, end + 1, star + 1, star, end + 1)

GlobFunction(s, pattern) == Truth(Glob(s, pattern, 1, 1, 0, 1))

-----------------------------------------------------------------------------
(* The module *)
WithKinds(names, kinds) == [x \in names |-> kinds]
Basics == {"split", "join", "repeat", "reverse"}
Trims == {"trim", "trim_left", "trim_start", "trim_right", "trim_end", "trim_chars"}
Cases == {"to_upper", "upper", "to_lower", "lower", "capitalize", "title"}
WordCases == {"to_snake_case", "to_kebab_case", "to_camel_case", "to_pascal_case"}
Searches == {"contains", "starts_with", "ends_with", "index_of", "last_index_of", "count"}
Replaces == {"replace", "replace_all", "replace_first", "replace_chars", "remove_chars", "keep_chars"}
PatternNames == {"matches_pattern", "find_pattern", "find_all_pattern", "split_pattern", "replace_pattern"}
Substrings == {"char_at", "substring", "chars", "lines", "words", "truncate"}
Checks == {"is_empty", "is_blank", "is_numeric", "is_alpha", "is_alphanumeric", "is_lowercase", "is_uppercase",
           "is_whitespace"}

StringKinds ==   \* the kinds of the arguments, any other is a TypeError
    WithKinds({"join"}, <<"Array", "String">>) @@ WithKinds({"repeat", "char_at"}, <<"String", "Int">>)
    @@ WithKinds({"concat"}, <<"any", "any">>) @@ WithKinds({"substring"}, <<"String", "Int", "Int">>)
    @@ WithKinds({"truncate", "pad_left", "pad_right", "center"}, <<"String", "Int", "String">>)
    @@ WithKinds({"replace", "replace_all", "replace_first", "replace_chars", "replace_pattern"}, <<"String", "String", "String">>)
    @@ WithKinds({"split", "trim_chars", "remove_chars", "keep_chars", "matches"} \cup Searches \cup PatternNames, <<"String", "String">>)
    @@ WithKinds(Basics \cup Trims \cup Cases \cup WordCases \cup {"slugify"} \cup Substrings \cup Checks, <<"String">>)

StringFunction(name, a) ==
    CASE name \in Basics -> BasicFunction(name, a)
      [] name \in Trims -> TrimFunction(name, a)
      [] name \in Cases -> CaseFunction(name, a[1])
      [] name \in WordCases -> WordFunction(name, a[1])
      [] name = "slugify" -> SlugFunction(a[1])
      [] name \in Searches -> SearchFunction(name, a[1], a[2])
      [] name \in Replaces -> ReplaceFunction(name, a)
      [] name \in PatternNames -> PatternFunction(name, a)
      [] name \in Substrings -> SubstringFunction(name, a)
      [] name \in Checks -> IsFunction(name, a[1])
      [] name = "matches" -> GlobFunction(a[1], a[2])
      [] OTHER -> PadFunction(name, a)
=============================================================================
