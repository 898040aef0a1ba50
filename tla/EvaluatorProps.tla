--------------------------- MODULE EvaluatorProps ---------------------------
(***************************************************************************)
(* Programs for the evaluator, built piece by piece, and what must hold of *)
(* what it computes for them.                                              *)
(*                                                                         *)
(* `shape` is one program: its first element says which family it belongs  *)
(* to, the rest are its pieces. Every piece is something the parser can    *)
(* produce. note(x) is a call that shows in the history of the program.    *)
(***************************************************************************)
EXTENDS Evaluator, Samples

CONSTANTS
    MaxNesting,   \* control structures inside each other
    MaxArms,      \* arms of a match
    MaxItems,     \* elements of an array, characters of a string
    MaxStatements \* statements about structs

Lit(v) == [k |-> "lit", v |-> v]
Id(x) == [k |-> "id", name |-> x]
Do(e) == [k |-> "expr", e |-> e]
CallOf(name, args) == [k |-> "call", f |-> Id(name), args |-> args]
Noted(x) == CallOf("note", <<Lit(StrV(x))>>)
Note(x) == Do(Noted(x))
Var(x) == [k |-> "var", name |-> x]
Let(x, e) == [k |-> "let", pattern |-> Var(x), e |-> e]
Set(x, e) == [k |-> "assign", target |-> Id(x), e |-> e]
Bin(op, l, r) == [k |-> "binary", op |-> op, l |-> l, r |-> r]
Block(ds) == [k |-> "block", body |-> ds]
True == Lit(BoolV(TRUE))
Num(n) == Lit(IntV(n))
Arm(pattern, guard, body) == [pattern |-> pattern, guard |-> guard, body |-> body]
Wild == [k |-> "wild"]
MatchOf(e, arms) == [k |-> "match", of |-> e, arms |-> arms]
Natives == {"note", "get", "exists", "rename", "write_file", "fail"}
Result(program) == Run(program, Start(Natives))
Times(r, x) == Len(SelectSeq(r.s.notes, LAMBDA n : n = <<"note", <<StrV(x)>>>>))

-----------------------------------------------------------------------------
(* Control: `return`, `break` or `continue` inside structures inside each  *)
(* other. A loop would run its body twice.                                 *)
Loops == {"while", "loop", "for"}
Operands == {"let", "argument", "and", "array", "scrutinee"}
Structures == {"if", "else", "block", "match", "call"} \cup Loops \cup Operands

Counter(i) == "c" \o ToString(i)
Count(i) == Do(Set(Counter(i), Bin("Add", Id(Counter(i)), Num(1))))
If(cond, then, else) == [k |-> "if", cond |-> cond, then |-> then, else |-> else]

Around(w, i, body) ==
    CASE w = "if" -> <<If(True, body, <<>>)>>
      [] w = "else" -> <<If(Lit(Unit), <<>>, body)>>
      [] w = "block" -> <<Do(Block(body))>>
      [] w = "match" -> <<Do(MatchOf(Num(1), <<Arm(Wild, True, Block(body))>>))>>
      [] w = "call" -> <<[k |-> "fn", name |-> "f", params |-> <<>>, body |-> body],
                         Do(CallOf("f", <<>>))>>
      [] w = "while" -> <<Let(Counter(i), Num(0)),
                          [k |-> "while", cond |-> Bin("Lt", Id(Counter(i)), Num(2)),
                                          body |-> <<Count(i)>> \o body]>>
      [] w = "loop" -> <<Let(Counter(i), Num(0)),
                         [k |-> "while", cond |-> True,
                          body |-> <<If(Bin("Eq", Id(Counter(i)), Num(2)), <<[k |-> "break"]>>, <<>>),
                                     Count(i)>> \o body]>>
      [] w = "for" -> <<[k |-> "for", name |-> "x", over |-> Lit(ArrV(<<IntV(0), IntV(1)>>)),
                         body |-> body]>>
      [] w = "let" -> <<Let("y", Block(body))>>
      [] w = "argument" -> <<Do(CallOf("note", <<Block(body)>>))>>
      [] w = "and" -> <<Do(Bin("And", True, Block(body)))>>
      [] w = "array" -> <<Do([k |-> "array", es |-> <<Block(body)>>])>>
      [] w = "scrutinee" -> <<Do(MatchOf(Block(body), <<Arm(Wild, True, Lit(Unit))>>))>>

In(i) == <<"in", ToString(i)>>
After(i) == <<"after", ToString(i)>>

RECURSIVE Level(_, _, _)
Level(ws, control, i) ==
    IF i > Len(ws)
    THEN <<IF control = "return" THEN [k |-> "return", e |-> Num(1)] ELSE [k |-> control],
           Note(After(i))>>
    ELSE Around(ws[i], i, <<Note(In(i))>> \o Level(ws, control, i + 1)) \o <<Note(After(i))>>

ControlProgram(sh) == Level(SubSeq(sh, 3, Len(sh)), sh[2], 1)

MaxOf(S) == IF S = {} THEN 0 ELSE CHOOSE n \in S : \A m \in S : m <= n
Innermost(ws, kinds) == MaxOf({i \in DOMAIN ws : ws[i] \in kinds})

(* The structure that the statement should leave, 0 for the program. *)
Target(ws, control) == Innermost(ws, IF control = "return" THEN {"call"} ELSE Loops)

(* Two shapes in which the code does not do it: the statement is inside an *)
(* operand, which takes the control value for a value; or a `break` has no *)
(* loop in its own function.                                               *)
Swallowed(ws, control) == Innermost(ws, Operands) > Target(ws, control)
Stray(ws, control) == control # "return" /\ Innermost(ws, {"call"}) >= Target(ws, control)

Expected(ws, control, i) ==   \* how often the statement after structure i runs
    LET loops == Cardinality({j \in 1..(i - 1) : j \in DOMAIN ws /\ ws[j] \in Loops})
    IN IF i > Target(ws, control) THEN 0 ELSE 2 ^ loops

(* `return` leaves the function it is written in and `break` and `continue` *)
(* act on the innermost loop around them: nothing runs between, everything  *)
(* runs after, and other loops are not disturbed. (eval_block, the loops,   *)
(* call_function.)                                                          *)
ControlReachesItsTarget ==
    Family = "control" =>
    LET ws == SubSeq(shape, 3, Len(shape))
        r == Result(ControlProgram(shape))
        t == Target(ws, shape[2])
    IN (~Swallowed(ws, shape[2]) /\ ~Stray(ws, shape[2])) =>
          /\ r.ok /\ r.s.at = 1
          /\ \A i \in 1..(Len(ws) + 1) : Times(r, After(i)) = Expected(ws, shape[2], i)
          /\ t > 0 => Times(r, In(t)) = Expected(ws, shape[2], t) * (IF shape[2] = "continue" THEN 2 ELSE 1)
-----------------------------------------------------------------------------
(* Match: arms over an enum with a variant A of no fields and B of one. *)
VariantP(v, parts) == [k |-> "variant", enum |-> "", variant |-> v, parts |-> parts]
Patterns ==
    [wild |-> Wild, var |-> Var("x"), a |-> VariantP("A", <<>>),
     b |-> VariantP("B", <<Var("x")>>), b1 |-> VariantP("B", <<[k |-> "lit", v |-> IntV(1)]>>),
     b0 |-> VariantP("B", <<>>), num |-> [k |-> "lit", v |-> IntV(1)]]
Guards == [none |-> True, x1 |-> Bin("Eq", Id("x"), Num(1)), no |-> Lit(Unit)]
Refutable == {"b1", "b0"}

EnumE == [k |-> "enum", name |-> "E", order |-> <<"A", "B">>, arity |-> [A |-> 0, B |-> 1]]
Scrutinees == [A |-> EnumV("E", "A", <<>>), B1 |-> EnumV("E", "B", <<IntV(1)>>),
               B2 |-> EnumV("E", "B", <<IntV(2)>>)]

\* a shape: <<"match", scrutinee, <<pattern, guard>>, ...>>
ArmsOf(sh) == [i \in 1..(Len(sh) - 2) |->
    Arm(Patterns[sh[i + 2][1]], Guards[sh[i + 2][2]], Noted(<<ToString(i)>>))]
MatchProgram(sh) ==
    <<EnumE, Let("x", Num(0)), Do(MatchOf(Lit(Scrutinees[sh[2]]), ArmsOf(sh))),
      Do(CallOf("note", <<Id("x")>>))>>

\* the value an arm gives to x, and whether the arm is for the value at all
Seen(p, v) == CASE p = "var" -> v [] p = "b" -> v[4][1] [] OTHER -> IntV(0)
For(p, v) == \/ p \in {"wild", "var"}
             \/ p = "a" /\ v[3] = "A"
             \/ v[3] = "B" /\ (p = "b" \/ (p = "b1" /\ v[4][1] = IntV(1)))
Taking(arm, v) ==
    For(arm[1], v) /\ (CASE arm[2] = "none" -> TRUE [] arm[2] = "no" -> FALSE
                         [] OTHER -> IF arm[1] = "var" THEN FALSE ELSE Seen(arm[1], v) = IntV(1))

(* A match that is accepted as exhaustive takes the first of its arms whose *)
(* guard holds with the names that arm alone binds; it fails only when an   *)
(* arm has a guard or looks inside a variant; and one that lacks a variant  *)
(* is refused whatever the value is, before any guard runs.                 *)
ExhaustiveTakesAnArm ==
    Family = "match" =>
    LET r == Result(MatchProgram(shape))
        arms == [i \in 1..(Len(shape) - 2) |-> shape[i + 2]]
        partial == \E i \in DOMAIN arms : arms[i][1] \in Refutable \/ arms[i][2] # "none"
        named == {Patterns[arms[i][1]].variant : i \in {j \in DOMAIN arms : arms[j][1] \in {"a", "b", "b1", "b0"}}}
        open == \E i \in DOMAIN arms : arms[i][1] \in {"wild", "var"}
    IN /\ (open \/ named = {"A", "B"}) =>
            IF partial THEN r.ok \/ r.v \in {"NoPatternMatched", "InvalidOperation"} ELSE r.ok
       /\ ~(open \/ named = {"A", "B"}) => ~r.ok /\ r.v = "NonExhaustive" /\ r.s.notes = <<>>
       /\ r.ok => /\ Len(r.s.notes) = 2     \* one body ran, and x is the outer x again
                  /\ r.s.notes[2] = <<"note", <<IntV(0)>>>>
                  /\ \E first \in DOMAIN arms :
                        /\ \A i \in 1..first : Taking(arms[i], Scrutinees[shape[2]]) <=> i = first
                        /\ r.s.notes[1] = <<"note", <<StrV(<<ToString(first)>>)>>>>
-----------------------------------------------------------------------------
(* Calls by an intercepted name, with arguments that report that they are  *)
(* evaluated: <<"call", name, argument, argument>>.                        *)
Arguments == [route |-> StrV(<<"/", "r">>), text |-> StrV(<<"u">>), number |-> IntV(1),
              items |-> ArrV(<<IntV(1), IntV(2)>>), fn |-> NativeV("note")]
TwoNames == {"get", "rename", "write_file", "filter", "transform", "render", "serve_static", "note"}
Reporting(i, v) == Block(<<Note(<<"arg", ToString(i)>>), Do(Lit(v))>>)
CallProgram(sh) == <<Do(CallOf(sh[2], [i \in 1..2 |-> Reporting(i, Arguments[sh[i + 2]])]))>>

(* An argument is evaluated at most once and the first before the second,  *)
(* whatever the name stands for; except that a call that turns out not to  *)
(* be the special form starts again: get with anything but a path, and the *)
(* functions of std/fs with a path that is no string.                      *)
Texts == {"route", "text"}
StartsAgain(sh) ==
    \/ sh[2] = "get" /\ sh[3] # "route"
    \/ sh[2] = "rename" /\ {sh[3], sh[4]} \ Texts # {}
    \/ sh[2] = "write_file" /\ sh[3] \notin Texts
ArgumentsOnce ==
    Family = "call" /\ Len(shape) = 4 =>
    LET r == Result(CallProgram(shape))
        args == SelectSeq(r.s.notes, LAMBDA n : n[1] = "note" /\ IsText(n[2][1])
                                              /\ Head(Show(n[2][1])) = "arg")
    IN \/ StartsAgain(shape)
       \/ Mode = "UnitTest"
       \/ args = [i \in 1..2 |-> <<"note", <<StrV(<<"arg", ToString(i)>>)>>>>]
(* A call registers a route or calls the function of that name, never both. *)
RegistersOrCalls ==
    Family = "call" /\ Len(shape) = 4 =>
    LET r == Result(CallProgram(shape))
        called == \E i \in DOMAIN r.s.notes : r.s.notes[i][1] = shape[2] /\ shape[2] # "note"
    IN shape[2] = "get" /\ r.ok =>
          /\ called = (shape[3] # "route")
          /\ r.s.server = IF called \/ Mode = "UnitTest" THEN <<>>
                          ELSE << <<"get", <<Arguments.route, Arguments[shape[4]]>> >> >>

(* A call by a name the evaluator intercepts evaluates its arguments once   *)
(* and does one thing, but for the calls that start again.                  *)
CallsDoOneThing == ArgumentsOnce /\ RegistersOrCalls

-----------------------------------------------------------------------------
(* Indexing: <<"index", "array" or "string", characters, index>> *)
Items(sh) == IF sh[2] = "array" THEN ArrV([i \in DOMAIN sh[3] |-> StrV(<<sh[3][i]>>)]) ELSE StrV(sh[3])
IndexProgram(sh) == <<Do([k |-> "index", of |-> Lit(Items(sh)), i |-> Num(sh[4])])>>

(* An index from -n to n-1 finds the item it names, counted from the end   *)
(* when it is negative, and any other is an error; except that a negative  *)
(* index into a string counts bytes and so misses when one of its          *)
(* characters takes several.                                               *)
NegativeIndexFromEnd ==
    Family = "index" /\ Len(shape) = 4 =>
    LET n == Len(shape[3])
        r == Result(IndexProgram(shape))
        place == IF shape[4] < 0 THEN n + shape[4] + 1 ELSE shape[4] + 1
        manyBytes == shape[2] = "string" /\ shape[4] < 0 /\ \E i \in 1..n : shape[3][i] \in Wide
    IN IF place \notin 1..n THEN manyBytes \/ ~r.ok
       ELSE manyBytes \/ (r.ok /\ r.v = StrV(<<shape[3][place]>>))
(* Integer arithmetic: <<"arith", operator, left, right>> *)
ArithProgram(sh) == <<Do(Bin(sh[2], Num(sh[3]), Num(sh[4])))>>

(* Arithmetic gives the exact result whenever it is an integer of the      *)
(* program's width, but for one remainder; dividing by zero is an error     *)
(* that a server survives, except for the remainder, which panics.          *)
ArithmeticIsExact ==
    Family = "arith" /\ Len(shape) = 4 =>
        GivesExact(shape[2], shape[3], shape[4], Result(ArithProgram(shape)))
(* Loops over a range: <<"range", from, to, inclusive>> *)
RangeProgram(sh) ==
    <<[k |-> "for", name |-> "x", over |-> [k |-> "range", lo |-> Num(sh[2]), hi |-> Num(sh[3]),
                                           inclusive |-> sh[4]],
       body |-> <<Do(CallOf("note", <<Id("x")>>))>>]>>

(* A loop over a range runs once for each of its integers, in order; except *)
(* that one that ends with the largest integer, which it includes, panics   *)
(* or does not run at all.                                                  *)
RangeRunsEachOnce ==
    Family = "range" /\ Len(shape) = 4 =>
    LET r == Result(RangeProgram(shape))
        last == IF shape[4] THEN shape[3] ELSE shape[3] - 1
    IN IF shape[4] /\ shape[3] = MaxInt
       THEN IF OverflowChecks THEN ~r.ok ELSE r.ok /\ r.s.notes = <<>>
       ELSE r.ok /\ r.s.notes = [i \in 1..MaxOf({0, last - shape[2] + 1}) |->
                                    <<"note", <<IntV(shape[2] + i - 1)>>>>]

(* Integers at their limits: arithmetic, ranges and indices from the end    *)
(* give what mathematics says or an error, but for the cases named above.   *)
NumbersBehave == ArithmeticIsExact /\ RangeRunsEachOnce /\ NegativeIndexFromEnd

-----------------------------------------------------------------------------
(* Structs with an invariant, `self.v < limit`: pieces of a program that   *)
(* makes, copies and changes them, and may lower the limit.                *)
Point(v) == [k |-> "struct", name |-> "P", fields |-> <<"v">>, es |-> <<Num(v)>>]
VOf(e) == [k |-> "field", of |-> e, field |-> "v"]
Touch == [k |-> "fn", name |-> "touch", params |-> <<"self">>, body |-> <<Do(Set("limit", Num(1)))>>]
Steps ==
    [p1 |-> Do(Set("p", Point(1))), p0 |-> Do(Set("p", Point(0))),
     v2 |-> Do([k |-> "assign", target |-> VOf(Id("p")), e |-> Num(2)]),
     v0 |-> Do([k |-> "assign", target |-> VOf(Id("p")), e |-> Num(0)]),
     qp |-> Do(Set("q", Id("p"))), pq |-> Do(Set("p", Id("q"))),
     lower |-> Do(Set("limit", Num(1))), raise |-> Do(Set("limit", Num(3))),
     touch |-> Do([k |-> "method", of |-> Id("p"), method |-> "touch", args |-> <<>>]),
     impl |-> [k |-> "impl", name |-> "P", invariants |-> <<Bin("Lt", VOf(Id("self")), Id("limit"))>>,
               methods |-> <<Touch>>]]
StructStart ==
    <<Let("limit", Num(3)), Let("p", Point(0)), Let("q", Point(0)), Touch>>
StructProgram(sh) == StructStart \o [i \in 1..(Len(sh) - 1) |-> Steps[sh[i + 1]]]

Satisfies(v, s) == CheckInvariants(v, s).ok
LastStep(sh) == sh[Len(sh)]

(* A statement that changes a struct and succeeds leaves it within its      *)
(* invariant. One that fails leaves every variable as it was; except that   *)
(* the assignment of a whole struct and a method call have happened when    *)
(* the invariant is checked.                                                *)
ChangesAreAllOrNothing ==
    Family = "struct" /\ Len(shape) > 1 =>
    LET before == Result(StructProgram(SubSeq(shape, 1, Len(shape) - 1)))
        after == Result(StructProgram(shape))
        changed == CASE LastStep(shape) \in {"p1", "p0", "v2", "v0", "pq", "touch"} -> "p"
                     [] LastStep(shape) = "qp" -> "q" [] OTHER -> ""
    IN before.ok =>
        IF after.ok
        THEN changed # "" => Satisfies(after.s.scopes[1].vars[changed], after.s)
        ELSE \/ after.s.scopes[1].vars = before.s.scopes[1].vars
             \/ LastStep(shape) \in {"pq", "qp", "touch"}

-----------------------------------------------------------------------------
EvaluatorStarts ==
    {<<"control", c>> : c \in {"return", "break", "continue"}} \cup
    {<<"match", v>> : v \in DOMAIN Scrutinees} \cup {<<"call", n>> : n \in TwoNames} \cup
    {<<"index", x, <<>> >> : x \in {"array", "string"}} \cup
    {<<"arith", op>> : op \in {"Add", "Sub", "Mul", "Div", "Mod"}} \cup {<<"range">>, <<"struct">>}

EvaluatorGrows ==
    \/ Family = "control" /\ Len(shape) < MaxNesting + 2 /\ \E w \in Structures : Piece(w)
    \/ Family = "match" /\ Len(shape) < MaxArms + 2
       /\ \E p \in DOMAIN Patterns, g \in DOMAIN Guards : Piece(<<p, g>>)
    \/ Family = "call" /\ Len(shape) = 2 /\ \E a, b \in DOMAIN Arguments : Pieces(<<a, b>>)
    \/ Family = "index" /\ Len(shape) = 3 /\ Len(shape[3]) < MaxItems
       /\ \E c \in {"a"} \cup Wide : shape' = [shape EXCEPT ![3] = Append(@, c)]
    \/ Family = "index" /\ Len(shape) = 3 /\ \E i \in Ints : Piece(i)
    \/ Family = "arith" /\ Len(shape) = 2 /\ \E a, b \in Ints : Pieces(<<a, b>>)
    \/ Family = "range" /\ Len(shape) = 1 /\ \E a, b \in Ints, i \in BOOLEAN : Pieces(<<a, b, i>>)
    \/ Family = "struct" /\ Len(shape) < MaxStatements + 1 /\ \E x \in DOMAIN Steps : Piece(x)
=============================================================================
