------------------------------ MODULE Evaluator ------------------------------
(***************************************************************************)
(* What the interpreter computes for a statement or an expression.         *)
(*                                                                         *)
(* Modelled from eval_statement, eval_block, eval_expression,              *)
(* match_pattern, check_exhaustiveness, call_function,                     *)
(* check_struct_invariants and eval_binary_op of src/src/interpreter.rs.   *)
(* Eval(e, s), and Exec(d, s), return the value, the state after it and      *)
(* whether an error is on its way up; the state is what one program can    *)
(* see of the interpreter: the chained scopes, the current one, the        *)
(* deferred expressions, the types it declared, and what it registered.    *)
(*                                                                         *)
(* `return`, `break` and `continue` are VALUES here as they are in the     *)
(* code: only eval_block, the loops and call_function look at them.        *)
(* Contracts and old() are in CallStack; floats are left out; a string is  *)
(* a sequence of characters, of which Wide take more than one byte.        *)
(***************************************************************************)
EXTENDS IntegerOps, Sequences, FiniteSets, SequencesExt, TLC

CONSTANTS
    Wide,            \* characters of more than one byte
    Mode,            \* self.execution_mode
    TemplateFiles    \* the template files that exist

ASSUME ModeAssumption == Mode \in {"Normal", "HotReload", "UnitTest"}

-----------------------------------------------------------------------------
(* Values *)
Unit == <<"Unit">>
StrV(chars) == <<"String", chars>>
ArrV(vals) == <<"Array", vals>>
MapV(f) == <<"Map", f>>
RangeV(lo, hi, inclusive) == <<"Range", lo, hi, inclusive>>
StructV(name, f) == <<"Struct", name, f>>
EnumV(enum, variant, vals) == <<"Enum", enum, variant, vals>>
CtorV(enum, variant, arity) == <<"Constructor", enum, variant, arity>>
FnV(params, body, scope) == <<"Function", params, body, scope>>
NativeV(name) == <<"Native", name>>
ReturnV(v) == <<"Return", v>>
BreakV == <<"Break">>
ContinueV == <<"Continue">>

Kind(v) == v[1]
NoneV == EnumV("Option", "None", <<>>)
SomeV(v) == EnumV("Option", "Some", <<v>>)

(* Numbers are truthy whatever they are; what is empty, false or None is not. *)
Truthy(v) ==
    CASE Kind(v) = "Bool" -> v[2]
      [] Kind(v) = "Unit" -> FALSE
      [] Kind(v) \in {"String", "Array"} -> v[2] # <<>>
      [] Kind(v) = "Map" -> DOMAIN v[2] # {}
      [] Kind(v) = "Enum" -> v # NoneV
      [] OTHER -> TRUE

Show(v) == IF Kind(v) = "String" THEN v[2] ELSE <<ToString(v)>>

Bytes(chars) == Len(chars) + Len(SelectSeq(chars, LAMBDA c : c \in Wide))

-----------------------------------------------------------------------------
(* The state, and results *)
Empty == [x \in {} |-> Unit]

\* what define_builtins, std imports and an empty program leave
Start(natives) ==
    [scopes |-> <<[up |-> 0, vars |-> [x \in natives |-> NativeV(x)]]>>,
     at |-> 1,             \* self.environment
     defers |-> <<>>,      \* self.deferred_statements
     enums |-> Empty,      \* self.enums: the variants of each enum
     invariants |-> Empty, \* self.struct_invariants
     server |-> <<>>,      \* routes, middleware, static directories and shutdown handlers
     compiled |-> <<>>,    \* templates compiled, by number
     notes |-> <<>>]       \* history: what the program's calls of note() reported

Then(r, Op(_, _)) == IF r.ok THEN Op(r.v, r.s) ELSE r   \* the operator `?`

RECURSIVE Holder(_, _, _)   \* the nearest scope from i on that defines x, 0 for none
Holder(scopes, i, x) ==
    IF i = 0 \/ (IF i = 0 THEN FALSE ELSE x \in DOMAIN scopes[i].vars)
    THEN i ELSE Holder(scopes, scopes[i].up, x)

Where(s, x) == Holder(s.scopes, s.at, x)
Value(s, x) == s.scopes[Where(s, x)].vars[x]
Put(s, i, x, v) == [s EXCEPT !.scopes[i].vars = (x :> v) @@ @]
Define(s, x, v) == Put(s, s.at, x, v)

DefineAll(s, bindings) == FoldLeft(LAMBDA t, b : Define(t, b[1], b[2]), s, bindings)

Scope(s, up) ==   \* Environment::with_parent, made current
    [s EXCEPT !.scopes = Append(@, [up |-> up, vars |-> Empty]), !.at = Len(s.scopes) + 1]

-----------------------------------------------------------------------------
(* eval_binary_op; of two integers, in IntegerOps. Texts are ordered by the *)
(* codes of their characters, the wide ones last.                          *)
Ascii == "\n !\"#$%&'()*+,-./0123456789:;<=>?@ABCDEFGHIJKLMNOPQRSTUVWXYZ[\\]^_abcdefghijklmnopqrstuvwxyz{|}~"
CodeOf(c) == IF \E i \in 1..Len(Ascii) : SubSeq(Ascii, i, i) = c
             THEN CHOOSE i \in 1..Len(Ascii) : SubSeq(Ascii, i, i) = c ELSE Len(Ascii) + 1
Below(a, b) ==
    LET n == Len(LongestCommonPrefix({a, b})) + 1
    IN n <= Len(b) /\ (n <= Len(a) => CodeOf(a[n]) < CodeOf(b[n]))
TextOrder(op, a, b) ==
    CASE op = "Lt" -> Below(a, b) [] op = "Le" -> ~Below(b, a)
      [] op = "Gt" -> Below(b, a) [] op = "Ge" -> ~Below(a, b)

Equality == {"Eq", "Ne"}
BinaryOp(op, l, r, s) ==
    CASE Kind(l) = "Int" /\ Kind(r) = "Int" -> IntOp(op, l[2], r[2], s)
      [] op = "Add" /\ "String" \in {Kind(l), Kind(r)} -> Ok(StrV(Show(l) \o Show(r)), s)
      [] op = "Add" /\ Kind(l) = "Array" /\ Kind(r) = "Array" -> Ok(ArrV(l[2] \o r[2]), s)
      [] op \in Equality /\ Kind(l) = Kind(r) /\ Kind(l) \in {"String", "Bool"} ->
            Ok(BoolV((op = "Eq") = (l = r)), s)
      [] op \in {"Lt", "Le", "Gt", "Ge"} /\ Kind(l) = "String" /\ Kind(r) = "String" ->
            Ok(BoolV(TextOrder(op, l[2], r[2])), s)
      [] OTHER -> Error("InvalidOperation", s)

-----------------------------------------------------------------------------
(* Patterns: <<TRUE, bindings>> or <<FALSE>> *)
NoMatch == <<FALSE>>

RECURSIVE Match(_, _)
RECURSIVE MatchAll(_, _)
Match(p, v) ==
    CASE p.k = "wild" -> <<TRUE, <<>>>>
      [] p.k = "var" -> <<TRUE, << <<p.name, v>> >> >>
      [] p.k = "lit" -> IF v = p.v THEN <<TRUE, <<>>>> ELSE NoMatch
      [] p.k = "array" ->   \* tuples too
            IF Kind(v) # "Array" THEN NoMatch
            ELSE IF Len(v[2]) # Len(p.parts) THEN NoMatch ELSE MatchAll(p.parts, v[2])
      [] p.k = "struct" ->
            IF Kind(v) # "Struct" THEN NoMatch
            ELSE IF v[2] # p.name \/ \E i \in DOMAIN p.parts : p.fields[i] \notin DOMAIN v[3]
                 THEN NoMatch
                 ELSE MatchAll(p.parts, [i \in DOMAIN p.parts |-> v[3][p.fields[i]]])
      [] p.k = "variant" ->   \* an empty enum name is an unqualified pattern
            IF Kind(v) # "Enum" THEN NoMatch
            ELSE IF p.enum \notin {"", v[2]} \/ p.variant # v[3] \/ Len(p.parts) # Len(v[4])
                 THEN NoMatch ELSE MatchAll(p.parts, v[4])

MatchAll(ps, vs) ==
    IF ps = <<>> THEN <<TRUE, <<>>>>
    ELSE LET first == Match(Head(ps), Head(vs))
             rest == MatchAll(Tail(ps), Tail(vs))
         IN IF first[1] /\ rest[1] THEN <<TRUE, first[2] \o rest[2]>> ELSE NoMatch

(* The variants no arm names, when no arm takes everything. Guards and the  *)
(* patterns of the fields are not looked at.                                *)
Missing(enum, arms, s) ==
    IF \/ enum \notin DOMAIN s.enums
       \/ \E i \in DOMAIN arms : arms[i].pattern.k \in {"wild", "var"}
    THEN {}
    ELSE DOMAIN s.enums[enum] \
           {arms[i].pattern.variant : i \in {j \in DOMAIN arms : arms[j].pattern.k = "variant"}}

-----------------------------------------------------------------------------
RECURSIVE Eval(_, _)   \* of expressions and, by way of Exec, of statements

\* the items of a list in turn, from the result r on; the first error ends it
InTurn(Step(_, _, _), items, r) ==
    FoldLeft(LAMBDA so, x : Then(so, LAMBDA v, t : Step(v, t, x)), r, items)

(* Expressions from left to right; the first error ends it. *)
EvalAll(es, s) ==
    InTurn(LAMBDA vs, t, e : Then(Eval(e, t), LAMBDA v, u : Ok(Append(vs, v), u)), es, Ok(<<>>, s))

(* Statements of a body up to the first control value. *)
Control == {"Return", "Break", "Continue"}
ExecAll(ds, s) ==
    InTurn(LAMBDA v, t, d : IF Kind(v) \in Control THEN Ok(v, t) ELSE Eval(d, t), ds, Ok(Unit, s))

RunDefers(ds, s) ==   \* last one first; errors are ignored
    FoldRight(LAMBDA d, t : Eval(d, t).s, ds, s)

Deferred(s, base) == SubSeq(s.defers, base + 1, Len(s.defers))
Drained(s, base) == RunDefers(Deferred(s, base), [s EXCEPT !.defers = SubSeq(@, 1, base)])

(* eval_block: an error leaves the scope and the deferred expressions. *)
ExecBlock(ds, s) ==
    Then(ExecAll(ds, Scope(s, s.at)), LAMBDA v, t :
        Ok(v, [Drained(t, Len(s.defers)) EXCEPT !.at = s.at]))

RECURSIVE LoopPassesBreak(_, _)   \* mutant: `break` leaves every loop around it
LoopPassesBreak(d, s) ==
    Then(Eval(d.cond, s), LAMBDA c, t :
        IF ~Truthy(c) THEN Ok(Unit, t)
        ELSE Then(ExecBlock(d.body, t), LAMBDA v, u :
                IF Kind(v) \in {"Break", "Return"} THEN Ok(v, u) ELSE LoopPassesBreak(d, u)))

RECURSIVE ExecLoop(_, _)
(* while and loop; `loop` has the condition true. *)
ExecLoop(d, s) ==
    Then(Eval(d.cond, s), LAMBDA c, t :
        IF ~Truthy(c) THEN Ok(Unit, t)
        ELSE Then(ExecBlock(d.body, t), LAMBDA v, u :
                CASE Kind(v) = "Break" -> Ok(Unit, u)
                  [] Kind(v) = "Return" -> Ok(v, u)
                  [] OTHER -> ExecLoop(d, u)))

IterableExclusive(v, s) ==   \* mutant: a range never includes its end
    IF Kind(v) = "Range"
    THEN Ok([i \in 1..(IF v[3] > v[2] THEN v[3] - v[2] ELSE 0) |-> IntV(v[2] + i - 1)], s)
    ELSE Ok(v[2], s)

(* What a for loop iterates over: a snapshot. *)
Iterable(v, s) ==
    CASE Kind(v) = "Array" -> Ok(v[2], s)
      [] Kind(v) = "Range" ->
            Then(IF v[4] THEN Arithmetic(v[3] + 1, s) ELSE Ok(IntV(v[3]), s), LAMBDA end, t :
                Ok([i \in 1..(IF end[2] > v[2] THEN end[2] - v[2] ELSE 0) |->
                        IntV(v[2] + i - 1)], t))
      [] Kind(v) = "String" -> Ok([i \in DOMAIN v[2] |-> StrV(<<v[2][i]>>)], s)
      [] Kind(v) = "Map" ->   \* in an order that the hash map picks
            LET keys == SetToSeq(DOMAIN v[2]) IN Ok([i \in DOMAIN keys |-> StrV(keys[i])], s)
      [] OTHER -> Error("CannotIterate", s)

ExecItems(d, items, s) ==
    Then(InTurn(LAMBDA v, t, item :
                    IF Kind(v) \in {"Return", "Break"} THEN Ok(v, t)
                    ELSE Then(ExecBlock(d.body, Define(Scope(t, t.at), d.name, item)), LAMBDA w, u :
                            Ok(IF Kind(w) = "Continue" THEN Unit ELSE w, [u EXCEPT !.at = s.at])),
                items, Ok(Unit, s)),
         LAMBDA v, t : Ok(IF Kind(v) = "Break" THEN Unit ELSE v, t))

(* The body of a module, the methods of an impl: control values are dropped, errors are not. *)
ExecIgnoring(ds, s) ==
    InTurn(LAMBDA v, t, d : Then(Eval(d, t), LAMBDA w, u : Ok(Unit, u)), ds, Ok(Unit, s))

(* The declarations of types: enums define their variants, impl blocks add *)
(* the invariants of a struct and define their methods as functions.       *)
Declare(d, s) ==
    CASE d.k = "enum" ->
            Ok(Unit, DefineAll([s EXCEPT !.enums = (d.name :> d.arity) @@ @],
                [i \in DOMAIN d.order |-> <<d.order[i],
                    IF d.arity[d.order[i]] = 0 THEN EnumV(d.name, d.order[i], <<>>)
                    ELSE CtorV(d.name, d.order[i], d.arity[d.order[i]])>>]))
      [] d.k = "impl" ->
            ExecIgnoring(d.methods, IF d.invariants = <<>> THEN s
                                    ELSE [s EXCEPT !.invariants = (d.name :> d.invariants) @@ @])

Statements == {"expr", "let", "fn", "return", "break", "continue", "if", "while", "for", "defer",
               "export", "module", "enum", "impl"}
Exec(d, s) ==
    CASE d.k = "expr" -> Eval(d.e, s)
      [] d.k = "let" ->
            Then(Eval(d.e, s), LAMBDA v, t :
                LET m == Match(d.pattern, v)
                IN IF m[1] THEN Ok(Unit, DefineAll(t, m[2])) ELSE Error("Destructuring", t))
      [] d.k = "fn" -> Ok(Unit, Define(s, d.name, FnV(d.params, d.body, s.at)))
      [] d.k = "return" -> Then(Eval(d.e, s), LAMBDA v, t : Ok(ReturnV(v), t))
      [] d.k = "break" -> Ok(BreakV, s)
      [] d.k = "continue" -> Ok(ContinueV, s)
      [] d.k = "if" ->
            Then(Eval(d.cond, s), LAMBDA c, t :
                IF Truthy(c) THEN ExecBlock(d.then, t) ELSE ExecBlock(d.else, t))
      [] d.k = "while" -> ExecLoop(d, s)
      [] d.k = "for" ->
            Then(Eval(d.over, s), LAMBDA v, t :
                Then(Iterable(v, t), LAMBDA items, u : ExecItems(d, items, u)))
      [] d.k = "defer" -> Ok(Unit, [s EXCEPT !.defers = Append(@, d.e)])
      [] d.k = "export" -> Then(Eval(d.of, s), LAMBDA v, t : Ok(Unit, t))
      [] d.k = "module" -> ExecIgnoring(d.body, s)
      [] d.k \in {"enum", "impl"} -> Declare(d, s)

-----------------------------------------------------------------------------
(* check_struct_invariants: in a scope of the fields and self *)
HoldAll(es, v, previous, s) ==
    Then(InTurn(LAMBDA w, t, e :
                    Then(Eval(e, t), LAMBDA b, u :
                        IF Truthy(b) THEN Ok(v, u)
                        ELSE Error("Invariant", [u EXCEPT !.at = previous])),
                es, Ok(v, s)),
         LAMBDA w, t : Ok(w, [t EXCEPT !.at = previous]))

CheckInvariants(v, s) ==   \* the value, when it is no struct or its invariants hold
    IF Kind(v) # "Struct" THEN Ok(v, s)
    ELSE IF v[2] \notin DOMAIN s.invariants THEN Ok(v, s)
    ELSE LET inner == Scope(s, s.at)
             bound == [inner EXCEPT !.scopes[inner.at].vars = ("self" :> v) @@ v[3]]
         IN HoldAll(s.invariants[v[2]], v, s.at, bound)

AssignFirst(e, s) ==   \* mutant: a field too is stored before the invariants are checked
    Then(Eval(e.e, s), LAMBDA v, t :
        LET x == IF e.target.k = "id" THEN e.target.name ELSE e.target.of.name
            new == IF e.target.k = "id" THEN v ELSE [Value(t, x) EXCEPT ![3][e.target.field] = v]
        IN CheckInvariants(new, Put(t, Where(t, x), x, new)))

Assign(e, s) ==
    Then(Eval(e.e, s), LAMBDA v, t :
        CASE e.target.k = "id" ->
                IF Where(t, e.target.name) = 0 THEN Error("UndefinedVariable", t)
                ELSE CheckInvariants(v, Put(t, Where(t, e.target.name), e.target.name, v))
          [] e.target.k = "field" /\ e.target.of.k = "id" ->
                LET x == e.target.of.name
                IN IF Where(t, x) = 0 THEN Error("UndefinedVariable", t)
                   ELSE LET old == Value(t, x)
                        IN IF Kind(old) # "Struct" THEN Error("RuntimeError", t)
                           ELSE IF e.target.field \notin DOMAIN old[3] THEN Error("RuntimeError", t)
                           ELSE Then(CheckInvariants([old EXCEPT ![3][e.target.field] = v], t),
                                     LAMBDA new, u : Ok(v, Put(u, Where(u, x), x, new)))
          [] OTHER -> Error("RuntimeError", t))

-----------------------------------------------------------------------------
(* Index: a negative index counts from the end, in BYTES for a string *)
At(items, size, i, s) ==
    LET index == IF i < 0 THEN size + i ELSE i   \* below zero, `as usize` makes it huge
    IN IF index \in 0..(Len(items) - 1) THEN Ok(items[index + 1], s)
       ELSE Error("IndexOutOfBounds", s)

Index(o, i, s) ==
    CASE Kind(o) = "Array" /\ Kind(i) = "Int" -> At(o[2], Len(o[2]), i[2], s)
      [] Kind(o) = "String" /\ Kind(i) = "Int" ->
            Then(At(o[2], Bytes(o[2]), i[2], s), LAMBDA c, t : Ok(StrV(<<c>>), t))
      [] Kind(o) \in {"Map", "Struct"} /\ Kind(i) = "String" ->
            IF i[2] \in DOMAIN o[Len(o)] THEN Ok(o[Len(o)][i[2]], s) ELSE Error("UnknownKey", s)
      [] OTHER -> Error("TypeError", s)

Field(o, field, s) ==
    IF Kind(o) \notin {"Map", "Struct"} THEN Error("TypeError", s)
    ELSE IF field \in DOMAIN o[Len(o)] THEN Ok(o[Len(o)][field], s) ELSE Error("UnknownKey", s)

Untaken == <<"Untaken">>
TryArmsKeepingScope(arms, v, s) ==   \* mutant: a guard that fails leaves its scope
    Then(InTurn(LAMBDA r, t, arm :
                    LET m == Match(arm.pattern, v)
                    IN IF Kind(r) # "Untaken" \/ ~m[1] THEN Ok(r, t)
                       ELSE Then(Eval(arm.guard, DefineAll(Scope(t, t.at), m[2])), LAMBDA g, u :
                               IF ~Truthy(g) THEN Ok(Untaken, u)
                               ELSE Then(Eval(arm.body, u), LAMBDA w, x :
                                       Ok(w, [x EXCEPT !.at = s.at]))),
                arms, Ok(Untaken, s)),
         LAMBDA r, t : IF Kind(r) = "Untaken" THEN Error("NoPatternMatched", t) ELSE Ok(r, t))

(* An arm's guard and body see its bindings in a scope of their own. *)
TryArms(arms, v, s) ==
    Then(InTurn(LAMBDA r, t, arm :
                    LET m == Match(arm.pattern, v)
                    IN IF Kind(r) # "Untaken" \/ ~m[1] THEN Ok(r, t)
                       ELSE Then(Eval(arm.guard, DefineAll(Scope(t, t.at), m[2])), LAMBDA g, u :
                               IF ~Truthy(g) THEN Ok(Untaken, [u EXCEPT !.at = s.at])
                               ELSE Then(Eval(arm.body, u), LAMBDA w, x :
                                       Ok(w, [x EXCEPT !.at = s.at]))),
                arms, Ok(Untaken, s)),
         LAMBDA r, t : IF Kind(r) = "Untaken" THEN Error("NoPatternMatched", t) ELSE Ok(r, t))

MatchExpression(e, s) ==
    Then(Eval(e.of, s), LAMBDA v, t :
        IF Kind(v) # "Enum" THEN TryArms(e.arms, v, t)
        ELSE IF Missing(v[2], e.arms, t) # {} THEN Error("NonExhaustive", t)
        ELSE TryArms(e.arms, v, t))

(* && and || give booleans and ?? unwraps Some: the right side waits. *)
Binary(e, s) ==
    Then(Eval(e.l, s), LAMBDA l, t :
        CASE e.op = "And" /\ ~Truthy(l) -> Ok(BoolV(FALSE), t)
          [] e.op = "Or" /\ Truthy(l) -> Ok(BoolV(TRUE), t)
          [] e.op \in {"And", "Or"} ->
                Then(Eval(e.r, t), LAMBDA r, u : Ok(BoolV(Truthy(r)), u))
          [] e.op = "NullCoalesce" ->
                IF l = NoneV THEN Eval(e.r, t)
                ELSE IF Kind(l) = "Enum" THEN Ok(IF l[2] = "Option" THEN l[4][1] ELSE l, t)
                ELSE Ok(l, t)
          [] OTHER -> Then(Eval(e.r, t), LAMBDA r, u : BinaryOp(e.op, l, r, u)))

Unary(e, s) ==
    Then(Eval(e.e, s), LAMBDA v, t :
        CASE e.op = "Not" -> Ok(BoolV(~Truthy(v)), t)
          [] e.op = "Neg" /\ Kind(v) = "Int" -> Arithmetic(0 - v[2], t)
          [] OTHER -> Error("TypeError", t))

-----------------------------------------------------------------------------
(* call_function: only `return` ends the body; a `break` that reaches it is *)
(* a value like any other.                                                  *)
ExecBody(ds, s) ==
    Then(InTurn(LAMBDA v, t, d : IF Kind(v) = "Return" THEN Ok(v, t) ELSE Eval(d, t), ds, Ok(Unit, s)),
         LAMBDA v, t : Ok(IF Kind(v) = "Return" THEN v[2] ELSE v, t))

Native(name, args, s) ==   \* external code: it reports its call, or fails
    IF name = "fail" THEN Error("Raised", s)
    ELSE Ok(Unit, [s EXCEPT !.notes = Append(@, <<name, args>>)])

Apply(f, args, s) ==
    CASE Kind(f) = "Function" ->
            IF Len(args) # Len(f[2]) THEN Error("ArityMismatch", s)
            ELSE Then(ExecBody(f[3], DefineAll(Scope(s, f[4]),
                                        [i \in DOMAIN args |-> <<f[2][i], args[i]>>])),
                      LAMBDA v, t : Ok(v, [Drained(t, Len(s.defers)) EXCEPT !.at = s.at]))
      [] Kind(f) = "Native" -> Native(f[2], args, s)
      [] Kind(f) = "Constructor" ->
            IF Len(args) # f[4] THEN Error("ArityMismatch", s) ELSE Ok(EnumV(f[2], f[3], args), s)
      [] OTHER -> Error("TypeError", s)

General(e, s) ==
    Then(Eval(e.f, s), LAMBDA f, t :
        Then(EvalAll(e.args, t), LAMBDA args, u : Apply(f, args, u)))

(* A call x.method(args): the fields of a module, or any function in sight  *)
(* with x as its first argument; the invariants of x hold after it.         *)
MethodCall(e, s) ==
    Then(Eval(e.of, s), LAMBDA o, t :
        Then(EvalAll(e.args, t), LAMBDA args, u :
            IF Kind(o) = "Struct" /\ (IF Kind(o) = "Struct" THEN o[2] = "module:" ELSE FALSE)
            THEN IF e.method \in DOMAIN o[3] THEN Apply(o[3][e.method], args, u)
                 ELSE Error("RuntimeError", u)
            ELSE IF Where(u, e.method) = 0 THEN Error("UndefinedFunction", u)
            ELSE Then(Apply(Value(u, e.method), <<o>> \o args, u), LAMBDA r, w :
                    IF Kind(o) # "Struct" \/ e.of.k # "id" THEN Ok(r, w)
                    ELSE IF Where(w, e.of.name) = 0 THEN Ok(r, w)
                    ELSE LET now == Value(w, e.of.name)
                         IN IF Kind(now) # "Struct" THEN Ok(r, w)
                            ELSE IF now[2] # o[2] THEN Ok(r, w)
                            ELSE Then(CheckInvariants(now, w), LAMBDA v, x : Ok(r, x)))))

-----------------------------------------------------------------------------
(* Calls that are recognised by the NAME they are written with, whatever   *)
(* the name is bound to.                                                   *)
ServerNames == {"listen", "new_server", "serve_static", "routes", "use_middleware", "on_shutdown"}
TemplateNames == {"template", "compile", "render"}
PathNames == {"read_file", "exists", "mkdir", "remove"}   \* of the twelve of one path
TwoPathNames == {"rename", "copy"}
ContentNames == {"write_file", "append_file"}
EachNames == {"filter", "transform"}
MethodNames == {"get", "post", "put", "delete", "patch"}

Skipped(name) ==   \* should_skip_server_call
    CASE Mode = "Normal" -> FALSE
      [] Mode = "HotReload" -> name \in {"listen", "on_shutdown"}
      [] Mode = "UnitTest" -> name \in ServerNames \ {"new_server"}

Registered(s, what) == [s EXCEPT !.server = Append(@, what)]
IsText(v) == Kind(v) = "String"

ServerForm(name, args, s) ==
    CASE name = "new_server" -> Ok(MapV("_type" :> StrV(<<"Server">>)), [s EXCEPT !.server = <<>>])
      [] Skipped(name) -> Ok(Unit, s)
      [] OTHER ->
            Then(EvalAll(args, s), LAMBDA vs, t :
                IF \/ name = "listen" /\ Kind(vs[1]) # "Int"
                   \/ name \in {"serve_static", "routes"} /\ \E i \in DOMAIN vs : ~IsText(vs[i])
                THEN Error("TypeError", t)
                ELSE Ok(Unit, Registered(t, <<name, vs>>)))

Rendered(path, data, s) == Ok(StrV(path), s)   \* the rendering itself is in Templates
TemplateForm(name, args, s) ==
    Then(EvalAll(args, s), LAMBDA vs, t :
        CASE name \in {"template", "compile"} /\ ~IsText(vs[1]) -> Error("TypeError", t)
          [] Len(vs) = 2 /\ Kind(vs[Len(vs)]) # "Map" -> Error("TypeError", t)
          [] name # "render" /\ vs[1][2] \notin TemplateFiles -> Error("RuntimeError", t)
          [] name = "template" -> Rendered(vs[1][2], vs[2], t)
          [] name = "compile" ->
                Ok(MapV("_template_id" :> IntV(Len(t.compiled)) @@ "path" :> vs[1]),
                   [t EXCEPT !.compiled = Append(@, vs[1][2])])
          [] OTHER ->   \* render: by the number in the map it is given
                IF Kind(vs[1]) # "Map" THEN Error("TypeError", t)
                ELSE IF "_template_id" \notin DOMAIN vs[1][2] THEN Error("TypeError", t)
                ELSE LET id == vs[1][2]["_template_id"][2]
                     IN IF id \notin 0..(Len(t.compiled) - 1) THEN Error("RuntimeError", t)
                        ELSE Rendered(t.compiled[id + 1], vs[2], t))

(* Paths are taken relative to the script. When the argument that should be *)
(* a path is no string, the call starts again as an ordinary one.           *)
Resolved(v) ==
    IF v[2] # <<>> /\ Head(v[2] \o <<"">>) = "/" THEN v ELSE StrV(<<"script">> \o v[2])
FsForm(e, s) ==
    LET paths == IF e.f.name \in TwoPathNames THEN 2 ELSE 1
    IN Then(EvalAll(e.args, s), LAMBDA vs, t :
        IF \E i \in 1..paths : ~IsText(vs[i]) THEN General(e, t)
        ELSE Then(Eval(e.f, t), LAMBDA f, u :
                Apply(f, [i \in DOMAIN vs |-> IF i <= paths THEN Resolved(vs[i]) ELSE vs[i]], u)))

ApplyEach(f, items, keep, s) ==   \* filter keeps items, transform replaces them
    InTurn(LAMBDA vs, t, item :
               Then(Apply(f, <<item>>, t), LAMBDA v, u :
                   Ok(IF ~keep THEN Append(vs, v) ELSE IF Truthy(v) THEN Append(vs, item) ELSE vs, u)),
           items, Ok(<<>>, s))

EachFormAgain(name, args, s) ==   \* mutant: on another type the call starts again
    Then(EvalAll(args, s), LAMBDA vs, t :
        IF Kind(vs[1]) # "Array" THEN Then(EvalAll(args, t), LAMBDA ws, u : Error("TypeError", u))
        ELSE Ok(ArrV(vs[1][2]), t))

EachForm(name, args, s) ==
    Then(EvalAll(args, s), LAMBDA vs, t :
        IF Kind(vs[1]) # "Array" THEN Error("TypeError", t)
        ELSE Then(ApplyEach(vs[2], vs[1][2], name = "filter", t), LAMBDA items, u :
                Ok(ArrV(items), u)))

(* An interpolated string; in a route pattern a name stands for itself. *)
EvalParts(parts, route, s) ==
    InTurn(LAMBDA text, t, p :
               Then(IF route /\ p.k = "id" THEN Ok(StrV(<<"{", p.name, "}">>), t) ELSE Eval(p, t),
                    LAMBDA v, u : Ok(text \o Show(v), u)),
           parts, Ok(<<>>, s))

RoutePattern(e, s) ==
    IF e.k = "interpolated" THEN Then(EvalParts(e.parts, TRUE, s), LAMBDA v, t : Ok(StrV(v), t))
    ELSE Eval(e, s)

(* get("/path", handler) registers a route; any other first argument makes *)
(* it the HTTP client's get, which evaluates that argument again.          *)
RouteForm(e, s) ==
    Then(RoutePattern(e.args[1], s), LAMBDA p, t :
        IF ~IsText(p) \/ Head(p[2] \o <<"">>) # "/" THEN General(e, t)
        ELSE IF Mode = "UnitTest" THEN Ok(Unit, t)
        ELSE Then(Eval(e.args[2], t), LAMBDA h, u :
                Ok(Unit, Registered(u, <<e.f.name, <<p, h>> >>))))

Arity(name) == CASE name = "new_server" -> 0
                 [] name \in {"listen", "routes", "use_middleware", "on_shutdown", "compile"} \cup PathNames -> 1
                 [] OTHER -> 2

Call(e, s) ==
    LET name == IF e.f.k = "id" THEN e.f.name ELSE ""
        Form(names) == name \in names /\ Len(e.args) = Arity(name)
    IN CASE name = "old" /\ Len(e.args) = 1 -> Eval(e.args[1], s)   \* outside a postcondition
         [] Form(ServerNames) -> ServerForm(name, e.args, s)
         [] Form(TemplateNames) -> TemplateForm(name, e.args, s)
         [] Form(PathNames \cup TwoPathNames \cup ContentNames) -> FsForm(e, s)
         [] Form(EachNames) -> EachForm(name, e.args, s)
         [] Form(MethodNames) -> RouteForm(e, s)
         [] OTHER -> General(e, s)

-----------------------------------------------------------------------------
Pairs(pairs, s) ==   \* of a map literal, key before value; the last of a key wins
    InTurn(LAMBDA f, t, pair :
               Then(EvalAll(pair, t), LAMBDA kv, u :
                   IF Kind(kv[1]) \notin {"String", "Int"} THEN Error("RuntimeError", u)
                   ELSE Ok((Show(kv[1]) :> kv[2]) @@ f, u)),
           pairs, Ok(Empty, s))

FieldsOf(names, vs) ==   \* the last of a name wins
    FoldLeft(LAMBDA f, i : (names[i] :> vs[i]) @@ f, Empty, [i \in DOMAIN names |-> i])

Eval(e, s) ==
    CASE e.k = "lit" -> Ok(e.v, s)
      [] e.k = "id" -> IF Where(s, e.name) = 0 THEN Error("UndefinedVariable", s)
                       ELSE Ok(Value(s, e.name), s)
      [] e.k = "binary" -> Binary(e, s)
      [] e.k = "unary" -> Unary(e, s)
      [] e.k = "call" -> Call(e, s)
      [] e.k = "method" -> MethodCall(e, s)
      [] e.k = "array" -> Then(EvalAll(e.es, s), LAMBDA vs, t : Ok(ArrV(vs), t))
      [] e.k = "map" -> Then(Pairs(e.pairs, s), LAMBDA m, t : Ok(MapV(m), t))
      [] e.k = "index" -> Then(EvalAll(<<e.of, e.i>>, s), LAMBDA vs, t : Index(vs[1], vs[2], t))
      [] e.k = "field" -> Then(Eval(e.of, s), LAMBDA o, t : Field(o, e.field, t))
      [] e.k = "struct" ->
            Then(EvalAll(e.es, s), LAMBDA vs, t :
                CheckInvariants(StructV(e.name, FieldsOf(e.fields, vs)), t))
      [] e.k = "variant" -> Then(EvalAll(e.es, s), LAMBDA vs, t : Ok(EnumV(e.enum, e.variant, vs), t))
      [] e.k = "assign" -> Assign(e, s)
      [] e.k = "block" -> ExecBlock(e.body, s)
      [] e.k = "ifexpr" ->
            Then(Eval(e.cond, s), LAMBDA c, t : Eval(IF Truthy(c) THEN e.then ELSE e.else, t))
      [] e.k = "lambda" -> Ok(FnV(e.params, <<[k |-> "return", e |-> e.e]>>, s.at), s)
      [] e.k = "match" -> MatchExpression(e, s)
      [] e.k = "range" ->
            Then(EvalAll(<<e.lo, e.hi>>, s), LAMBDA vs, t :
                IF Kind(vs[1]) = "Int" /\ Kind(vs[2]) = "Int"
                THEN Ok(RangeV(vs[1][2], vs[2][2], e.inclusive), t) ELSE Error("RuntimeError", t))
      [] e.k = "interpolated" -> Then(EvalParts(e.parts, FALSE, s), LAMBDA v, t : Ok(StrV(v), t))
      [] e.k \in {"await", "try"} -> Error("RuntimeError", s)
      [] e.k \in Statements -> Exec(e, s)

(* eval: a program's statements; `return` ends it. *)
Run(ds, s) == ExecBody(ds, s)
=============================================================================
