------------------------------ MODULE CallStack ------------------------------
(***************************************************************************)
(* How the interpreter enters and leaves functions and blocks: scopes,     *)
(* deferred expressions, pre- and postconditions and old().                *)
(*                                                                         *)
(* Modelled from call_function, eval_block, the Defer statement, the old() *)
(* call and capture_old_values in src/src/interpreter.rs. The interpreter  *)
(* keeps ONE environment, ONE stack of deferred expressions and ONE set of *)
(* old values for all activations; errors travel by Rust's `?`, past the   *)
(* code that would restore them. What a program does between is any        *)
(* sequence of calls, blocks, defers, errors and returns.                  *)
(***************************************************************************)
EXTENDS Naturals, Sequences, FiniteSetsExt, SequencesExt

CONSTANTS
    MaxFrames,   \* activations of functions and blocks in a behaviour
    MaxDepth,    \* activations at one time
    MaxDefers,   \* defer statements executed in a behaviour
    Errors       \* whether evaluation may fail

ASSUME BoundsAssumption == {MaxFrames, MaxDepth, MaxDefers} \subseteq Nat
ASSUME ErrorsAssumption == Errors \in BOOLEAN

VARIABLES
    frames,      \* the Rust call stack: activations, innermost last
    made,        \* number of activations so far; their numbers are 1..made
    env,         \* self.environment: the activation whose scope is current, 0 the top level
    deferred,    \* self.deferred_statements: numbers of defer statements executed
    old,         \* self.current_old_values: the activation that captured them, 0 none
    deferrer,    \* history: the activation that executed each defer statement
    ran,         \* history: deferred expressions evaluated, by which activation
    abandoned    \* history: activations an error left, or kept from being entered

vars == <<frames, made, env, deferred, old, deferrer, ran, abandoned>>

Frames ==
    [id : 1..MaxFrames, kind : {"function", "block"}, contract : BOOLEAN,
     previous : 0..MaxFrames,     \* the environment to restore
     base : 0..MaxDefers,         \* deferred_count_before
     phase : {"pre", "body", "defers", "post"},
     todo : Seq(1..MaxDefers),    \* deferred_to_run
     swallow : BOOLEAN,           \* called from a deferred expression: errors end here
     calls : BOOLEAN]             \* history: it called a function since its body began

TypeOK ==
    /\ frames \in Seq(Frames) /\ Len(frames) <= MaxDepth
    /\ \A i \in DOMAIN frames : frames[i].base <= Len(deferred)   \* drain(base..) is in range
    /\ made \in 0..MaxFrames
    /\ env \in 0..made
    /\ deferrer \in Seq(1..made) /\ Len(deferrer) <= MaxDefers
    /\ deferred \in Seq(DOMAIN deferrer)
    /\ old \in 0..made
    /\ ran \in Seq([id : DOMAIN deferrer, by : 1..made])
    /\ abandoned \subseteq 1..made

Init ==
    /\ frames = <<>>
    /\ made = 0
    /\ env = 0
    /\ deferred = <<>>
    /\ old = 0
    /\ deferrer = <<>>
    /\ ran = <<>>
    /\ abandoned = {}

Top == Last(frames)
In(phase) == frames # <<>> /\ Top.phase = phase
Below == Front(frames)

\* What stays of the stack after an error, which leaves activations without
\* further ado up to the evaluation of a deferred expression, where it is
\* ignored, or up to the top level.
Unwound(stack) ==
    LET guards == {i \in DOMAIN stack : stack[i].swallow}
    IN  IF guards = {} THEN <<>> ELSE SubSeq(stack, 1, Max(guards) - 1)

Lost(stack, rest) == {stack[i].id : i \in DOMAIN stack \ DOMAIN rest}

NewFrame(kind, contract, swallow) ==
    [id |-> made + 1, kind |-> kind, contract |-> contract, previous |-> env,
     base |-> Len(deferred), phase |-> IF contract THEN "pre" ELSE "body", todo |-> <<>>,
     swallow |-> swallow, calls |-> FALSE]

MayEnter == made < MaxFrames /\ Len(frames) < MaxDepth

-----------------------------------------------------------------------------
(* Entering.                                                               *)

EnterBlock ==
    /\ In("body")
    /\ MayEnter
    /\ made' = made + 1
    /\ frames' = Append(frames, NewFrame("block", FALSE, FALSE))
    /\ env' = made + 1
    /\ UNCHANGED <<deferred, old, deferrer, ran, abandoned>>

\* call_function on top of stack; a function without a contract has nothing
\* to check before its body.
Enter(stack, contract, swallow) ==
    /\ MayEnter
    /\ made' = made + 1
    /\ frames' = Append([i \in DOMAIN stack |-> [stack[i] EXCEPT !.calls = @ \/ stack[i].phase # "pre"]],
                        NewFrame("function", contract, swallow))
    /\ env' = made + 1
    /\ UNCHANGED <<deferred, old, abandoned>>

\* From the top level (the receive loop), a body, or a contract's expressions.
Call ==
    /\ frames = <<>> \/ In("pre") \/ In("body") \/ (In("post") /\ Top.contract)
    /\ \E contract \in BOOLEAN : Enter(frames, contract, FALSE)
    /\ UNCHANGED <<deferrer, ran>>

\* Mutant: old values of the caller are left in place when there are some.
CaptureOnceOnly == old' = IF old = 0 THEN Top.id ELSE old

\* Old values replace those of whoever called.
CaptureOld == old' = Top.id

\* The preconditions hold; the body is next.
BeginBody ==
    /\ In("pre")
    /\ CaptureOld
    /\ frames' = Append(Below, [Top EXCEPT !.phase = "body"])
    /\ UNCHANGED <<made, env, deferred, deferrer, ran, abandoned>>

PreconditionFails ==
    /\ Errors
    /\ In("pre")
    /\ env' = Top.previous
    /\ frames' = Unwound(frames)
    /\ abandoned' = abandoned \cup Lost(frames, frames')
    /\ UNCHANGED <<made, deferred, old, deferrer, ran>>

DeferStatement ==
    /\ In("body")
    /\ Len(deferrer) < MaxDefers
    /\ deferrer' = Append(deferrer, Top.id)
    /\ deferred' = Append(deferred, Len(deferrer) + 1)
    /\ UNCHANGED <<frames, made, env, old, ran, abandoned>>

\* An expression of a body or of a contract cannot be evaluated.
Fails ==
    /\ Errors
    /\ In("pre") \/ In("body") \/ (In("post") /\ Top.contract)
    /\ frames' = Unwound(frames)
    /\ abandoned' = abandoned \cup Lost(frames, frames')
    /\ UNCHANGED <<made, env, deferred, old, deferrer, ran>>

-----------------------------------------------------------------------------
(* Leaving.                                                                *)

\* Mutant: every deferred expression is taken, the callers' too.
DrainAll ==
    /\ In("body")
    /\ frames' = Append(Below, [Top EXCEPT !.phase = "defers",
                                           !.todo = deferred])
    /\ deferred' = <<>>
    /\ UNCHANGED <<made, env, old, deferrer, ran, abandoned>>

\* Mutant: the deferred expressions are copied, not drained.
DrainCopies ==
    /\ In("body")
    /\ frames' = Append(Below, [Top EXCEPT !.phase = "defers",
                                           !.todo = SubSeq(deferred, Top.base + 1, Len(deferred))])
    /\ UNCHANGED <<made, env, deferred, old, deferrer, ran, abandoned>>

\* Mutant: what a block deferred is dropped when it ends.
DrainForgets ==
    /\ In("body")
    /\ frames' = Append(Below, [Top EXCEPT !.phase = "defers",
                                           !.todo = IF Top.kind = "block" THEN <<>>
                                                    ELSE SubSeq(deferred, Top.base + 1, Len(deferred))])
    /\ deferred' = SubSeq(deferred, 1, Top.base)
    /\ UNCHANGED <<made, env, old, deferrer, ran, abandoned>>

\* The body is done, or returned, broke out or continued: what was deferred
\* since it began is drained.
Drain ==
    /\ In("body")
    /\ frames' = Append(Below, [Top EXCEPT !.phase = "defers",
                                           !.todo = SubSeq(deferred, Top.base + 1, Len(deferred))])
    /\ deferred' = SubSeq(deferred, 1, Top.base)
    /\ UNCHANGED <<made, env, old, deferrer, ran, abandoned>>

\* Mutant: deferred expressions run first in, first out.
FirstDeferred(todo) == [first |-> Head(todo), rest |-> Tail(todo)]

LastDeferred(todo) == [first |-> Last(todo), rest |-> Front(todo)]

\* The last deferred expression is evaluated; it may call a function, and
\* whatever error it ends in is ignored.
RunDeferred ==
    /\ In("defers")
    /\ Top.todo # <<>>
    /\ LET taken == LastDeferred(Top.todo)
           stack == Append(Below, [Top EXCEPT !.todo = taken.rest])
       IN  /\ ran' = Append(ran, [id |-> taken.first, by |-> Top.id])
           /\ \/ frames' = stack /\ UNCHANGED <<made, env, deferred, old, abandoned>>
              \/ \E contract \in BOOLEAN : Enter(stack, contract, TRUE)
    /\ UNCHANGED deferrer

\* Mutant: a block leaves its own scope current.
BlockKeepsScope ==
    /\ In("defers")
    /\ Top.todo = <<>>
    /\ Top.kind = "block"
    /\ frames' = Below
    /\ UNCHANGED <<made, env, deferred, old, deferrer, ran, abandoned>>

LeaveBlock ==
    /\ In("defers")
    /\ Top.todo = <<>>
    /\ Top.kind = "block"
    /\ env' = Top.previous
    /\ frames' = Below
    /\ UNCHANGED <<made, deferred, old, deferrer, ran, abandoned>>

\* All deferred expressions of a function ran: its postconditions are next.
CheckPostconditions ==
    /\ In("defers")
    /\ Top.todo = <<>>
    /\ Top.kind = "function"
    /\ frames' = Append(Below, [Top EXCEPT !.phase = "post"])
    /\ UNCHANGED <<made, env, deferred, old, deferrer, ran, abandoned>>

PostconditionFails ==
    /\ Errors
    /\ In("post")
    /\ Top.contract
    /\ old' = 0
    /\ env' = Top.previous
    /\ frames' = Unwound(frames)
    /\ abandoned' = abandoned \cup Lost(frames, frames')
    /\ UNCHANGED <<made, deferred, deferrer, ran>>

\* Old values are cleared, those a caller captured as well.
LeaveFunction ==
    /\ In("post")
    /\ old' = 0
    /\ env' = Top.previous
    /\ frames' = Below
    /\ UNCHANGED <<made, deferred, deferrer, ran, abandoned>>

-----------------------------------------------------------------------------

Finished ==
    /\ frames = <<>>
    /\ made = MaxFrames
    /\ UNCHANGED vars

Next ==
    \/ EnterBlock \/ Call \/ BeginBody \/ PreconditionFails
    \/ DeferStatement \/ Fails
    \/ Drain \/ RunDeferred \/ LeaveBlock
    \/ CheckPostconditions \/ PostconditionFails \/ LeaveFunction
    \/ Finished

Spec == Init /\ [][Next]_vars
=============================================================================
