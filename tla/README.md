# A verification of NTNT

NTNT is an interpreted language with a built-in HTTP server, hot reload, design
by contract, `defer`, channels, a type checker, templates and a language of its
own for the behaviour a program promises. This directory holds TLA+ models of
its Rust implementation (`src/src/`), the TLC configurations that check them,
and TLAPS proofs of the results that hold for every size of the system.

Run `tlc -config X.cfg Y.tla` for a run of section 4 (`PROJECT.json` says which
configuration goes with which module), `tlapm X_proofs.tla` for a proof.
`PROJECT.json` also maps every definition to the lines it models, and names the
hazards that the properties are for.

The project has two halves. The **concurrent half** models the server, reload,
route files, calls and channels as state machines, because order, failure and
concurrency decide there whether a program behaves. The **functional half**
models the lexer, the parser, the templates, the type checker, the evaluator,
module loading, the intent language and the standard library as functions, because there it is
the shape of the input that decides: programs, texts and tables are grown piece
by piece, and what the code makes of each is compared with what it should mean.

## 1. The system

| Component | State it keeps | Operations | Hard part |
|---|---|---|---|
| HTTP bridge (`stdlib/http_bridge.rs`, `http_server_async.rs`, `run_async_http_server`) | axum server thread, a tokio task per request, bounded channel to the interpreter, a oneshot channel per request | accept, route, send, await reply, time out, receive, reply, shut down | tasks dropped at any `await`, one consumer, a panic of the consumer |
| The two servers (`run_http_server`, `run_async_http_server`, `http_server.rs`) | routes, static directories, middleware, shutdown handlers | register, match, run middleware and handler, convert, answer | one must answer what the other was tested with |
| Hot reload (`check_and_reload_main_source`, `import_file_module`, `sync_routes_to_async`) | modification times, routes, the asynchronous server's copy of them | stat, parse, clear, evaluate, record, copy | edits between two reads of a file, failures in the middle |
| File-based routes (`load_file_based_routes`, `reload_route_handler`) | per route: handler, file, time, imports | discover, needs_reload, reload one handler | imports of two programs in one table |
| Function calls (`call_function`, `eval_block`, `capture_old_values`) | current environment, deferred expressions, old values, shared by every activation | enter, leave, defer, fail | Rust's `?` skips what would restore them |
| Evaluator (`eval_statement`, `eval_expression`, `match_pattern`, …) | scopes, types, invariants | evaluate | control values are values; names with special calls; integer limits |
| Channels (`stdlib/concurrent.rs`) | registry: mpsc channel, receiver behind a mutex, closed flag | send, recv, recv_timeout, try_recv, close | close does not disconnect |
| Lexer, parser (`lexer.rs`, `parser.rs`) | position | text to tokens to tree | one token of look-ahead, no recovery, termination |
| Templates (`lexer.rs`, `eval_template_parts`, filters) | - | blocks, comments, filter chains | closing tags found by searching text |
| Type checker (`typechecker.rs`, `types.rs`) | scopes, signatures, diagnostics | infer, check, import signatures | agrees with runs it does not make |
| Intent files (`intent.rs`) and IAL (`ial/`) | vocabulary, contexts, what a section is open in | parse, resolve, substitute, check, retry | sections that close one another, terms that refer to terms |
| Standard library (`stdlib/*.rs`) | none, or registries of connections | pure functions, I/O | bytes and characters, empty texts, negative lengths |
| Module loading (`import_file_module`, `load_module_exports`, `process_route_file`) | loaded modules, environments, the file being evaluated | import, load lib, middleware and routes | what is restored afterwards, what the cache remembers, circles |
| Studio, command line, `std/http` cache, `std/db` | cached results; connections | | not modelled, section 6 |

How they interact: `main.rs` reads a file, checks its types when asked to, and
hands its tree to the interpreter. `listen()` starts either the synchronous
server (intent checks) or the asynchronous one. The latter runs axum on a thread
of its own; its tasks look a request up in a *copy* of the route table and send
it through the bounded channel to the interpreter thread, which first looks for
edited sources and reloads, then finds the handler in its own table, runs
middleware and handler through `call_function`, and answers on the request's
oneshot channel. Everything an NTNT program does runs on that one thread. (The
language has no way to start a thread; threads of the Rust program could share
the static registry of channels, and the channel model allows two.) `ntnt intent
check` reads the intent file, resolves its sentences with the vocabulary, and
sends requests to the program behind the synchronous server.

What makes each correct is what the properties below say: no request is lost or
answered twice and shutdown completes; production answers what tests saw; what
runs is one version of what is on disk; deferred expressions run once and
contracts see their own values; values sent are received once; what is written
is what is read; what the checker accepts runs; a sentence checks what it says;
what a library function writes its counterpart reads.

## 2. Modules of the concurrent half

Each component has a module with its state and one action per step
(`HttpBridge`), one with its properties (`HttpBridgeProps`), an MC module where
a configuration needs definitions of its own, and a module of proofs. Operators whose comment begins with "mutant" are deliberate bugs: put
in the place of the operator defined after them, each makes a property fail,
which shows that the property can tell.

**HttpBridge, HttpBridgeProps, RequestService, HttpBridge_proofs.** `HttpBridge`
models `handle_request` and `InterpreterHandle::call` as the states of a task:
routing, sending (waiting for a slot), waiting (for the reply), done. tokio's
channel is modelled from its contract: free slots (`permits`), a fair line of
waiting senders (`sendq`) and slots assigned to senders that have not run yet
(`granted`). `Abandon` is the handler future dropped at any of its `await`s.
The receive loop is `Receive`, `Respond`, `LoopExits`; `InterpreterPanics` drops
the receiver and everything in the channel, and `ProcessExits` ends the program.
Graceful shutdown, a failed bind and the drop of the last handle are in `server`.
`RequestService` is the promise without the mechanism: each request gets at most
one answer, execution is serial, in order and at most once, an orderly stop
leaves nothing behind. `HttpBridgeProps` maps the bridge to it (`phase` from the
task, `agenda` and `ran` from the histories).

**Servers, ServersProps, Servers_proofs.** A program registers routes, static
directories, middleware and shutdown handlers in any order. Then each `request` is
given to both servers, which work on it side by side, interleaved: `turn[k]` says
how far server `k` is and what it called so far. `Ask` is what a server does before it
calls anything of the program (`parse_route_pattern`, `match_route`, `find_route`,
both `find_static_file`s, bodies it does not take on, the value a program sees of
a request), `CallMiddleware` and `CallHandler` are one call each, with the status of
errors and contract violations and the width of a status. An answer is its status,
headers and body; each server has its own table of content types (`SyncType`,
`AsyncType`) and its own idea of what an extension is. Left out are the headers that
a server adds of its own accord (`Server`, `Connection`, `Content-Length`), the
compression of bodies, the wording of messages, and the letter case of extensions. A
path is a sequence of characters, cut at its slashes and dots; an extension is one of
them.

**HotReload, HotReloadProps, HotReload_proofs.** The receive loop of the interpreter with every
read of a file or of a modification time as a step of its own, because a person
saves files at any moment. A file is its modification time, what is wrong with it
(`parse` and `type` faults block a reload, `eval` faults end it halfway, an
import may be `broken`) and, for the main file, its routes. `registry` is
the interpreter's route table with the version behind each handler,
`asyncRoutes` the copy that clients are routed by, rebuilt route by route.

**RouteFiles, RouteFilesProps, RouteFiles_proofs.** Routes loaded from files: a full reload by the
main file (one step here), and `needs_reload`, `reload_route_handler`,
`update_route_handler` for one handler, with every read a step. `imported` is the
one table `imported_files`, which the reload of a handler empties and restores.

**CallStack, CallStackProps, CallStack_proofs.** `frames` is the Rust stack of `call_function` and
`eval_block` activations; `env`, `deferred` and `old` are fields of the
interpreter, shared by all of them. A body is any sequence of calls, blocks,
`defer`s, errors and returns; contracts and deferred expressions may call too. An
error unwinds the stack as `?` does: to the nearest deferred expression, whose
errors are ignored, or to the top level, restoring nothing.

**Channels, ChannelsProps, Channels_proofs.** All operations on one channel.
`send` and `close` hold the registry's lock and are one step each; a receiving
call takes the receiver's mutex (`Lock`) and keeps it while it waits. The
interleavings of two threads are of the Rust functions, whose registry is made to be
shared; an NTNT program has one thread and does not meet them.

## 3. Modules of the functional half

Here a state is one input: `shape` (module `Samples`) is a family and a list of
pieces, a run starts from the smallest input of every family, and each step adds
a piece. TLC thus meets every input up to the bounds once, the short ones
first, and a counterexample is a smallest one. The properties are invariants of
`shape`: they apply the model of the code to the input and compare the result
with an independent meaning. Intent files are read while they grow: `intent` and
`glossary` are what the two readers keep between lines (`ReadLine`,
`ReadGlossaryLine`), `Content` and `Terms` what they return if the text ends here.

| Module | Models | Abstractions |
|---|---|---|
| `Lexer` | `lexer.rs`: spaces, comments, strings with expressions, raw strings, numbers, operators | characters are classes; no positions |
| `Parser` | every method of `parser.rs`, a rule of the tokens it consumes and the methods it calls; `Parse` follows a rule as the code does, one token ahead, never back | tokens are lexemes; a tree is a node, a name and its children |
| `Template` | block search of the lexer, `parse_filter_chain`, `eval_template_parts`, the filters | tags are one piece; expressions are variables |
| `IntegerOps` | the arms of `eval_binary_op` for two integers | no powers, which the parser never builds |
| `Evaluator` | `eval_statement`, `eval_block`, `eval_expression`, `match_pattern`, exhaustiveness, calls by special names, struct invariants | `Eval(e, s)` gives value, next state and whether an error rises; no floats |
| `TypeChecker` | both passes of `typechecker.rs`, `is_compatible`, builtin signatures, signatures of imported files and of every standard module | a diagnostic is its rule; the forms no parser makes (`if` as an expression, lambdas, `await`, `?`) are there too |
| `Modules` | imports, `loaded_modules`, what `routes()` loads: `LoadProgram` runs files over one interpreter state (environments, current file, caches, tracked imports) | a file is a list of definitions, uses and imports; one level of folders; the working directory is the main file's |
| `IAL` | vocabulary, resolution, substitution, standard terms, checks, requests with retries, property checks | a text is a list of words and their quotes |
| `IntentFile` | `parse_content` and `parse_glossary`, a line a step: which section each line goes to | a line is its kind |
| `Strings` | `std/string`, every function | a text is a list of characters, some of them wide or with an upper case |
| `Library` | `std/collections`, `std/csv`, `std/url`, `std/path`, `std/json`, and the call of a native function | a word the library writes, an escape and a number in a text are one character |

`EvaluatorProps`, `IALProps`, … hold the families and properties (`SyntaxProps` those of
lexer and parser). `TypeCheckerProps`
runs the same programs through `TypeChecker` and `Evaluator`, and `LibraryProps`
the same calls through `TypeChecker` and `Library`: these two compose components.

## 4. Runs

| Run | Bounds | Shows |
|---|---|---|
| `bridge` | 3 requests, 2 slots, panics | slots, order, nobody forgotten, orderly exit; refines `RequestService` with its fairness; shutdown completes; what entered the channel is executed |
| `servers_alike` | 3 registrations, 3 patterns, 8 paths, 5 files, 5 requests' headers and bodies | both servers answer alike but for named differences; the first matching route behind its middleware; the status arrives |
| `reload_edits` | 2 routes, 1 import, 2 clients, 3 edits | one whole version, agreeing tables, what runs is on disk, the server catches up |
| `routes_edits` | 1 route file of 2 methods, 3 edits | handlers are those on disk, the main program too, failures cost no route, routes catch up |
| `calls_errors` | 4 activations, 3 defers | defers run last in first out and are lost by errors only; scopes; old values of leaves |
| `channels_sound` | 2 threads, 3 values | conservation in order, nothing after close, who holds the receiver returns |
| `syntax` | 2 constructs around each other, 2 statements, 3 tokens, 4 characters, 3 template nodes, 3 filters | the parser and the lexer read what is written, a parse ends; templates show what their blocks and filters say |
| `language` | 3 structures, 3 arms, 4 statements, 8-value integers, 4 definitions, 5 lines, 3 typed steps, 4 pieces of text, 3 statements put into 3 or 5 files | evaluator, module loading, intent language, type checker, library: below |
| `reload_broken_import`, `calls_defer_error`, `servers_shutdown`, `nested_blocks` | smaller | each refutes one sentence of the documentation or a comment (section 7) |

The invariants of `language`:

- `ControlReachesItsTarget`: `return`, `break` and `continue` leave what they should, and only that.
- `ExhaustiveTakesAnArm`: a match accepted as exhaustive takes the first arm that fits; one that is not runs nothing.
- `CallsDoOneThing`: arguments are evaluated once, in order, whatever the name stands for.
- `NumbersBehave`: arithmetic, ranges and indices at the limits of integers.
- `ChangesAreAllOrNothing`: a struct is within its invariant after a change, or nothing changed.
- `ResolutionInlines`: rewriting a sentence gives its definitions written out, and ends.
- `AssertionsSayWhatTheyMean`: a check passes when what the sentence says is true; requests are retried; property checks tell.
- `IntentFilesKeepLines`: every line is in the section it was written in, and every section is kept.
- `ChecksAgreeWithRuns`: a program is refused when, and only when, running it would give an annotation a value that does not fit.
- `MistakesAreFound`: a mistake is found in every position of a statement or expression but those
  it names (section 7), and whatever the order of declarations.
- `LibraryLaws`: split and join, encode and decode, read and write, cut and pad, normalise and join agree with each other.
- `SignaturesTell`: a call the checker accepts is one the library takes, with the result that was announced.
- `ModulesLoad`: in a program of several files every name means what the text says, in every file;
  the program is back in its main file; imports are tracked where they are made; files
  that import each other in a circle never load.

Why the bounds show the interesting cases:

- Bridge: with 2 slots, 3 requests can be one in execution, two queued, or one in line
  and granted a slot when it is dropped. The proofs remove the bounds for safety.
- Reload: a race needs one edit to start a reload and one inside it; a broken
  import needs one more to repair it. The third edit lets the two combine.
- Route files: two methods share a file, three edits break and repair it and
  leave one for the main program's module.
- Calls: four activations nest a call inside a deferred expression of a
  call's block; three defers give an order to a stack left by an error.
- Channels: two threads race for the mutex; three values make order visible.
- Servers: three registrations put two routes behind a middleware, or two static
  directories beside a route. One path has doubled slashes, one ends in a slash, one
  goes on after a prefix without one. Of the files one has a type on which the servers
  agree, one a type on which they do not, one is hidden.
- Functional half: what goes wrong there comes from two constructs that meet, or
  from one inside another inside a third. Two wraps, three nestings, three arms,
  four pieces contain each of the exceptions the properties name, found that way.
  `MaxInt = 3` gives integers of eight values, so that every pair of operands and
  every limit occurs.

`reload_edits` runs with `parse` and `eval` faults only: `type` faults take the
same branch as `parse`. `CHECK_DEADLOCK FALSE` stands where a run does stop: a
program in which every thread waits in `recv`, a program that answered its
requests, an input that is as long as the bounds allow. Elsewhere a model that
comes to its end says so with an action (`Finished`, `Terminated`).

### Fairness

- Bridge: tokio polls ready tasks and its timers fire (`TaskFairness`), the server
  thread goes on when it can, and the receive loop blocks only on an empty
  channel. That a handler ends is not assumed; the properties that need it have it
  as their hypothesis (`HandlersTerminate`). Nothing makes clients send,
  operators send signals, or threads panic.
- Reload and route files: the interpreter thread goes on. Nobody has to edit or
  request anything; the liveness properties speak of servers that keep getting
  requests after editing has ended.
- Channels: a mutex that is free is taken, and who holds it goes on, a timeout
  included.

### Exceptions

A property that the code keeps except in certain cases names the cases, as
narrowly as they are; each is a finding or a hazard in its own right.

- Reload: a file edited while the last reload was reading it (`raced`), an import
  lost track of by a failed evaluation (`LostTrack`), a route file that failed as
  it was evaluated (`broke`). The history variables are cleared by the next
  reload that repairs the damage.
- Servers: failed preconditions, statuses HTTP does not know, bodies that are not
  UTF-8, results that are no response, what only one server reads of a request, the
  Content-Type of a response that names none, that of a static file whose extension
  only one table has or has otherwise (`OneTableOnly`: scripts `.mjs`, pictures `.webp`,
  fonts, data, archives, audio and video) or whose name is nothing but an extension,
  and static files at the root of a directory, in several directories, under a
  prefix that ends inside a segment, or behind doubled slashes, which only one
  server drops. (The proof found the last one: its lemma about prefixes was false.)
- Evaluator: a control value in an operand; a stray `break`; `get`, `rename` and
  `write_file` with arguments that show the call was not meant as special; a range
  that includes the largest integer; negative indices into wide text.
- Syntax: an empty body after a condition that ends with a name; a line that
  begins with `(`, `[`, `-` or `{}`; endless bodies of traits and impls; blocks
  nested in their own kind, closing tags in comments, wide characters in blocks.
- Module loading: a file of `lib/` or `middleware/` that fails as it is evaluated; an import
  written as the key under which `loaded_modules` keeps it.
- Intent language: values with a space, terms met again with another value, values
  that look like numbers, standard terms that drop their value, results that are a
  struct of several fields (its text lists them in the order of a hash map), an
  invariant that stays open.
- Type checker: vague types (`Any`, unions), the shapes of section 7, the positions the
  checker does not look into (`Unseen`).
- Library: named beside each law in `LibraryProps`.

## 5. Proofs

All theorems hold for every value of the constants that satisfies the named
assumptions. TLC checked each property first, and each `IInv` (but for `DoneInv` of the
servers, which speaks of every value there is), for intent files up to five lines. A theorem `Spec => []Property` is drawn from `Invariance`, `Spec => []IInv`:
the initial states satisfy `IInv`, each action keeps it (one step of the proof for
each action, one below it for each part the action can disturb), and it implies the
property. Each `TypeCorrect` states the types of its module.

| Module | For any | Theorem | Property |
|---|---|---|---|
| `HttpBridge_proofs` | requests, buffer | `SlotsNeverLeak` | `SlotsAccounted` |
| | | `ExecutionInOrder` | `FirstInFirstOut` |
| | | `NobodyIsForgotten` | `NobodyForgotten` |
| | | `ExitIsOrderly` | `OrderlyExit` |
| | | `BridgeImplementsService` | `Service!Spec`, the safety part of the refinement |
| `Servers_proofs` | methods, patterns, paths, directories, files, requests, registrations | `RoutesDispatchInOrder` | `DispatchInOrder` |
| | | `ProductionDoesWhatTestsSaw` | `AnsweredAlike` |
| `HotReload_proofs` | routes, imports, clients, edits, faults | `VersionsAreWhole` | `OneWholeVersion` |
| | | `TablesOfOneMind` | `TablesAgree` |
| | | `RequestsRunTheDisk` | `RunsWhatIsOnDisk` |
| `RouteFiles_proofs` | route files, methods, edits | `AnswersAreOfTheDisk` | `RunsRouteOnDisk` |
| | | `NoRouteIsLostAlone` | `AllOrNothing` |
| `CallStack_proofs` | number and depth of activations, defers | `DefersAreKept` | `LostByErrorsOnly` |
| | | `DefersRunInReverse` | `LastInFirstOut` |
| | | `ScopesAreRestored` | `ScopeIsInnermost` |
| | | `LeavesSeeTheirOld` | `LeafSeesItsOld` |
| `Channels_proofs` | threads, values | `ValuesAreConserved` | `Conserved` |
| | | `ClosedAcceptsNothing` | `NothingAfterClose` |
| `IntegerOps_proofs` | width of integers, either build | `QuotientTruncates` | |
| | | `WrapsAround` | |
| | | `IntegersAreExact` | `GivesExact`, which `NumbersBehave` checks of programs |
| | | `SumsAreUndone` | |
| `IntentFile_proofs` | length of the text | `EveryLineLands` | `LinesLandInTheirSection` |
| | | `EveryTermIsDefined` | `TermsKeepTheirDefinitions` |
| | | `FilesKeepLines` | `IntentFilesKeepLines`, the two together |

The first six modules have all safety properties that the passing runs of the
concurrent half check. None is inductive on its own; what `IInv` adds is why the code works.

**Bridge.** The line of senders has no duplicates and is disjoint from those
granted a slot, and both consist of tasks that are sending (`LineInv`, without
which a dropped task could free two slots); the number of slots is bounded also
when the receiver is gone (`SlotInv`); only a task that waits or is done is in the
log of admissions (`AdmissionInv`, so nothing is pushed twice); the loop is busy
exactly when it has a current request (`LoopInv`); the server thread is gone only
when every task is (`ServerInv`, so a closed channel means an orderly exit); a
reply comes from an execution (`ReplyInv`, for the refinement). The refinement
shows that every step of the bridge is a step of the service or a stutter.
Assumed: `Buffer` is positive, `NoRequest` is no request.

**Servers.** Registration is over when a server has something in hand (`PhaseInv`). A
server in the middle of the chain has called a prefix of the registered middleware,
none of which stops a request (`WaitingInv`); one that is done has called the prefix
that ends with the first that does, or all of it and the handler, and its answer is
a function of that last one (`DoneInv`). That both then answer alike is a matter of
operators: `HandlersAnswer`, `HaltsAlike` and `MapsAlike` compare the two conversions of a result
case by case, headers included. For static files, which neither calls anything for, lemmas on cutting
a path, dropping its last slashes and adding one (`UnslashedTwice`,
`UnslashedSlashed`, `TrimmedOne`, `PrefixIs`) lead to `SameFile`: where none of the
exceptions holds the two ways to write the name of a file give one name. The last dot
of a path is the last dot of its last name, or comes before a slash and begins no
extension of the table (`ExtensionOfName`), so the tables are asked the same question,
and answer it alike but for the extensions in `OneTableOnly` (`TypesAlike`, `MimesAlike`).
`FirstRoute` says that the search from the front finds the least matching index.
Assumed: handlers and middleware are of the kinds the model lists, paths and
prefixes are sequences.

**Reload.** The difficulty is a proof about reads at different times. What is
recorded of a file is never later than the file (`TimeInv`), so a missed edit can
only make the interpreter reload again, not stay behind. While a reload reads
files and nobody edited one since, what it read is on disk (`ReadingInv`), and the
imports it tracks are the first `k` of the program (`ImportsInv`); afterwards the
routes are those of the version whose times are recorded, or a fault is yet to be
seen, or a broken import left no route (`LoadedInv`). Even with edits a successful
evaluation leaves one version (`VersionInv`), and the copy of the routes is that of
the interpreter's table whenever it is not being rebuilt (`TablesInv`). A request
during which nobody edited is therefore run by the version on disk, or nothing is
newer than what is recorded and one of the two named exceptions holds
(`DispatchInv`, kept until the next edit by `AnsweredInv`). Assumed: imports are
distinct, `NotFound` is neither `None` nor a version.

**Route files.** The same argument for one handler: a handler made from other files
than those on disk is about to be reloaded or was raced (`RoutesInv`), what a reload
read is on disk unless edited since (`ReadInv`), an undisturbed request calls no
handler that needs a reload (`CallInv`). The main program's recorded times are
those it was loaded at as long as no route file failed (`MainInv`). No route is lost
alone because the server knows only routes the interpreter has, until a failed
reload of the main file leaves it none (`KnownInv`). Assumed: `main`, `own` and
`shared` are no route files, `NotFound` is neither `None` nor an answer.

**Calls.** Each deferred expression has exactly one place: the shared stack, the list
an activation took from it, or the list of those that ran (`PlacesInv`). An
activation's own lie above what it found and below what the activation it called
found; whatever else is on the stack belongs to activations that errors ended
(`OwnersInv`). Places hold them in the order of `defer` (`Increasing`), and who ran
one has only earlier ones left (`RanInv`): this gives last in, first out, and
that nothing runs twice. The scope is that of the innermost activation, or one that an
error left in place (`ScopeInv`); the set of old values belongs to every activation
with a contract that called nothing (`OldInv`). The parts take a stack and a list
as parameters, because taking a deferred expression and entering the call it makes
are one step of the interpreter, and two of the proof.

**Channels.** Types are kept, values received are those sent, in order, and a closed
channel accepts nothing. Assumed: `NoThread` is no thread.

**Integers.** They do not recur. A multiple
nearer to zero than its unit is zero (`SmallMultiple`), so quotient and rest are the only
ones (`DivisionIsUnique`); from there, that dividing magnitudes and setting the sign is
division cut towards zero, that wrapping gives the one integer that is the same
modulo the width, and that the quotient of two integers fits unless it is that of the
least one and -1 (`QuotientFits`). `MaxInt` may be any positive number, that of `i64`
among them, where the run has 3.

**Intent files.** `parse_content` keeps some twenty variables between lines, and each
line reads and sets a few of them. The property looks at the text alone: the last
head before a line, the last part opened in its section. The inductive invariant
(`FilesRead`) ties the two together. As long as no line was mislaid, what is open
is what the text says (`Stands`): the invariant or test data that nothing closed,
the table of the glossary, technical bindings that take whatever follows (`Outside`);
the feature or component of the section (`InSection`); its scenario, test, or bound
term (`InPart`); and the sections in the result and the open ones are together those
of the text, each once (`Keeps`) -- without the last conjunct a section could be
saved twice, or by nobody. A line that is not mislaid keeps all this and goes where
it is written; for one that is, the reader provably puts it elsewhere, so the
list of exceptions (`Mislaid`) is exact: it has no line that is read well. There is a
lemma for heads (`HeadLine`), parts (`PartLine`), `---` (`SeparatorLine`) and the
lines inside (`InnerLine`), each by cases of the section; `LastOfIs` and `LatestNext`
say what "the last line of a kind" is after one line more. After a mislaid line nothing is
claimed of the lines that follow it, only of those before. The reader of
a glossary holds the terms of the text except the open one, whose definitions it is
collecting (`TermsRead`); the term is open just when the last line that opens or
ends one opened it inside a glossary (`Open`). Nothing is assumed; `MaxLines`
bounds the run only, the invariant does not use it.

Only model-checked: every liveness property and the fair part of the refinement
(fairness is out of the prover's reach), and the rest of the functional half, whose functions
recur over programs, texts and tables (lexer, parser, templates, evaluator, type
checker, sentences, library, module loading): what they compute for every input needs induction
over data, which the prover does not have here.

## 6. What is not modelled

- In the models above: floating-point numbers, the order in which a map is
  iterated, dates and clocks, regular expressions, the texts and lines of
  messages, token positions.
- The socket loop and hot reload of the synchronous server; in `RouteFiles`, the folders
  `lib/` and `middleware/`, which are loaded once (`Modules` has them).
- Modification times are those of a clock that advances with every edit; a file
  restored with an older time is outside the model.
- Intent files are read and sentences checked; how the test runner starts and
  stops a program (a thread and a flag) and what a report looks like is not.
- `intent_studio_server.rs` (polling, cached results), `main.rs` (arguments, lint
  and reports, mostly printing), `error.rs` (suggestions), `std/http` (I/O and a cache),
  `std/db` (SQL), `std/math`, `std/time`, `std/fs`, `std/env`, `std/crypto` (calls of the
  operating system or of libraries; the checker's signatures of them are modelled).

## 7. Where code and documentation disagree

Shown by a run:

| Run | The code | The documentation |
|---|---|---|
| `calls_defer_error` | an error in a body returns past the deferred expressions (`interpreter.rs:2280`, `:3951`); they stay on the stack, and an outer activation may run them | `LANGUAGE_GUIDE.md:454`, "Always runs, even on error/return" |
| `reload_broken_import` | imports are forgotten before an evaluation that may fail (`interpreter.rs:599`); a repaired import is not noticed | `RUNTIME_REFERENCE.md:65` |
| `servers_shutdown` | the asynchronous server stops without calling a shutdown handler (`interpreter.rs:4522`) | `STDLIB_REFERENCE.md:47` |
| `nested_blocks` | the search for a closing tag looks for `{{#for}`, which no tag begins with, so depth never grows (`lexer.rs:666`) | the comment at `lexer.rs:664` |

Met while modelling, and exceptions of the properties named in section 4:

- Server and reload. Returning from any function clears the one set of old values,
  so a caller's `old(x)` may be evaluated after the call (`interpreter.rs:3998`,
  `LANGUAGE_GUIDE.md:319`). `recv` on a closed channel waits for ever
  (`concurrent.rs:257` and the comment at 237). Only requests of known routes reach
  the interpreter, which alone looks for changes, so a new route waits for one
  (`http_server_async.rs:410`, `AI_AGENT_GUIDE.md:483`). A route file that fails takes the
  main program's imports with it (`interpreter.rs:1851`, `RUNTIME_REFERENCE.md:59`). A
  failed precondition is 400 in tests and 500 in production (`LANGUAGE_GUIDE.md:603`).
- Module loading. A file of `lib/` or `middleware/` that fails is passed over without a word, but
  the interpreter stays in its environment and folder (`interpreter.rs:1517`, `:1627`): the main
  file goes on there and no longer sees its own names. Every import evaluates its module
  again, so that two importers do not share its state, unless both write its path from the
  working directory with the extension (`interpreter.rs:1317`); then the second is not tracked
  for reload, and a changed module stays as it was for a reloaded route. A circle of imports
  ends with the stack. `import "./a"` without `as` binds the name `a.tnt`, which no program
  can write (`interpreter.rs:1348`).
- Syntax. `if a { }` is refused (`ROADMAP.md:189` writes such bodies); operators bind
  otherwise than in the table of `SYNTAX_REFERENCE.md:73`; a literal too large becomes 0
  although integers are said to be of any precision; `use a::b` does not parse; a
  semicolon after a block statement is refused and `return` without one takes the next
  line; a token that begins no method makes the parser of a trait or impl body loop
  (`parser.rs:432`, `:537`). In templates a wide character in a block panics, `truncate`
  cuts bytes, a quote after an escaped backslash hides the bars after it, and a comma of a
  nested call separates filter arguments.
- Type checker. A declared `Result` is never satisfied (`LANGUAGE_GUIDE.md:302`, `:452`);
  text plus Float is a Float; `a ?? b` has the type of `b`; a mistake inside n blocks is
  reported up to 2^n times; `defer`, `export`, `mod`, the bodies of a trait and the defaults of
  parameters are not looked into, nor the bounds of a range (`typechecker.rs:981`), expressions in interpolated strings
  and templates (`:986`), a called expression that is no name, the fields of a literal of an unknown
  struct, the arguments of an unknown variant, and all but the first argument of `Some`; a type
  mentioned before its declaration is Any; a function that ends in `if` with returns is
  said to return Unit; a name that shadows a builtin is checked as the builtin; defaults
  of parameters are not honoured.
- Signatures of the standard modules. `sort`, `flatten`, `filter`, `transform`
  (`std/collections`), `parse` (`std/json`, `std/url`, `std/csv`) and `extname` (`std/path`) do not
  exist there; `first`, `last`, `pop`, `get_key`, `decode`, `dirname`, `basename` give an Option, a
  Result or a pair where the plain type is announced; `slice` and `truncate` may lack an
  argument for the checker only.
- Library. `matches` misses texts that contain a star (`string.rs:1240` tries a literal match
  first); `slugify` drops dashes, so it is not idempotent; `index_of` counts bytes and `substring`
  characters; `truncate` measures its suffix in bytes; padding with a wide character is too
  long and with a negative length panics; CSV loses blanks around fields and rows of one
  empty field, and refuses the delimiter its documentation allows; `encode` keeps `+` and
  `decode` reads it as a space; `parse_url` loses a colon without a port; `normalize` makes `../..`
  empty; a struct comes back from JSON as a map.
- Intent files. An invariant stays open at the next `Feature:` and takes its id, although
  `design-docs/ial_unit_testing.md:300` writes them in that order.

## 8. Plan

1. Other readers that go through a text once (the lexer, `parse_csv`) as step by step
   as `IntentFile`, which brings them within reach of a proof.
2. The functions of `Strings` that only map and select characters, in a module without
   recursion, and proofs of their laws (trimming, case, cutting and padding).
3. The test runner's thread and flag, Studio's polling and cached results.
4. Registries and caches: the response cache of `std/http`, database connections.
