------------------------------ MODULE RouteFiles ------------------------------
(***************************************************************************)
(* File-based routes and their hot reload, one handler at a time.          *)
(*                                                                         *)
(* Modelled from load_file_based_routes, process_route_file,               *)
(* reload_route_handler and the receive loop in src/src/interpreter.rs,    *)
(* and from needs_reload and update_route_handler in                       *)
(* src/src/stdlib/http_server.rs. A main file imports a module of its own  *)
(* and loads a directory of route files, each of which imports a module    *)
(* they share and defines one handler per HTTP method. The main file is    *)
(* reloaded as in HotReload, here in one step.                             *)
(***************************************************************************)
EXTENDS Naturals, Sequences, FiniteSets

CONSTANTS
    Order,       \* the route files, in the order they are loaded
    Methods,
    MaxEdits,    \* how often files are edited
    None,
    NotFound     \* the answer 404

Files == {Order[i] : i \in DOMAIN Order}
Sources == {"main", "own", "shared"} \cup Files

ASSUME OrderAssumption == Order \in Seq(Files) /\ Files \cap {"main", "own", "shared"} = {}
ASSUME MaxEditsAssumption == MaxEdits \in Nat

Times == 0..MaxEdits

\* What an edit may leave wrong: a file does not parse, or fails as it is evaluated.
Faults(s) == IF s \in Files THEN {"ok", "parse", "eval"}
             ELSE IF s = "shared" THEN {"ok", "eval"} ELSE {"ok"}
Contents(s) == [at : Times, fault : Faults(s),
                methods : IF s \in Files THEN (SUBSET Methods) \ {{}} ELSE {{}}]

\* A handler: the versions of its file and of the shared module it was made
\* from, and the times recorded of them.
Handlers == [code : Times, lib : Times, seen : Times, libSeen : Times]
\* What a request ran: main file, its module, the route file, the shared module.
Answers == [main : Times, own : Times, code : Times, lib : Times]

ASSUME NotFoundAssumption == NotFound # None /\ NotFound \notin Answers

VARIABLES
    clock,       \* time of the last edit
    disk,        \* every source
    program,     \* main file and own module, as last evaluated with success
    mainSeen,    \* main_source_mtime
    imported,    \* imported_files
    routes,      \* server_state.routes
    known,       \* the async server's copy of the route table
    pc,          \* where the receive loop is
    request,     \* the request being served
    source,      \* the route file as reload_route_handler read it
    libRead,     \* the shared module as that evaluation read it
    answer,      \* the answer to the last request
    steady,      \* all sources were sound when the last request came, and not edited since
    raced,       \* history: routes whose last reload read files that were edited meanwhile
    broke        \* history: a route file failed in evaluation since the last full load

fileVars == <<clock, disk>>
mainVars == <<program, mainSeen, imported>>
readVars == <<source, libRead>>
vars == <<fileVars, mainVars, routes, known, pc, request, readVars, answer, steady, raced, broke>>

Keys == Files \X Methods
Sound == \A s \in Sources : disk[s].fault = "ok"

TypeOK ==
    /\ clock \in Times
    /\ DOMAIN disk = Sources /\ \A s \in Sources : disk[s] \in Contents(s)
    /\ program \in [main : Times, own : Times]
    /\ mainSeen \in Times
    /\ DOMAIN imported \subseteq {"own", "shared"} /\ \A s \in DOMAIN imported : imported[s] \in Times
    /\ DOMAIN routes \subseteq Keys /\ \A k \in DOMAIN routes : routes[k] \in Handlers
    /\ known \subseteq Keys
    /\ pc \in {"recv", "main", "find", "read", "eval", "record", "call"}
    /\ request \in Keys \cup {None}
    /\ source \in (UNION {Contents(f) : f \in Files}) \cup {None}
    /\ libRead \in Times
    /\ answer \in Answers \cup {None, NotFound}
    /\ raced \subseteq Keys
    /\ {steady, broke} \subseteq BOOLEAN

\* imported_files with one module in it.
Tracking(s, time) == [m \in {s} |-> time]

\* The routes of all files, as they are on disk.
LoadedRoutes ==
    [k \in {k \in Keys : k[2] \in disk[k[1]].methods} |->
        [code |-> disk[k[1]].at, lib |-> disk["shared"].at,
         seen |-> disk[k[1]].at, libSeen |-> disk["shared"].at]]

Init ==
    /\ clock = 0
    /\ disk \in [Sources -> UNION {Contents(s) : s \in Sources}]
    /\ \A s \in Sources : disk[s] \in Contents(s) /\ disk[s].at = 0 /\ disk[s].fault = "ok"
    /\ program = [main |-> 0, own |-> 0]
    /\ mainSeen = 0
    /\ imported = Tracking("own", 0)
    /\ routes = LoadedRoutes
    /\ known = DOMAIN LoadedRoutes
    /\ pc = "recv"
    /\ request = None
    /\ source = None
    /\ libRead = 0
    /\ answer = None
    /\ steady = FALSE
    /\ raced = {}
    /\ broke = FALSE

-----------------------------------------------------------------------------
(* Files are edited; requests arrive.                                      *)

Edit(s) ==
    /\ clock < MaxEdits
    /\ clock' = clock + 1
    /\ \E c \in Contents(s) : c.at = clock + 1 /\ disk' = [disk EXCEPT ![s] = c]
    /\ steady' = FALSE
    /\ raced' = IF pc \in {"eval", "record"} THEN raced \cup {request} ELSE raced
    /\ UNCHANGED <<mainVars, routes, known, pc, request, readVars, answer, broke>>

\* The async server forwards the requests of routes it knows; the receive loop
\* takes them one at a time.
Receive ==
    /\ pc = "recv"
    /\ \E k \in known : request' = k
    /\ answer' = None
    /\ steady' = Sound
    /\ pc' = "main"
    /\ UNCHANGED <<fileVars, mainVars, routes, known, readVars, raced, broke>>

-----------------------------------------------------------------------------
(* check_and_reload_main_source, with routes() in the main file.           *)

\* imported_files after the evaluation of a route file failed: it was emptied
\* for the route file, whose import comes before or after the failure.
Leftovers == {<<>>} \cup (IF disk["shared"].fault = "ok" THEN {Tracking("shared", disk["shared"].at)} ELSE {})

MainIsCurrent ==
    /\ disk["main"].at <= mainSeen
    /\ \A s \in DOMAIN imported : disk[s].at <= imported[s]

MainUnchanged ==
    /\ pc = "main"
    /\ MainIsCurrent
    /\ pc' = "find"
    /\ UNCHANGED <<fileVars, mainVars, routes, known, request, readVars, answer, steady, raced, broke>>

MainReloaded ==
    /\ pc = "main"
    /\ ~MainIsCurrent
    /\ Sound
    /\ program' = [main |-> disk["main"].at, own |-> disk["own"].at]
    /\ mainSeen' = disk["main"].at
    /\ imported' = Tracking("own", disk["own"].at)
    /\ routes' = LoadedRoutes
    /\ known' = DOMAIN LoadedRoutes
    /\ raced' = {}
    /\ broke' = FALSE
    /\ pc' = "find"
    /\ UNCHANGED <<fileVars, request, readVars, answer, steady>>

\* The first route file that fails ends the evaluation: no file's routes are
\* registered, and the async table is left as it was.
MainReloadFails ==
    /\ pc = "main"
    /\ ~MainIsCurrent
    /\ LET fails == {i \in DOMAIN Order : disk[Order[i]].fault # "ok" \/ disk["shared"].fault # "ok"}
       IN  /\ fails # {}
           /\ LET f == Order[CHOOSE i \in fails : \A j \in fails : i <= j]
              IN  IF disk[f].fault = "parse"
                  THEN imported' = Tracking("own", disk["own"].at) /\ UNCHANGED broke
                  ELSE imported' \in Leftovers /\ broke' = TRUE
    /\ routes' = <<>>
    /\ pc' = "find"
    /\ UNCHANGED <<fileVars, program, mainSeen, known, request, readVars, answer, steady, raced>>

-----------------------------------------------------------------------------
(* find_route, needs_reload, reload_route_handler, update_route_handler.   *)

RouteMissing ==
    /\ pc = "find"
    /\ request \notin DOMAIN routes
    /\ answer' = NotFound
    /\ pc' = "recv"
    /\ UNCHANGED <<fileVars, mainVars, routes, known, request, readVars, steady, raced, broke>>

\* Mutant: the imports of the route file are not looked at.
NeedsReloadByFile(k) == disk[k[1]].at > routes[k].seen

NeedsReload(k) ==
    \/ disk[k[1]].at > routes[k].seen
    \/ disk["shared"].at > routes[k].libSeen

RouteFound ==
    /\ pc = "find"
    /\ request \in DOMAIN routes
    /\ pc' = IF NeedsReload(request) THEN "read" ELSE "call"
    /\ UNCHANGED <<fileVars, mainVars, routes, known, request, readVars, answer, steady, raced, broke>>

\* The file is read and parsed.
ReadRouteFile ==
    /\ pc = "read"
    /\ IF disk[request[1]].fault = "parse"
       THEN /\ pc' = "call"
            /\ UNCHANGED <<source, raced>>
       ELSE /\ source' = disk[request[1]]
            /\ raced' = raced \ {request}
            /\ pc' = "eval"
    /\ UNCHANGED <<fileVars, mainVars, routes, known, request, libRead, answer, steady, broke>>

\* Mutant: imported_files keeps the route file's imports.
EvalRouteFileKeepsImports ==
    /\ pc = "eval"
    /\ source.fault = "ok"
    /\ disk["shared"].fault = "ok"
    /\ libRead' = disk["shared"].at
    /\ imported' = Tracking("shared", disk["shared"].at)
    /\ pc' = IF request[2] \in source.methods THEN "record" ELSE "call"
    /\ UNCHANGED <<fileVars, program, mainSeen, routes, known, request, source, answer, steady, raced, broke>>

\* It is evaluated with its import; a method it no longer defines keeps its
\* handler.
EvalRouteFile ==
    /\ pc = "eval"
    /\ source.fault = "ok"
    /\ disk["shared"].fault = "ok"
    /\ libRead' = disk["shared"].at
    /\ pc' = IF request[2] \in source.methods THEN "record" ELSE "call"
    /\ UNCHANGED <<fileVars, mainVars, routes, known, request, source, answer, steady, raced, broke>>

\* Mutant: a route whose file fails is dropped.
EvalRouteFileFailsDropping ==
    /\ pc = "eval"
    /\ source.fault = "eval" \/ disk["shared"].fault = "eval"
    /\ imported' \in Leftovers
    /\ routes' = [k \in DOMAIN routes \ {request} |-> routes[k]]
    /\ broke' = TRUE
    /\ pc' = "find"
    /\ UNCHANGED <<fileVars, program, mainSeen, known, request, readVars, answer, steady, raced>>

\* `?` leaves the previous handler, and imported_files without the main file's.
EvalRouteFileFails ==
    /\ pc = "eval"
    /\ source.fault = "eval" \/ disk["shared"].fault = "eval"
    /\ imported' \in Leftovers
    /\ broke' = TRUE
    /\ pc' = "call"
    /\ UNCHANGED <<fileVars, program, mainSeen, routes, known, request, readVars, answer, steady, raced>>

\* Mutant: the other handlers of the file are taken for reloaded as well.
RecordForWholeFile ==
    /\ pc = "record"
    /\ routes' = [k \in DOMAIN routes |->
                    IF k = request
                    THEN [code |-> source.at, lib |-> libRead, seen |-> disk[k[1]].at, libSeen |-> libRead]
                    ELSE IF k[1] = request[1]
                    THEN [routes[k] EXCEPT !.seen = disk[k[1]].at, !.libSeen = libRead]
                    ELSE routes[k]]
    /\ known' = DOMAIN routes
    /\ pc' = "call"
    /\ UNCHANGED <<fileVars, mainVars, request, readVars, answer, steady, raced, broke>>

\* Mutant: the time of the reload is recorded, not the file's.
RecordTimeOfReload ==
    /\ pc = "record"
    /\ routes' = [routes EXCEPT ![request] =
                    [code |-> source.at, lib |-> libRead, seen |-> clock + 1, libSeen |-> libRead]]
    /\ known' = DOMAIN routes
    /\ pc' = "call"
    /\ UNCHANGED <<fileVars, mainVars, request, readVars, answer, steady, raced, broke>>

\* The handler is replaced; the time of its file is read again. The routes are
\* copied to the async server once more.
RecordRoute ==
    /\ pc = "record"
    /\ routes' = [routes EXCEPT ![request] =
                    [code |-> source.at, lib |-> libRead,
                     seen |-> disk[request[1]].at, libSeen |-> libRead]]
    /\ known' = DOMAIN routes
    /\ pc' = "call"
    /\ UNCHANGED <<fileVars, mainVars, request, readVars, answer, steady, raced, broke>>

CallHandler ==
    /\ pc = "call"
    /\ answer' = [main |-> program.main, own |-> program.own,
                  code |-> routes[request].code, lib |-> routes[request].lib]
    /\ pc' = "recv"
    /\ UNCHANGED <<fileVars, mainVars, routes, known, request, readVars, steady, raced, broke>>

-----------------------------------------------------------------------------

Serve ==
    \/ MainUnchanged \/ MainReloaded \/ MainReloadFails
    \/ RouteMissing \/ RouteFound \/ ReadRouteFile \/ EvalRouteFile \/ EvalRouteFileFails
    \/ RecordRoute \/ CallHandler

Next == (\E s \in Sources : Edit(s)) \/ Receive \/ Serve

Spec == Init /\ [][Next]_vars

(* The interpreter thread never waits except for a request.                *)
FairSpec == Spec /\ WF_vars(Serve)
=============================================================================
