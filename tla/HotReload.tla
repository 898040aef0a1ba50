------------------------------ MODULE HotReload ------------------------------
(***************************************************************************)
(* Hot reload of an NTNT server: the sources on disk, what the interpreter *)
(* loaded from them, and the copy of the route table the async server      *)
(* looks requests up in.                                                   *)
(*                                                                         *)
(* Modelled from check_and_reload_main_source, import_file_module and the  *)
(* receive loop with sync_routes_to_async in src/src/interpreter.rs, and   *)
(* from handle_request and the route table of                              *)
(* src/src/stdlib/http_server_async.rs. A person edits files and clients   *)
(* send requests at any moment; the interpreter is one thread, and every   *)
(* read of a file or of a modification time is a step of its own.          *)
(*                                                                         *)
(* The program is a main file with inline routes and the modules it        *)
(* imports. A file's content is reduced to its modification time, what is  *)
(* wrong with it and, for the main file, the routes it registers.          *)
(***************************************************************************)
EXTENDS Naturals, Sequences, FiniteSets

CONSTANTS
    Paths,              \* the routes the program may register
    Imports,            \* the modules the main file imports, in order
    Clients,
    MaxEdits,           \* how often files are edited
    MainFaults,         \* what an edit of the main file may break: "parse", "type", "eval"
    ImportFaults,       \* whether an edit may leave an import that does not load
    EditsDuringReload,  \* whether files are edited while a reload reads them
    None,
    NotFound            \* the answer 404

\* Each module is imported by one statement.
ASSUME ImportsAssumption ==
    /\ Imports \in Seq({Imports[i] : i \in DOMAIN Imports})
    /\ \A i, j \in DOMAIN Imports : Imports[i] = Imports[j] => i = j
ASSUME MaxEditsAssumption == MaxEdits \in Nat
ASSUME FaultsAssumption == MainFaults \subseteq {"parse", "type", "eval"}
ASSUME FlagsAssumption == ImportFaults \in BOOLEAN /\ EditsDuringReload \in BOOLEAN

Libs == {Imports[i] : i \in DOMAIN Imports}
Times == 0..MaxEdits

MainSources == [at : Times, fault : MainFaults \cup {"ok"}, paths : SUBSET Paths]
LibSources == [at : Times, fault : {"ok", "broken"}]
\* What a handler was compiled from: the main source and each import's time.
Versions == [main : MainSources, libs : [Libs -> Times]]

ASSUME NotFoundAssumption == NotFound # None /\ NotFound \notin Versions

VARIABLES
    clock,        \* time of the last edit
    diskMain, diskLib,
    mainSeen,     \* main_source_mtime
    imported,     \* imported_files: time recorded for each tracked import
    registry,     \* server_state.routes: the version behind each route
    lastEval,     \* whether the last evaluation of the program succeeded
    raced,        \* history: a file was edited while the last reload read them
    asyncRoutes,  \* AsyncServerState.routes
    pc,           \* where the receive loop is
    source,       \* the main source being reloaded
    libsRead,     \* the imports evaluated so far in this reload
    queue,        \* the channel to the interpreter
    client        \* each client's request

diskVars == <<clock, diskMain, diskLib>>
loadedVars == <<mainSeen, imported, registry, lastEval, raced>>
reloadVars == <<source, libsRead>>
vars == <<diskVars, loadedVars, asyncRoutes, pc, reloadVars, queue, client>>

\* HashMap::insert of each of keys.
Insert(map, keys, value) == [k \in DOMAIN map \cup keys |-> IF k \in keys THEN value ELSE map[k]]

Steps == {"recv", "stat", "read", "import", "track", "routes", "mtime", "clear", "copy", "dispatch"}
\* Between reading the main file and recording its time.
Reading == {"import", "track", "routes", "mtime"}

DiskOk == diskMain.fault = "ok" /\ \A f \in Libs : diskLib[f].fault = "ok"
DiskVersion == [main |-> diskMain, libs |-> [f \in Libs |-> diskLib[f].at]]

\* steady: the sources were sound when the request came, and were not edited
\* since; forwarded: the interpreter was asked.
Idle == [state |-> "idle", path |-> None, forwarded |-> FALSE, steady |-> FALSE, answer |-> None]
ClientStates ==
    [state : {"idle", "queued", "answered"}, path : Paths \cup {None}, steady : BOOLEAN,
     forwarded : BOOLEAN, answer : Versions \cup {None, NotFound}]

TypeOK ==
    /\ clock \in Times
    /\ diskMain \in MainSources
    /\ diskLib \in [Libs -> LibSources]
    /\ mainSeen \in Times
    /\ DOMAIN imported \subseteq Libs /\ \A f \in DOMAIN imported : imported[f] \in Times
    /\ DOMAIN registry \subseteq Paths /\ \A p \in DOMAIN registry : registry[p] \in Versions
    /\ lastEval \in {"ok", "failed"}
    /\ raced \in BOOLEAN
    /\ asyncRoutes \in SUBSET Paths
    /\ pc \in Steps
    /\ source \in MainSources \cup {None}
    /\ DOMAIN libsRead \subseteq Libs /\ \A f \in DOMAIN libsRead : libsRead[f] \in Times
    /\ queue \in Seq(Clients)
    /\ client \in [Clients -> ClientStates]

\* The server has just entered the receive loop with the program of edit 0.
Init ==
    /\ clock = 0
    /\ \E ps \in (SUBSET Paths) \ {{}} : diskMain = [at |-> 0, fault |-> "ok", paths |-> ps]
    /\ diskLib = [f \in Libs |-> [at |-> 0, fault |-> "ok"]]
    /\ mainSeen = 0
    /\ imported = [f \in Libs |-> 0]
    /\ registry = [p \in diskMain.paths |-> DiskVersion]
    /\ lastEval = "ok"
    /\ raced = FALSE
    /\ asyncRoutes = diskMain.paths
    /\ pc = "recv"
    /\ source = None
    /\ libsRead = <<>>
    /\ queue = <<>>
    /\ client = [c \in Clients |-> Idle]

-----------------------------------------------------------------------------
(* Files are edited; clients send requests.                                *)

CanEdit == clock < MaxEdits /\ (EditsDuringReload \/ pc \notin Reading)
Unsettle ==
    /\ client' = [c \in Clients |-> [client[c] EXCEPT !.steady = FALSE]]
    /\ raced' = (raced \/ pc \in Reading)

EditMain ==
    /\ CanEdit
    /\ clock' = clock + 1
    /\ diskMain' \in [at : {clock + 1}, fault : MainFaults \cup {"ok"}, paths : SUBSET Paths]
    /\ Unsettle
    /\ UNCHANGED <<diskLib, mainSeen, imported, registry, lastEval, asyncRoutes, pc, reloadVars, queue>>

EditImport(f) ==
    /\ CanEdit
    /\ clock' = clock + 1
    /\ \E fault \in IF ImportFaults THEN {"ok", "broken"} ELSE {"ok"} :
          diskLib' = [diskLib EXCEPT ![f] = [at |-> clock + 1, fault |-> fault]]
    /\ Unsettle
    /\ UNCHANGED <<diskMain, mainSeen, imported, registry, lastEval, asyncRoutes, pc, reloadVars, queue>>

\* handle_request: the async table decides whether the interpreter hears of it.
Arrive(c, p) ==
    /\ client[c].state = "idle"
    /\ LET known == p \in asyncRoutes
       IN  /\ client' = [client EXCEPT ![c] =
                  [state |-> IF known THEN "queued" ELSE "answered", path |-> p,
                   forwarded |-> known, steady |-> DiskOk, answer |-> IF known THEN None ELSE NotFound]]
           /\ queue' = IF known THEN Append(queue, c) ELSE queue
    /\ UNCHANGED <<diskVars, loadedVars, asyncRoutes, pc, reloadVars>>

\* The client has read its answer and may ask again.
Leave(c) ==
    /\ client[c].state = "answered"
    /\ client' = [client EXCEPT ![c] = Idle]
    /\ UNCHANGED <<diskVars, loadedVars, asyncRoutes, pc, reloadVars, queue>>

-----------------------------------------------------------------------------
(* The receive loop: check_and_reload_main_source.                         *)

Receive ==
    /\ pc = "recv"
    /\ queue # <<>>
    /\ pc' = "stat"
    /\ UNCHANGED <<diskVars, loadedVars, asyncRoutes, reloadVars, queue, client>>

\* Mutant: only the imports are checked.
StatImportsOnly ==
    /\ pc = "stat"
    /\ pc' = IF \E f \in DOMAIN imported : diskLib[f].at > imported[f]
             THEN "read" ELSE "dispatch"
    /\ UNCHANGED <<diskVars, loadedVars, asyncRoutes, reloadVars, queue, client>>

\* Mutant: only the main file is checked.
StatMainOnly ==
    /\ pc = "stat"
    /\ pc' = IF diskMain.at > mainSeen THEN "read" ELSE "dispatch"
    /\ UNCHANGED <<diskVars, loadedVars, asyncRoutes, reloadVars, queue, client>>

Stat ==
    /\ pc = "stat"
    /\ pc' = IF \/ diskMain.at > mainSeen
                \/ \E f \in DOMAIN imported : diskLib[f].at > imported[f]
             THEN "read" ELSE "dispatch"
    /\ UNCHANGED <<diskVars, loadedVars, asyncRoutes, reloadVars, queue, client>>

\* The main file does not parse, or has type errors in strict mode: the
\* previous version stays.
ReloadBlocked ==
    /\ pc = "read"
    /\ diskMain.fault \in {"parse", "type"}
    /\ pc' = "dispatch"
    /\ UNCHANGED <<diskVars, loadedVars, asyncRoutes, reloadVars, queue, client>>

AfterImports(done) == IF DOMAIN done = Libs THEN "routes" ELSE "import"

\* Mutant: the routes of the previous version are kept.
StartReloadWithoutClear ==
    /\ pc = "read"
    /\ diskMain.fault \notin {"parse", "type"}
    /\ source' = diskMain
    /\ imported' = <<>>
    /\ libsRead' = <<>>
    /\ raced' = FALSE
    /\ pc' = AfterImports(<<>>)
    /\ UNCHANGED <<diskVars, registry, mainSeen, lastEval, asyncRoutes, queue, client>>

\* The source is good enough: everything loaded so far is forgotten.
StartReload ==
    /\ pc = "read"
    /\ diskMain.fault \notin {"parse", "type"}
    /\ source' = diskMain
    /\ registry' = <<>>
    /\ imported' = <<>>
    /\ libsRead' = <<>>
    /\ raced' = FALSE
    /\ pc' = AfterImports(<<>>)
    /\ UNCHANGED <<diskVars, mainSeen, lastEval, asyncRoutes, queue, client>>

EvalFailed ==
    /\ lastEval' = "failed"
    /\ source' = None
    /\ libsRead' = <<>>
    /\ pc' = "dispatch"

\* import_file_module reads, parses and evaluates the next import.
ImportFile ==
    /\ pc = "import"
    /\ LET f == Imports[Cardinality(DOMAIN libsRead) + 1]
       IN  \/ /\ diskLib[f].fault = "broken"
              /\ EvalFailed
           \/ /\ diskLib[f].fault = "ok"
              /\ libsRead' = Insert(libsRead, {f}, diskLib[f].at)
              /\ pc' = "track"
              /\ UNCHANGED <<source, lastEval>>
    /\ UNCHANGED <<diskVars, mainSeen, imported, registry, raced, asyncRoutes, queue, client>>

\* Mutant: imports are not tracked again after a reload.
TrackNothing ==
    /\ pc = "track"
    /\ pc' = AfterImports(libsRead)
    /\ UNCHANGED <<diskVars, loadedVars, asyncRoutes, reloadVars, queue, client>>

\* Its modification time is read only now, after it was evaluated.
TrackImport ==
    /\ pc = "track"
    /\ LET f == Imports[Cardinality(DOMAIN libsRead)]
       IN  imported' = Insert(imported, {f}, diskLib[f].at)
    /\ pc' = AfterImports(libsRead)
    /\ UNCHANGED <<diskVars, mainSeen, registry, lastEval, raced, asyncRoutes, reloadVars, queue, client>>

\* The rest of the main file is evaluated. An error leaves the routes
\* registered before it, and no time recorded.
RegisterRoutes ==
    /\ pc = "routes"
    /\ LET Register(ps) == registry' = Insert(registry, ps, [main |-> source, libs |-> libsRead])
       IN  \/ /\ source.fault = "eval"
              /\ \E ps \in SUBSET source.paths : Register(ps)
              /\ EvalFailed
           \/ /\ source.fault = "ok"
              /\ Register(source.paths)
              /\ pc' = "mtime"
              /\ UNCHANGED <<source, libsRead, lastEval>>
    /\ UNCHANGED <<diskVars, mainSeen, imported, raced, asyncRoutes, queue, client>>

\* Mutant: a reload does not copy the routes to the async server.
RecordMainTimeOnly ==
    /\ pc = "mtime"
    /\ mainSeen' = diskMain.at
    /\ lastEval' = "ok"
    /\ source' = None
    /\ libsRead' = <<>>
    /\ pc' = "dispatch"
    /\ UNCHANGED <<diskVars, imported, registry, raced, asyncRoutes, queue, client>>

\* Mutant: the time of the reload is recorded instead of the file's.
RecordTimeOfReload ==
    /\ pc = "mtime"
    /\ mainSeen' = clock + 1
    /\ lastEval' = "ok"
    /\ source' = None
    /\ libsRead' = <<>>
    /\ pc' = "clear"
    /\ UNCHANGED <<diskVars, imported, registry, raced, asyncRoutes, queue, client>>

\* The modification time of the main file is read again.
RecordMainTime ==
    /\ pc = "mtime"
    /\ mainSeen' = diskMain.at
    /\ lastEval' = "ok"
    /\ source' = None
    /\ libsRead' = <<>>
    /\ pc' = "clear"
    /\ UNCHANGED <<diskVars, imported, registry, raced, asyncRoutes, queue, client>>

-----------------------------------------------------------------------------
(* sync_routes_to_async: clear, then one write lock per route.             *)

ClearAsync ==
    /\ pc = "clear"
    /\ asyncRoutes' = {}
    /\ pc' = "copy"
    /\ UNCHANGED <<diskVars, loadedVars, reloadVars, queue, client>>

CopyRoute ==
    /\ pc = "copy"
    /\ \E p \in DOMAIN registry \ asyncRoutes : asyncRoutes' = asyncRoutes \cup {p}
    /\ UNCHANGED <<diskVars, loadedVars, pc, reloadVars, queue, client>>

CopyDone ==
    /\ pc = "copy"
    /\ DOMAIN registry \subseteq asyncRoutes
    /\ pc' = "dispatch"
    /\ UNCHANGED <<diskVars, loadedVars, asyncRoutes, reloadVars, queue, client>>

\* find_route in the interpreter's own table, and the answer.
Dispatch ==
    /\ pc = "dispatch"
    /\ LET c == Head(queue)
           p == client[c].path
       IN  client' = [client EXCEPT ![c].state = "answered",
                      ![c].answer = IF p \in DOMAIN registry THEN registry[p] ELSE NotFound]
    /\ queue' = Tail(queue)
    /\ pc' = "recv"
    /\ UNCHANGED <<diskVars, loadedVars, asyncRoutes, reloadVars>>

-----------------------------------------------------------------------------

InterpStep ==
    \/ Receive \/ Stat \/ ReloadBlocked \/ StartReload \/ ImportFile \/ TrackImport
    \/ RegisterRoutes \/ RecordMainTime \/ ClearAsync \/ CopyRoute \/ CopyDone \/ Dispatch

Next ==
    \/ EditMain
    \/ \E f \in Libs : EditImport(f)
    \/ \E c \in Clients, p \in Paths : Arrive(c, p)
    \/ \E c \in Clients : Leave(c)
    \/ InterpStep

Spec == Init /\ [][Next]_vars

(* The interpreter thread never waits except for a request.                *)
FairSpec == Spec /\ WF_vars(InterpStep)
=============================================================================
