------------------------------- MODULE Modules -------------------------------
(***************************************************************************)
(* The loading of modules: imports, what loaded_modules remembers, and the *)
(* files that routes() loads.                                              *)
(*                                                                         *)
(* Modelled from handle_import … load_module_exports, discover_routes and  *)
(* process_route_file in src/src/interpreter.rs. A file is a sequence of   *)
(* statements; names are tuples of words, so that a file's name may have   *)
(* its extension (<<"a", "tnt">>) or not, and a path is a sequence of      *)
(* names. Evaluating a file makes a new environment, `envs` has them all.  *)
(* Relative paths without a leading dot start at the working directory,    *)
(* here the one of the main file.                                          *)
(***************************************************************************)
EXTENDS Naturals, FiniteSets, SequencesExt

AppRoot == <<"/app">>
MainPath == <<AppRoot, <<"main", "tnt">>>>
NamesInOrder == <<"a", "b", "l", "m", "r">>   \* of files, as they are sorted

NativeValue(x) == <<"native", x>>
OwnValue(env, x) == <<"own", env, x>>
ModuleValue(exports) == <<"module", exports>>
Builtin == <<"print">> :> NativeValue(<<"print">>)
Preloaded == <<<<"std">>, <<"text">>>> :> (<<"trim">> :> NativeValue(<<"trim">>))

Fresh(files) ==
    [files |-> files, envs |-> <<Builtin>>, of |-> <<MainPath>>, env |-> 1, current |-> MainPath,
     loaded |-> Preloaded, imported |-> {}, lib |-> <<>>, middleware |-> <<>>, routes |-> <<>>]

Ends(how, s) == [end |-> how, s |-> s]
Fine(s) == Ends("ok", s)
Fails(s) == Ends("error", s)
BindHere(s, x, v) == [s EXCEPT !.envs[s.env] = (x :> v) @@ @]

-----------------------------------------------------------------------------
(* Paths *)
FolderOf(path) ==
    LET above == Front(path)
    IN IF above # <<>> /\ Last(above) = <<".">> THEN Front(above) ELSE above

FileAt(path) ==   \* which file a path leads to
    FoldLeft(LAMBDA at, x : CASE x \in {AppRoot, <<".">>} -> at
                              [] x = <<"..">> -> Front(at)
                              [] OTHER -> Append(at, x),
             <<>>, path)

FilePath(current, source) ==
    LET path == IF source[1] \in {<<".">>, <<"..">>} THEN FolderOf(current) \o source ELSE source
        name == Last(path)
    IN IF Len(name) = 1 THEN Append(Front(path), Append(name, "tnt")) ELSE path

Readable(s, path) ==
    FileAt(path) \in DOMAIN s.files /\ \A i \in DOMAIN s.files[FileAt(path)] : s.files[FileAt(path)][i].do # "garbled"

-----------------------------------------------------------------------------
(* Imports *)
BindImports(s, import, exports, source) ==
    IF import.items = <<>>
    THEN Fine(BindHere(s, IF import.as # <<>> THEN import.as ELSE Last(source), ModuleValue(exports)))
    ELSE FoldLeft(LAMBDA r, item :
                    CASE r.end # "ok" -> r
                      [] r.end = "ok" /\ item.name \in DOMAIN exports -> Fine(BindHere(r.s, item.as, exports[item.name]))
                      [] OTHER -> Fails(r.s),
                  Fine(s), import.items)

Entered(s, path, given) ==
    [s EXCEPT !.envs = Append(@, given @@ Builtin), !.of = Append(@, path), !.env = Len(s.envs) + 1, !.current = path]

\* mutant: only the environment is restored
ResumedInFolder(s, before) == [s EXCEPT !.env = before.env]

\* Back to the file that was being evaluated; nothing does this for a file that fails.
Resumed(s, before) == [s EXCEPT !.env = before.env, !.current = before.current]

RECURSIVE RunStatements(_, _, _)

\* A file within itself is loaded until the stack ends: `depth` counts the
\* files being loaded.
RunFile(s, path, given, depth) ==
    CASE ~Readable(s, path) -> Fails(s)
      [] Readable(s, path) /\ depth > Cardinality(DOMAIN s.files) -> Ends("endless", s)
      [] OTHER -> RunStatements(Entered(s, path, given), s.files[FileAt(path)], depth)

ImportFileModule(s, import, depth) ==
    LET path == FilePath(s.current, import.source)
        r == RunFile(s, path, <<>>, depth + 1)
        exports == r.s.envs[r.s.env]
        back == [Resumed(r.s, s) EXCEPT !.loaded = (path :> exports) @@ @, !.imported = @ \cup {path}]
    IN IF r.end = "ok" THEN BindImports(back, import, exports, path) ELSE r

HandleImport(s, import, depth) ==
    CASE import.source \in DOMAIN s.loaded -> BindImports(s, import, s.loaded[import.source], import.source)
      [] import.source \notin DOMAIN s.loaded /\ import.source[1] = <<"std">> -> Fails(s)
      [] OTHER -> ImportFileModule(s, import, depth)

-----------------------------------------------------------------------------
(* What routes() loads: lib, middleware, and the routes themselves *)
PathsIn(s, folder) ==   \* of one level
    SelectSeq([i \in DOMAIN NamesInOrder |-> <<AppRoot, folder, <<NamesInOrder[i], "tnt">>>>],
              LAMBDA path : FileAt(path) \in DOMAIN s.files)

ModuleExports(r) ==   \* of load_module_exports, after an evaluation
    LET env == r.s.envs[r.s.env]
    IN [x \in {y \in DOMAIN env : env[y][1] # "native"} |-> env[x]]

\* A file of lib or middleware that fails is passed over, within its environment.
LoadLib(r, path) ==
    LET l == IF r.end = "ok" THEN RunFile(r.s, path, <<>>, 1) ELSE r
    IN CASE r.end # "ok" \/ l.end = "endless" -> l
         [] r.end = "ok" /\ l.end = "error" -> Fine(l.s)
         [] OTHER -> Fine([Resumed(l.s, r.s) EXCEPT !.lib = (<<Last(path)[1]>> :> ModuleExports(l)) @@ @])

LoadMiddleware(r, path) ==
    LET l == IF r.end = "ok" THEN RunFile(r.s, path, <<>>, 1) ELSE r
        exports == ModuleExports(l)
        found == SelectSeq(<<<<"middleware">>, <<"handler">>>>, LAMBDA x : x \in DOMAIN exports)
    IN CASE r.end # "ok" \/ l.end = "endless" -> l
         [] r.end = "ok" /\ l.end = "error" -> Fine(l.s)
         [] OTHER -> Fine([Resumed(l.s, r.s) EXCEPT
                             !.middleware = @ \o (IF found = <<>> THEN <<>> ELSE <<exports[found[1]]>>)])

ProcessRouteFile(r, path) ==
    LET injected == [x \in DOMAIN r.s.lib |-> ModuleValue(r.s.lib[x])]
        l == IF r.end = "ok" THEN RunFile([r.s EXCEPT !.imported = {}], path, injected, 1) ELSE r
        env == l.s.envs[l.s.env]
        route == [file |-> path, imports |-> l.s.imported,
                  handlers |-> [x \in {y \in DOMAIN env \cap {<<"get">>, <<"post">>} : env[y][1] = "own"} |-> env[x]]]
    IN IF r.end = "ok" /\ l.end = "ok"
       THEN Fine([Resumed(l.s, r.s) EXCEPT !.imported = r.s.imported, !.routes = Append(@, route)])
       ELSE l

LoadFileBasedRoutes(s) ==
    LET lib == FoldLeft(LoadLib, Fine([s EXCEPT !.lib = <<>>]), PathsIn(s, <<"lib">>))
        middleware == FoldLeft(LoadMiddleware, lib, PathsIn(s, <<"middleware">>))
    IN FoldLeft(ProcessRouteFile, middleware, PathsIn(s, <<"routes">>))

-----------------------------------------------------------------------------
ExecuteOne(s, statement, depth) ==
    CASE statement.do = "define" -> Fine(BindHere(s, statement.name, OwnValue(s.env, statement.name)))
      [] statement.do = "use" -> IF statement.name \in DOMAIN s.envs[s.env] THEN Fine(s) ELSE Fails(s)
      [] statement.do = "import" -> HandleImport(s, statement, depth)
      [] statement.do = "routes" -> LoadFileBasedRoutes(s)

RunStatements(s, statements, depth) ==
    IF statements = <<>> THEN Fine(s)
    ELSE LET r == ExecuteOne(s, statements[1], depth)
         IN IF r.end = "ok" THEN RunStatements(r.s, Tail(statements), depth) ELSE r

LoadProgram(files) ==
    IF Readable(Fresh(files), MainPath) THEN RunStatements(Fresh(files), files[FileAt(MainPath)], 1)
    ELSE Fails(Fresh(files))
=============================================================================
