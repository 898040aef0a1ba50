--------------------------- MODULE HotReloadProps ---------------------------
(***************************************************************************)
(* Properties of hot reload.                                               *)
(***************************************************************************)
EXTENDS HotReload

\* The routes of one program, each with the same code behind it.
ProgramOf(v) == [p \in v.main.paths |-> v]

(***************************************************************************)
(* What the server runs is one whole version of the program: every route   *)
(* of the main file it was loaded from and no other, all with the same     *)
(* imports, never handlers of two versions side by side. A source that     *)
(* does not parse or type-check changes nothing of it.                     *)
(***************************************************************************)
OneWholeVersion ==
    (pc \notin Reading /\ lastEval = "ok") =>
        \/ registry = <<>>
        \/ \E p \in DOMAIN registry : registry = ProgramOf(registry[p])

(***************************************************************************)
(* Whenever the interpreter waits for a request and the last evaluation    *)
(* succeeded, the async server knows exactly the routes it serves: no      *)
(* request is refused that has a handler, none is forwarded that has not.  *)
(***************************************************************************)
TablesAgree ==
    (pc \in {"recv", "stat", "dispatch"} /\ lastEval = "ok") =>
        asyncRoutes = DOMAIN registry

\* An import failed to load in the last evaluation, which left it untracked.
LostTrack == lastEval = "failed" /\ DOMAIN imported # Libs

\* A request that came when the sources were sound, and they were not edited
\* since, ran something else, or had no handler though the main file has one.
RanOtherCode(c) ==
    client[c].state = "answered" /\ client[c].steady /\ client[c].answer \notin {NotFound, DiskVersion}
MissedItsRoute(c) ==
    client[c].steady /\ client[c].answer = NotFound /\ client[c].path \in diskMain.paths

(***************************************************************************)
(* A request that reaches a handler runs the sources that were on disk     *)
(* when it arrived, and a forwarded one finds its handler if the main file *)
(* on disk has one, whatever was edited and failed before: unless a file   *)
(* was edited while the last reload was reading, or (for the route) an     *)
(* import was lost track of.                                               *)
(***************************************************************************)
RunsWhatIsOnDisk ==
    raced \/ \A c \in Clients :
        /\ ~RanOtherCode(c)
        /\ client[c].forwarded /\ ~LostTrack => ~MissedItsRoute(c)

(***************************************************************************)
(* When editing is over and the sources are sound, a server whose          *)
(* interpreter keeps getting requests ends up, and stays, with exactly the *)
(* program on disk: a failed evaluation is tried again, a blocked one too. *)
(* Again but for edits during a reload and imports lost track of.          *)
(***************************************************************************)
UpToDate == registry = [p \in diskMain.paths |-> DiskVersion]
CatchesUp ==
    (<>[]DiskOk /\ []<>(pc = "dispatch")) => <>[](UpToDate \/ raced \/ LostTrack)

-----------------------------------------------------------------------------
(* What the documentation says, without the exceptions.                    *)

(***************************************************************************)
(* A change of an imported module is detected on the next request          *)
(* (RUNTIME_REFERENCE), also when a version of it failed to load: once it  *)
(* is fixed, forwarded requests find their routes.                         *)
(***************************************************************************)
FixedImportIsLoaded ==
    raced \/ \A c \in Clients : client[c].forwarded => ~MissedItsRoute(c)
=============================================================================
