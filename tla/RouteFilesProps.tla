--------------------------- MODULE RouteFilesProps ---------------------------
(***************************************************************************)
(* Properties of RouteFiles.                                               *)
(***************************************************************************)
EXTENDS RouteFiles

\* A request was answered by a handler; the sources were sound when it came and
\* were not edited since.
SteadyAnswer == pc = "recv" /\ steady /\ answer \in Answers

(***************************************************************************)
(* A handler that answers was made from the route file and the shared      *)
(* module on disk, whichever handlers of the file were reloaded before and *)
(* whatever failed, unless an edit fell inside its last reload or the file *)
(* no longer has it. It runs in the main program on disk, its own module   *)
(* included: reloading route files does not disturb how the main file is   *)
(* tracked, unless one failed as it was evaluated.                         *)
(***************************************************************************)
RunsRouteOnDisk ==
    SteadyAnswer =>
        /\ (request \notin raced /\ request[2] \in disk[request[1]].methods) =>
              answer.code = disk[request[1]].at /\ answer.lib = disk["shared"].at
        /\ ~broke => answer.main = disk["main"].at /\ answer.own = disk["own"].at

(***************************************************************************)
(* A request of a route the async server knows is "not found" only when a  *)
(* reload of the main file left no route at all: a route file that fails   *)
(* never costs a route, its own or another.                                *)
(***************************************************************************)
AllOrNothing == (answer = NotFound /\ request \in known) => routes = <<>>

(***************************************************************************)
(* When editing is over and the sources are sound, a route that keeps      *)
(* being called ends up, and stays, with the code on disk. The exceptions  *)
(* are those above, and a reload of the main file that left no route.      *)
(***************************************************************************)
RouteUpToDate(k) ==
    k \in DOMAIN routes /\ routes[k].code = disk[k[1]].at /\ routes[k].lib = disk["shared"].at
CatchesUp ==
    \A k \in Keys :
        (<>[]Sound /\ []<>(pc = "find" /\ request = k)) =>
            <>[](RouteUpToDate(k) \/ k \in raced \/ k[2] \notin disk[k[1]].methods \/ routes = <<>>)
=============================================================================
