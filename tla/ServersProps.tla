---------------------------- MODULE ServersProps ----------------------------
(***************************************************************************)
(* What a program may count on behind either server, and where a program   *)
(* that passed its tests behind one behaves otherwise behind the other.    *)
(***************************************************************************)
EXTENDS Servers

Asked == \A k \in Kinds : turn[k].at = "done"
Same == turn["sync"].answer = turn["async"].answer
\* the same status, body and headers but for the Content-Type
Untyped(answer) == [answer EXCEPT !.headers = {h \in @ : h[1] # "content-type"}]
SameButForType == Untyped(turn["sync"].answer) = Untyped(turn["async"].answer)
RouteOf == FindRoute(request)

-----------------------------------------------------------------------------
(* The places where the two servers differ. *)

\* a failed precondition is the client's fault only behind the synchronous server
FailsItsPrecondition == routes[RouteOf].handler = "precondition"
\* a status outside 100..999 is sent as it is, or becomes 500
OddStatus == routes[RouteOf].handler = "low"
\* a body that is not UTF-8 drops the request, or is repaired; one over 10 MB is only refused by one
OddBody == request.body # "text"
\* a result that is no map drops the request, or is answered with a message
NoResponse == routes[RouteOf].handler = "text"
\* the handler shows the request itself
ShowsRequest == routes[RouteOf].handler = "echo"
\* a response that names no Content-Type gets one from the synchronous server only
NamesNoType == Last(turn["sync"].called) \in {"nostatus", "redirect", "login"}

(* Both servers answer a request for a route alike, except in the cases     *)
(* above: what a test behind the synchronous server saw is what production  *)
(* does. (run_http_server, run_async_http_server.)                          *)
RoutesAnswerAlike ==
    (Asked /\ RouteOf # 0) =>
        \/ Same
        \/ OddBody
        \/ SameButForType /\ NamesNoType
        \/ /\ turn["sync"].called = turn["async"].called
           /\ Last(turn["sync"].called) = routes[RouteOf].handler   \* no middleware answered
           /\ FailsItsPrecondition \/ OddStatus \/ NoResponse \/ ShowsRequest

\* middleware that lets nothing pass
Stopping == {i \in DOMAIN middleware : middleware[i] \in {"stop", "login", "failure"}}

(* The middleware and the handler that run are the same behind both, and    *)
(* run in the order of registration: up to the first that answers or fails, *)
(* and the handler only when none does.                                     *)
MiddlewareInOrder ==
    \A k \in Kinds : turn[k].at = "done" /\ RouteOf # 0 =>
        \/ turn[k].called = <<>> /\ OddBody
        \/ turn[k].called = IF Stopping = {} THEN Append(middleware, routes[RouteOf].handler)
                            ELSE SubSeq(middleware, 1, Min(Stopping))

(* A route registered for exactly this path answers it, unless one that     *)
(* also matches was registered before; no static file hides a route.        *)
RegisteredRouteAnswers ==
    Asked => \A i \in DOMAIN routes :
        (routes[i].method = request.method /\ routes[i].pattern = request.path) =>
            /\ RouteOf \in 1..i
            /\ OddBody \/ \A k \in Kinds : turn[k].called # <<>>

(* Where the two disagree about a static file: the root of a directory, for *)
(* which only one serves index.html; a file that the first directory of the *)
(* path lacks; a prefix that ends inside a segment; and slashes doubled      *)
(* after the prefix, which only one server drops.                            *)
Path == request.path
Covering == {i \in DOMAIN statics : IsPrefix(statics[i].prefix, Path)}
RootOfDirectory == \E i \in DOMAIN statics : Unslashed(statics[i].prefix) = Unslashed(Path)
InsideSegment ==
    \E i \in Covering : Unslashed(statics[i].prefix) = statics[i].prefix
                        /\ ~IsPrefix(Slashed(statics[i].prefix), Path)
SeveralDirectories == \E i, j \in Covering : i # j
DoubledSlash == \E i \in Covering : LET rest == Rest(Path, Len(Slashed(statics[i].prefix)))
                                    IN Trimmed(rest) # rest

(* Where the two disagree about the Content-Type of a file: an extension    *)
(* that only one of their tables has, or has otherwise, and a file whose     *)
(* name is nothing but an extension.                                        *)
OneTableOnly == {"mjs", "webp", "otf", "eot", "md", "csv", "yaml", "yml", "zip", "gz", "gzip", "tar",
                 "mp3", "mp4", "webm", "ogg", "wav", "wasm", "xml"}
TypedOtherwise ==
    LET name == FileName(SyncStatic(Path)[2])
    IN Hidden(name) \/ \E x \in OneTableOnly : Extension(name) = <<x>>

(* Both servers serve the same static file for a path, under the same       *)
(* Content-Type, or both none, except in the cases above. (find_static_file *)
(* of ServerState and of AsyncServerState, get_mime_type,                   *)
(* guess_mime_type.)                                                        *)
StaticFilesAlike ==
    (Asked /\ RouteOf = 0) =>
        \/ Same \/ OddBody \/ RootOfDirectory \/ InsideSegment \/ SeveralDirectories \/ DoubledSlash
        \/ SyncStatic(Path) # <<>> /\ TypedOtherwise /\ SameButForType

(* The request a program sees is the same behind both, but for what only    *)
(* one server reads: x-real-ip, x-request-id, x-forwarded-proto and the     *)
(* address of the peer, and a query with a second question mark.            *)
RequestsLookAlike ==
    (Asked /\ RouteOf # 0) =>
        LET params == Params(Path, routes[RouteOf].pattern)
            s == SyncValue(request, params)
            a == AsyncValue(request, params)
        IN /\ \A x \in {"method", "path", "params", "headers"} : s[x] = a[x]
           /\ s.query = a.query \/ request.query = "a?b"
           /\ s.ip = a.ip \/ ~Header(request, "forwarded")
           /\ s.id = a.id \/ Header(request, "id")
           /\ s.protocol = a.protocol \/ Header(request, "proto")

(* Production does what the tests saw: the same answers on the same routes  *)
(* and files for the same request, but for the differences named above.     *)
AnsweredAlike == RoutesAnswerAlike /\ StaticFilesAlike /\ RequestsLookAlike

(* A handler's status reaches the client as it is when it is one HTTP       *)
(* knows; any other is sent cut to 16 bits, or becomes 500.                  *)
StatusArrives ==
    (Asked /\ RouteOf # 0 /\ ~OddBody) => \A k \in Kinds :
        LET r == Outcome(routes[RouteOf].handler, request)
        IN (/\ Last(turn[k].called) = routes[RouteOf].handler
            /\ r.is = "map" /\ HasStatus(r) /\ r.status \in 100..999)
              => turn[k].answer.status = r.status

(* The route that answers is the first registered that matches, behind its  *)
(* middleware in order, in both servers, and its status arrives.            *)
DispatchInOrder == MiddlewareInOrder /\ RegisteredRouteAnswers /\ StatusArrives

-----------------------------------------------------------------------------
(* docs/STDLIB_REFERENCE.md: on_shutdown "registers a function to run when  *)
(* the server shuts down".                                                  *)
ShutdownHandlersRun == phase = "stopped" => \A k \in Kinds : ran[k] = onShutdown
=============================================================================
