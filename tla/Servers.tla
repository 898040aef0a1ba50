------------------------------- MODULE Servers -------------------------------
(***************************************************************************)
(* One program behind the two HTTP servers of the interpreter.             *)
(*                                                                         *)
(* `ntnt intent check` and the Studio run a program behind the synchronous *)
(* server (run_http_server), `ntnt run` behind the asynchronous one        *)
(* (run_async_http_server and http_server_async). The program registers    *)
(* routes, static directories, middleware and shutdown handlers; then a    *)
(* request is given to both servers, which call its middleware and handler *)
(* one by one, and their answers are kept side by side. How the two halves *)
(* of the asynchronous server hand over a request is in HttpBridge.        *)
(*                                                                         *)
(* A path is a sequence of characters, "/" and "." among them. Handlers    *)
(* and middleware are known by what they return.                           *)
(***************************************************************************)
EXTENDS Integers, Sequences, SequencesExt, FiniteSets, TLC

CONSTANTS
    Methods,       \* methods that routes are registered for
    Patterns,      \* route patterns a program uses; a segment <<"{", name, "}">> is a parameter
    Paths,         \* paths that clients ask for
    UrlPrefixes,   \* URL prefixes of static directories
    Files,         \* files on disk: <<directory, relative path>>
    Handlers,      \* what handlers do, see Outcome
    Middlewares,   \* what middleware does, see Through
    Wire,          \* what clients send besides the path, see Request
    MaxRegistrations   \* registrations of all kinds

ASSUME BoundAssumption == MaxRegistrations \in Nat
ASSUME PathsAssumption == \A p \in Paths \cup UrlPrefixes : p \in Seq({p[i] : i \in DOMAIN p})

VARIABLES
    routes,        \* ServerState.routes, in order of registration
    statics,       \* ServerState.static_dirs
    middleware,    \* ServerState.middleware
    onShutdown,    \* ServerState.shutdown_handlers
    phase,         \* "setup", "listening" or "stopped"
    request,       \* the request both servers are given
    turn,          \* what each server has made of it, see Waiting
    ran            \* shutdown handlers each server has called

registered == <<routes, statics, middleware, onShutdown>>
vars == <<registered, phase, request, turn, ran>>

Kinds == {"sync", "async"}

-----------------------------------------------------------------------------
(* Paths and patterns *)
\* split at "/", empty segments dropped
Segments(chars) ==
    LET cuts == SelectSeq([i \in 1..(Len(chars) + 2) |-> i - 1],
                          LAMBDA i : i \in {0, Len(chars) + 1} \/ chars[i] = "/")
        parts == [i \in 1..(Len(cuts) - 1) |-> SubSeq(chars, cuts[i] + 1, cuts[i + 1] - 1)]
    IN SelectSeq(parts, LAMBDA part : part # <<>>)

IsParam(segment) == segment[1] = "{" /\ segment[Len(segment)] = "}"
ParamName(segment) == SubSeq(segment, 2, Len(segment) - 1)

Matches(path, pattern) ==   \* match_route
    LET p == Segments(path)  r == Segments(pattern)
    IN Len(p) = Len(r) /\ \A i \in DOMAIN p : IsParam(r[i]) \/ p[i] = r[i]

Params(path, pattern) ==    \* the last parameter of a name wins
    LET p == Segments(path)  r == Segments(pattern)
        names == {ParamName(r[i]) : i \in {j \in DOMAIN r : IsParam(r[j])}}
    IN [n \in names |-> p[CHOOSE i \in DOMAIN r :
            /\ IsParam(r[i]) /\ ParamName(r[i]) = n
            /\ \A j \in (i + 1)..Len(r) : ~IsParam(r[j]) \/ ParamName(r[j]) # n]]

Found(r) == {i \in DOMAIN routes : routes[i].method = r.method /\ Matches(r.path, routes[i].pattern)}

FindRouteLast(r) ==   \* mutant: a later registration overrides an earlier one
    IF Found(r) = {} THEN 0 ELSE Max(Found(r))

FindRoute(r) ==   \* the first that matches, 0 for none
    IF Found(r) = {} THEN 0 ELSE Min(Found(r))

-----------------------------------------------------------------------------
(* Static files: <<>> for none, else what is served *)
Letters(chars) == {i \in DOMAIN chars : chars[i] # "/"}
Slashed(prefix) == IF Len(prefix) \in Letters(prefix) \cup {0} THEN Append(prefix, "/") ELSE prefix
Unslashed(chars) == SubSeq(chars, 1, IF Letters(chars) = {} THEN 0 ELSE Max(Letters(chars)))   \* trim_end_matches
Trimmed(chars) ==   \* trim_start_matches
    IF Letters(chars) = {} THEN <<>> ELSE SubSeq(chars, Min(Letters(chars)), Len(chars))
Rest(path, n) == SubSeq(path, n + 1, Len(path))
IndexHtml == <<"index", ".", "html">>

(* The synchronous server takes the first directory whose prefix covers the *)
(* path and serves index.html for its root.                                 *)
Covers(prefix, path) == IsPrefix(Slashed(prefix), path) \/ path = Unslashed(prefix)
SyncFile(d, path) ==
    LET rest == IF path = Unslashed(d.prefix) THEN <<>> ELSE Rest(path, Len(Slashed(d.prefix)))
    IN <<d.dir, IF rest = <<>> THEN IndexHtml ELSE rest>>
SyncStatic(path) ==
    LET found == {i \in DOMAIN statics : Covers(statics[i].prefix, path)}
    IN IF found = {} THEN <<>> ELSE SyncFile(statics[Min(found)], path)

(* The asynchronous server looks for a directory that has the file; its    *)
(* prefix may end inside a segment.                                        *)
AsyncFile(d, path) == <<d.dir, Trimmed(Rest(path, Len(d.prefix)))>>
AsyncStatic(path) ==
    LET found == {i \in DOMAIN statics : /\ IsPrefix(statics[i].prefix, path)
                                         /\ AsyncFile(statics[i], path) \in Files}
    IN IF found = {} THEN <<>> ELSE AsyncFile(statics[Min(found)], path)

(* The Content-Type of a file by its extension, each server with a table of *)
(* its own. An extension is one character here; letter case is left out.   *)
FileName(path) ==
    LET cuts == (DOMAIN path) \ Letters(path) IN IF cuts = {} THEN path ELSE Rest(path, Max(cuts))
Dots(chars) == {i \in DOMAIN chars : chars[i] = "."}
Extension(chars) == IF Dots(chars) = {} THEN <<>> ELSE Rest(chars, Max(Dots(chars)))
Hidden(name) == Dots(name) = {1}   \* ".css" has no extension for std::path

Utf8(kind, sub) == <<kind, sub, "utf-8">>
OctetStream == <<"application", "octet-stream">>
IconType(x) == <<"image", IF x = "svg" THEN "svg+xml" ELSE IF x = "ico" THEN "x-icon" ELSE x>>

SyncType(x) ==   \* get_mime_type
    CASE x \in {"html", "htm"} -> Utf8("text", "html")
      [] x \in {"css", "csv"} -> Utf8("text", x)
      [] x = "txt" -> Utf8("text", "plain")
      [] x = "md" -> Utf8("text", "markdown")
      [] x \in {"js", "mjs"} -> Utf8("application", "javascript")
      [] x \in {"json", "xml"} -> Utf8("application", x)
      [] x \in {"yaml", "yml"} -> Utf8("application", "x-yaml")
      [] x \in {"png", "gif", "webp", "svg", "ico"} -> IconType(x)
      [] x \in {"jpg", "jpeg"} -> <<"image", "jpeg">>
      [] x \in {"woff", "woff2", "ttf", "otf"} -> <<"font", x>>
      [] x = "eot" -> <<"application", "vnd.ms-fontobject">>
      [] x \in {"pdf", "zip"} -> <<"application", x>>
      [] x \in {"gz", "gzip"} -> <<"application", "gzip">>
      [] x = "tar" -> <<"application", "x-tar">>
      [] x \in {"mp4", "webm"} -> <<"video", x>>
      [] x \in {"ogg", "wav"} -> <<"audio", x>>
      [] x = "mp3" -> <<"audio", "mpeg">>
      [] OTHER -> OctetStream

AsyncTypePagesOnly(x) ==   \* mutant: a table without style sheets and pictures
    IF x \in {"html", "htm"} THEN Utf8("text", "html") ELSE OctetStream

AsyncType(x) ==   \* guess_mime_type
    CASE x \in {"html", "htm"} -> Utf8("text", "html")
      [] x = "css" -> Utf8("text", x)
      [] x = "txt" -> Utf8("text", "plain")
      [] x = "js" -> Utf8("application", "javascript")
      [] x = "json" -> Utf8("application", x)
      [] x \in {"png", "gif", "svg", "ico"} -> IconType(x)
      [] x \in {"jpg", "jpeg"} -> <<"image", "jpeg">>
      [] x \in {"woff", "woff2", "ttf"} -> <<"font", x>>
      [] x \in {"pdf", "xml", "wasm"} -> <<"application", x>>
      [] OTHER -> OctetStream

\* the last dot of the name, or of the whole path
SyncMime(path) == IF Hidden(FileName(path)) THEN OctetStream
                  ELSE LET x == Extension(FileName(path)) IN IF Len(x) = 1 THEN SyncType(x[1]) ELSE OctetStream
AsyncMime(path) == LET x == Extension(path) IN IF Len(x) = 1 THEN AsyncType(x[1]) ELSE OctetStream

-----------------------------------------------------------------------------
(* The request as the program sees it *)
Header(r, h) == h \in r.headers
\* "forwarded": x-forwarded-for, "realip": x-real-ip, "id": x-request-id, "proto": x-forwarded-proto
SyncValue(r, params) ==
    [method |-> r.method, path |-> r.path, params |-> params,
     query |-> IF r.query = "a?b" THEN "a" ELSE r.query,   \* split at every "?"
     headers |-> r.headers, body |-> r.body,
     ip |-> IF Header(r, "forwarded") THEN "forwarded"
            ELSE IF Header(r, "realip") THEN "realip" ELSE "peer",
     id |-> IF Header(r, "id") THEN "given" ELSE "new",
     protocol |-> IF Header(r, "proto") THEN "given" ELSE "http"]

AsyncValueNoQuery(r, params) ==   \* mutant: the query is left in the path
    [method |-> r.method, path |-> r.path, params |-> params,
     query |-> "", headers |-> r.headers, body |-> r.body,
     ip |-> "unknown", id |-> "new", protocol |-> "http"]

AsyncValue(r, params) ==
    [method |-> r.method, path |-> r.path, params |-> params,
     query |-> r.query, headers |-> r.headers,
     body |-> IF r.body = "binary" THEN "replaced" ELSE r.body,   \* from_utf8_lossy
     ip |-> IF Header(r, "forwarded") THEN "forwarded" ELSE "unknown",
     id |-> "new", protocol |-> "http"]

-----------------------------------------------------------------------------
(* What programs return: a map with an optional status and headers, another *)
(* value, or an error. Headers are pairs of a name and a value; the ones a  *)
(* server adds on its own behalf (Server, Connection, Content-Length and    *)
(* the encoding of a compressed body) are left out.                         *)
Text(message) == <<"text", message>>
ContentType(type) == {<<"content-type", type>>}
PlainText == ContentType(Utf8("text", "plain"))
NoBody == Text("")
CacheControl == {<<"cache-control", "public">>}

Map(status, headers, body) == [is |-> "map", status |-> status, headers |-> headers, body |-> body]
NoStatus(body) == [is |-> "map", headers |-> {}, body |-> body]
Raised(error) == [is |-> "error", error |-> error]
ErrorResponse(status, message) == Map(status, PlainText, Text(message))       \* create_error_response
Redirect == Map(302, {<<"location", "url">>}, NoBody)                             \* redirect()

Outcome(h, value) ==   \* what a handler does: external
    CASE h = "echo" -> Map(200, PlainText, <<"request", value>>)
      [] h = "nostatus" -> NoStatus(Text("body"))
      [] h = "redirect" -> Redirect
      [] h = "text" -> [is |-> "other"]
      [] h = "created" -> Map(201, PlainText, Text("body"))
      [] h = "wide" -> Map(65536 + 200, PlainText, Text("body"))
      [] h = "low" -> Map(5, PlainText, Text("body"))
      [] h \in {"precondition", "postcondition", "failure"} -> Raised(h)

Through(m, value) ==   \* what middleware does: external
    CASE m = "pass" -> [is |-> "other"]
      [] m = "stop" -> Map(403, PlainText, Text("stopped"))
      [] m = "login" -> Redirect
      [] m = "tag" -> NoStatus([value EXCEPT !.protocol = "tagged"])
      [] m = "failure" -> Raised("failure")

ASSUME HandlersAssumption ==
    Handlers \subseteq {"echo", "nostatus", "redirect", "text", "created", "wide", "low",
                       "precondition", "postcondition", "failure"}
ASSUME MiddlewaresAssumption == Middlewares \subseteq {"pass", "stop", "login", "tag", "failure"}

HasStatus(r) == "status" \in DOMAIN r

(* How an error of a handler is answered: only the synchronous server tells *)
(* a precondition from the rest.                                            *)
SyncError(error) == ErrorResponse(IF error = "precondition" THEN 400 ELSE 500, error)
AsyncError(error) == ErrorResponse(500, error)

Response(k, r) ==
    IF r.is # "error" THEN r ELSE IF k = "sync" THEN SyncError(r.error) ELSE AsyncError(r.error)

-----------------------------------------------------------------------------
(* What goes over the wire *)
U16(n) == n % 65536
Answer(status, headers, body) == [status |-> status, headers |-> headers, body |-> body]
StatusOf(r) == IF HasStatus(r) THEN U16(r.status) ELSE 200

\* a request that is dropped unanswered: tiny_http sends 500 (external)
Dropped == Answer(500, {}, NoBody)

NamesType(headers) == \E h \in headers : h[1] = "content-type"
DefaultType == ContentType(<<"text", "plain", "UTF-8">>)   \* tiny_http's from_string (external)

SyncSent(r) ==   \* send_response
    IF r.is # "map" THEN Dropped
    ELSE Answer(StatusOf(r), IF NamesType(r.headers) THEN r.headers ELSE r.headers \cup DefaultType, r.body)

AsyncSent(r) ==   \* BridgeResponse::from_value, then bridge_to_axum_response
    IF r.is # "map" THEN Answer(500, {}, Text("invalid"))
    ELSE Answer(IF StatusOf(r) \in 100..999 THEN StatusOf(r) ELSE 500, r.headers, r.body)

Sent(k, r) == IF k = "sync" THEN SyncSent(r) ELSE AsyncSent(r)

-----------------------------------------------------------------------------
(* A turn of a server: idle, calling middleware, or done with an answer.    *)
Idle == [at |-> "idle", value |-> <<>>, called |-> <<>>, answer |-> <<>>]
Waiting(value, called) == [at |-> "chain", value |-> value, called |-> called, answer |-> <<>>]
Done(called, answer) == [at |-> "done", value |-> <<>>, called |-> called, answer |-> answer]

Refused(status, message) == Answer(status, PlainText, Text(message))
NotFound == Refused(404, "not found")
File(type, file) == Answer(200, ContentType(type) \cup CacheControl, <<"file", file>>)

(* run_http_server: what it makes of a request before it calls anything *)
SyncTakes(r) ==
    LET i == FindRoute(r)
        file == SyncStatic(r.path)
    IN IF i # 0
       THEN IF r.body = "binary" THEN Done(<<>>, Dropped)   \* not UTF-8
            ELSE Waiting(SyncValue(r, Params(r.path, routes[i].pattern)), <<>>)
       ELSE Done(<<>>, IF r.method = "GET" /\ file # <<>>
                       THEN IF file \in Files THEN File(SyncMime(file[2]), file) ELSE NotFound
                       ELSE IF r.body = "binary" THEN Dropped ELSE NotFound)

(* handle_request *)
AsyncTakes(r) ==
    LET i == FindRoute(r)
        file == AsyncStatic(r.path)
    IN IF i # 0
       THEN IF r.body = "huge" THEN Done(<<>>, Refused(400, "Bad Request"))
            ELSE Waiting(AsyncValue(r, Params(r.path, routes[i].pattern)), <<>>)
       ELSE Done(<<>>, IF r.method = "GET" /\ file # <<>> THEN File(AsyncMime(file[2]), file) ELSE NotFound)

PassedPastErrors(k, t, m) ==   \* mutant: an error is logged only
    LET r == Through(m, t.value)
        called == Append(t.called, m)
    IN CASE r.is = "map" /\ HasStatus(r) -> Done(called, Sent(k, r))
         [] r.is = "map" /\ ~HasStatus(r) -> Waiting(r.body, called)
         [] OTHER -> Waiting(t.value, called)

(* Middleware answers, fails, or passes the request on, perhaps another. *)
Passed(k, t, m) ==
    LET r == Through(m, t.value)
        called == Append(t.called, m)
    IN CASE r.is = "error" -> Done(called, Sent(k, ErrorResponse(500, r.error)))
         [] r.is = "map" /\ HasStatus(r) -> Done(called, Sent(k, r))
         [] r.is = "map" /\ ~HasStatus(r) -> Waiting(r.body, called)
         [] OTHER -> Waiting(t.value, called)

-----------------------------------------------------------------------------
Init ==
    /\ routes = <<>> /\ statics = <<>> /\ middleware = <<>> /\ onShutdown = <<>>
    /\ phase = "setup"
    /\ request = <<>> /\ turn = [k \in Kinds |-> Idle]
    /\ ran = [k \in Kinds |-> <<>>]

Registering ==
    /\ phase = "setup"
    /\ Len(routes) + Len(statics) + Len(middleware) + Len(onShutdown) < MaxRegistrations

AddRoute(method, pattern, handler) ==
    /\ Registering
    /\ routes' = Append(routes, [method |-> method, pattern |-> pattern, handler |-> handler])
    /\ UNCHANGED <<statics, middleware, onShutdown, phase, request, turn, ran>>

AddStaticDir(prefix, dir) ==
    /\ Registering
    /\ statics' = Append(statics, [prefix |-> prefix, dir |-> dir])
    /\ UNCHANGED <<routes, middleware, onShutdown, phase, request, turn, ran>>

AddMiddleware(m) ==
    /\ Registering
    /\ middleware' = Append(middleware, m)
    /\ UNCHANGED <<routes, statics, onShutdown, phase, request, turn, ran>>

AddShutdownHandler(h) ==
    /\ Registering
    /\ onShutdown' = Append(onShutdown, h)
    /\ UNCHANGED <<routes, statics, middleware, phase, request, turn, ran>>

NewServer ==   \* ServerState::clear
    /\ phase = "setup" /\ registered # <<<<>>, <<>>, <<>>, <<>>>>
    /\ routes' = <<>> /\ statics' = <<>> /\ middleware' = <<>> /\ onShutdown' = <<>>
    /\ UNCHANGED <<phase, request, turn, ran>>

Listen ==   \* refused when there is nothing to serve
    /\ phase = "setup" /\ (routes # <<>> \/ statics # <<>>)
    /\ phase' = "listening"
    /\ UNCHANGED <<registered, request, turn, ran>>

(* One request: the servers keep nothing of it that another could meet. *)
Ask(r) ==
    /\ phase = "listening" /\ \A k \in Kinds : turn[k] = Idle
    /\ request' = r
    /\ turn' = [k \in Kinds |-> IF k = "sync" THEN SyncTakes(r) ELSE AsyncTakes(r)]
    /\ UNCHANGED <<registered, phase, ran>>

CallMiddleware(k) ==
    LET n == Len(turn[k].called) + 1
    IN /\ turn[k].at = "chain" /\ n \in DOMAIN middleware
       /\ turn' = [turn EXCEPT ![k] = Passed(k, turn[k], middleware[n])]
       /\ UNCHANGED <<registered, phase, request, ran>>

CallHandler(k) ==
    LET h == routes[FindRoute(request)].handler
    IN /\ turn[k].at = "chain" /\ Len(turn[k].called) = Len(middleware)
       /\ turn' = [turn EXCEPT ![k] = Done(Append(turn[k].called, h),
                                           Sent(k, Response(k, Outcome(h, turn[k].value))))]
       /\ UNCHANGED <<registered, phase, request, ran>>

(* A server stops between requests, and one that was served leaves nothing  *)
(* behind. The synchronous one calls the shutdown handlers in order,        *)
(* whether or not one fails; the asynchronous one returns when its channel  *)
(* closes.                                                                  *)
Stop ==
    /\ phase = "listening" /\ \A k \in Kinds : turn[k] = Idle
    /\ phase' = "stopped"
    /\ ran' = [ran EXCEPT !["sync"] = onShutdown]
    /\ UNCHANGED <<registered, request, turn>>

Requests == {[method |-> m, path |-> p, query |-> w.query, headers |-> w.headers, body |-> w.body] :
                m \in {"GET", "POST"}, p \in Paths, w \in Wire}

Next ==
    \/ \E m \in Methods, p \in Patterns, h \in Handlers : AddRoute(m, p, h)
    \/ \E p \in UrlPrefixes, d \in {f[1] : f \in Files} : AddStaticDir(p, d)
    \/ \E m \in Middlewares : AddMiddleware(m)
    \/ \E h \in {1, 2} : AddShutdownHandler(h)
    \/ NewServer \/ Listen \/ Stop
    \/ \E r \in Requests : Ask(r)
    \/ \E k \in Kinds : CallMiddleware(k) \/ CallHandler(k)

Spec == Init /\ [][Next]_vars
=============================================================================
