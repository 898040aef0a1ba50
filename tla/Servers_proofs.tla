---------------------------- MODULE Servers_proofs ----------------------------
(***************************************************************************)
(* The safety properties of the two servers, proved for any methods,       *)
(* patterns, paths, static directories, files on disk and clients, and for *)
(* programs of any size.                                                   *)
(***************************************************************************)
EXTENDS ServersProps, SequenceTheorems, WellFoundedInduction, TLAPS

(***************************************************************************)
(* The inductive invariant, part by part.                                  *)
(***************************************************************************)
Directories == {f[1] : f \in Files}
TypeInv ==
    /\ routes \in Seq([method : Methods, pattern : Patterns, handler : Handlers])
    /\ statics \in Seq([prefix : UrlPrefixes, dir : Directories])
    /\ middleware \in Seq(Middlewares)
    /\ onShutdown \in Seq({1, 2})
    /\ phase \in {"setup", "listening", "stopped"}
    /\ DOMAIN turn = Kinds

\* Nothing is registered any more when a server has something in hand.
PhaseInv == phase = "setup" => \A k \in Kinds : turn[k] = Idle

\* A body that one server does not take on.
Refuses(k) == request.body = IF k = "sync" THEN "binary" ELSE "huge"
NoneStops(n) == \A i \in 1..n : i \notin Stopping

\* A server that is calling middleware has called the first of it, none of which
\* let nothing pass, for a request that has a route.
WaitingInv(k) ==
    turn[k].at = "chain" =>
        /\ request \in Requests /\ RouteOf \in DOMAIN routes /\ ~Refuses(k)
        /\ Len(turn[k].called) \in 0..Len(middleware)
        /\ turn[k] = Waiting(turn[k].value, SubSeq(middleware, 1, Len(turn[k].called)))
        /\ NoneStops(Len(turn[k].called))

\* What middleware that lets nothing pass answers.
Halt(m) == CASE m = "stop" -> Map(403, PlainText, Text("stopped"))
             [] m = "login" -> Redirect
             [] OTHER -> ErrorResponse(500, "failure")
Halting == {"stop", "login", "failure"}

\* The answer is that of the first middleware that lets nothing pass, or that of
\* the handler, for the value it was given.
RoutedInv(k) ==
    IF Stopping = {}
    THEN LET h == routes[RouteOf].handler
         IN /\ turn[k].called = Append(middleware, h)
            /\ \E v : turn[k].answer = Sent(k, Response(k, Outcome(h, v)))
    ELSE /\ turn[k].called = SubSeq(middleware, 1, Min(Stopping))
         /\ turn[k].answer = Sent(k, Halt(middleware[Min(Stopping)]))

DoneInv(k) ==
    turn[k].at = "done" =>
        /\ request \in Requests
        /\ IF RouteOf # 0 /\ ~Refuses(k) THEN RoutedInv(k)
           ELSE turn[k] = IF k = "sync" THEN SyncTakes(request) ELSE AsyncTakes(request)

IInv == TypeInv /\ PhaseInv /\ \A k \in Kinds : WaitingInv(k) /\ DoneInv(k)

(***************************************************************************)
(* Least and largest elements, and the first elements of a sequence.       *)
(***************************************************************************)
LEMMA LeastNumber ==
    ASSUME NEW T \in SUBSET Nat, T # {}
    PROVE  Min(T) \in T /\ \A y \in T : Min(T) <= y
<1>1. IsWellFoundedOn(OpToRel(<, Nat), Nat)
  BY NatLessThanWellFounded
<1>2. PICK x \in T : \A y \in T : ~(<<y, x>> \in OpToRel(<, Nat))
  BY <1>1, WFMin
<1>3. \A y \in T : ~(y < x)
  BY <1>2 DEF OpToRel
<1>4. \A y \in T : x <= y
  BY <1>3
<1>5. QED
  BY <1>4 DEF Min

LEMMA LargestPosition ==
    ASSUME NEW n \in Nat, NEW T \in SUBSET (1..n), T # {}
    PROVE  Max(T) \in T /\ \A y \in T : Max(T) >= y
<1> DEFINE D == {i \in Nat : \E x \in T : i = n - x}
<1>1. \A x \in T : x \in 1..n /\ n - x \in Nat /\ n - x \in D
  OBVIOUS
<1>2. D \in SUBSET Nat /\ D # {}
  BY <1>1
<1>3. PICK d \in D : \A e \in D : d <= e
  BY <1>2, LeastNumber
<1>4. PICK x \in T : d = n - x
  OBVIOUS
<1>5. ASSUME NEW y \in T PROVE x >= y
  <2>1. n - x <= n - y /\ x \in 1..n /\ y \in 1..n
    BY <1>1, <1>3, <1>4
  <2>2. QED
    BY <2>1
<1>6. \E m \in T : \A y \in T : m >= y
  BY <1>5
<1>7. QED
  BY <1>6 DEF Max

\* One more element of a sequence.
LEMMA NextPrefix ==
    ASSUME NEW S, NEW s \in Seq(S), NEW n \in 0..Len(s)
    PROVE  /\ Len(SubSeq(s, 1, n)) = n
           /\ n + 1 \in DOMAIN s => Append(SubSeq(s, 1, n), s[n + 1]) = SubSeq(s, 1, n + 1)
<1>1. Len(s) \in Nat /\ DOMAIN s = 1..Len(s) /\ \A i \in 1..n : s[i] \in S
  OBVIOUS
<1>2. /\ SubSeq(s, 1, n) \in Seq(S) /\ Len(SubSeq(s, 1, n)) = (IF 1 <= n THEN n - 1 + 1 ELSE 0)
      /\ \A i \in 1..(n - 1 + 1) : SubSeq(s, 1, n)[i] = s[1 + i - 1]
  BY <1>1, SubSeqProperties
<1>3. ASSUME n + 1 \in DOMAIN s
      PROVE  Append(SubSeq(s, 1, n), s[n + 1]) = SubSeq(s, 1, n + 1)
  <2>1. \A i \in 1..(n + 1) : s[i] \in S
    BY <1>1, <1>3
  <2>2. /\ SubSeq(s, 1, n + 1) \in Seq(S) /\ Len(SubSeq(s, 1, n + 1)) = (IF 1 <= n + 1 THEN n + 1 - 1 + 1 ELSE 0)
        /\ \A i \in 1..(n + 1 - 1 + 1) : SubSeq(s, 1, n + 1)[i] = s[1 + i - 1]
    BY <2>1, SubSeqProperties
  <2>3. s[n + 1] \in S
    BY <1>3
  <2>4. /\ Append(SubSeq(s, 1, n), s[n + 1]) \in Seq(S)
        /\ Len(Append(SubSeq(s, 1, n), s[n + 1])) = n + 1
        /\ \A i \in 1..n : Append(SubSeq(s, 1, n), s[n + 1])[i] = s[i]
        /\ Append(SubSeq(s, 1, n), s[n + 1])[n + 1] = s[n + 1]
    BY <1>2, <2>3
  <2>5. \A i \in 1..(n + 1) : Append(SubSeq(s, 1, n), s[n + 1])[i] = SubSeq(s, 1, n + 1)[i]
    BY <2>2, <2>4
  <2>6. QED
    BY <2>2, <2>4, <2>5, SeqEqual
<1>4. QED
  BY <1>2, <1>3

(***************************************************************************)
(* What the operators of the model say.                                    *)
(***************************************************************************)
\* The route of a request is the first of those that match it.
LEMMA FirstRoute ==
    ASSUME TypeInv, NEW r
    PROVE  /\ FindRoute(r) # 0 => FindRoute(r) \in Found(r)
           /\ \A i \in Found(r) : FindRoute(r) \in 1..i
           /\ Found(r) \subseteq DOMAIN routes
<1>1. Found(r) \in SUBSET (Nat \ {0}) /\ Found(r) \subseteq DOMAIN routes
  BY DEF Found, TypeInv
<1>2. ASSUME Found(r) # {}
      PROVE  Min(Found(r)) \in Found(r) /\ \A y \in Found(r) : Min(Found(r)) <= y
  BY <1>1, <1>2, LeastNumber
<1>3. QED
  BY <1>1, <1>2 DEF FindRoute

\* Middleware that lets nothing pass, and the rest.
LEMMA MiddlewarePasses ==
    ASSUME NEW k, NEW t, NEW m \in Middlewares
    PROVE  /\ m \in Halting => Passed(k, t, m) = Done(Append(t.called, m), Sent(k, Halt(m)))
           /\ m \notin Halting => \E v : Passed(k, t, m) = Waiting(v, Append(t.called, m))
<1>1. m \in {"pass", "stop", "login", "tag", "failure"}
  BY MiddlewaresAssumption
<1>2. CASE m \in {"stop", "login"}
  <2>1. Through(m, t.value) = Halt(m)
    BY <1>2 DEF Through, Halt
  <2>2. \E status, headers, body : Halt(m) = Map(status, headers, body)
    BY <1>2 DEF Halt, Redirect
  <2>3. Through(m, t.value).is = "map" /\ HasStatus(Through(m, t.value))
    BY <2>1, <2>2 DEF Map, HasStatus
  <2>4. QED
    BY <1>2, <2>1, <2>3 DEF Passed, Halting
<1>3. CASE m = "failure"
  <2>1. Through(m, t.value) = Raised("failure")
    BY <1>3 DEF Through
  <2>2. QED
    BY <1>3, <2>1 DEF Passed, Halt, Halting, Raised
<1>4. CASE m = "tag"
  <2>1. Through(m, t.value) = [is |-> "map", headers |-> {}, body |-> [t.value EXCEPT !.protocol = "tagged"]]
    BY <1>4 DEF Through, NoStatus
  <2>2. Through(m, t.value).is = "map" /\ ~HasStatus(Through(m, t.value))
    BY <2>1 DEF HasStatus
  <2>3. QED
    BY <1>4, <2>2 DEF Passed, Halting
<1>5. CASE m = "pass"
  <2>1. Through(m, t.value) = [is |-> "other"]
    BY <1>5 DEF Through
  <2>2. QED
    BY <1>5, <2>1 DEF Passed, Halting
<1>6. QED
  BY <1>1, <1>2, <1>3, <1>4, <1>5

(***************************************************************************)
(* The invariant holds initially, and every step keeps it.                 *)
(***************************************************************************)
LEMMA InitHolds == Init => IInv
<1> SUFFICES ASSUME Init PROVE IInv
  OBVIOUS
<1>1. TypeInv
  BY DEF Init, TypeInv
<1>2. \A k \in Kinds : turn[k] = Idle
  BY DEF Init
<1>3. \A k \in Kinds : turn[k].at = "idle"
  BY <1>2 DEF Idle
<1>4. QED
  BY <1>1, <1>2, <1>3 DEF IInv, PhaseInv, WaitingInv, DoneInv

\* What is registered, and the request.
given == <<registered, request>>

\* A server whose turn does not change, for the same request.
LEMMA TurnKept ==
    ASSUME NEW k \in Kinds, WaitingInv(k), DoneInv(k), UNCHANGED given, turn'[k] = turn[k]
    PROVE  WaitingInv(k)' /\ DoneInv(k)'
<1>1. /\ routes' = routes /\ statics' = statics /\ middleware' = middleware /\ request' = request
  BY DEF given, registered
<1>2. RouteOf' = RouteOf /\ Stopping' = Stopping /\ Refuses(k)' = Refuses(k) /\ Requests' = Requests
  BY <1>1 DEF RouteOf, FindRoute, Found, Stopping, Refuses, Requests
<1>3. WaitingInv(k)'
  BY <1>1, <1>2 DEF WaitingInv, NoneStops
<1>4. RoutedInv(k)' = RoutedInv(k)
  BY <1>1, <1>2 DEF RoutedInv
<1>5. SyncTakes(request)' = SyncTakes(request) /\ AsyncTakes(request)' = AsyncTakes(request)
  BY <1>1 DEF SyncTakes, AsyncTakes, SyncStatic, AsyncStatic, FindRoute, Found
<1>6. DoneInv(k)'
  BY <1>1, <1>2, <1>4, <1>5 DEF DoneInv
<1>7. QED
  BY <1>3, <1>6

\* As long as the program registers, the servers are idle.
LEMMA SetupHolds ==
    ASSUME TypeInv', phase = "setup", IInv, UNCHANGED turn
    PROVE  IInv'
<1>1. \A k \in Kinds : turn'[k] = Idle
  BY DEF IInv, PhaseInv
<1>2. \A k \in Kinds : turn'[k].at = "idle"
  BY <1>1 DEF Idle
<1>3. QED
  BY <1>1, <1>2 DEF IInv, PhaseInv, WaitingInv, DoneInv

\* What the servers make of a request before they call anything.
LEMMA AskHolds ==
    ASSUME IInv, NEW r \in Requests, Ask(r)
    PROVE  IInv'
<1>1. /\ routes' = routes /\ statics' = statics /\ middleware' = middleware /\ onShutdown' = onShutdown
      /\ phase = "listening" /\ phase' = phase /\ request' = r
      /\ turn' = [k \in Kinds |-> IF k = "sync" THEN SyncTakes(r) ELSE AsyncTakes(r)]
  BY DEF Ask, registered
<1>2. TypeInv' /\ PhaseInv'
  BY <1>1 DEF IInv, TypeInv, PhaseInv
<1>3. RouteOf' = FindRoute(r) /\ Requests' = Requests
  BY <1>1 DEF RouteOf, FindRoute, Found, Requests
<1>4. SyncTakes(request)' = SyncTakes(r) /\ AsyncTakes(request)' = AsyncTakes(r)
  BY <1>1 DEF SyncTakes, AsyncTakes, SyncStatic, AsyncStatic, FindRoute, Found
<1>5. ASSUME NEW k \in Kinds, FindRoute(r) # 0, ~Refuses(k)'
      PROVE  \E v : turn'[k] = Waiting(v, <<>>)
  BY <1>1, <1>5 DEF SyncTakes, AsyncTakes, Refuses, Kinds
<1>6. ASSUME NEW k \in Kinds, FindRoute(r) = 0 \/ Refuses(k)'
      PROVE  turn'[k].at = "done"
  BY <1>1, <1>6 DEF SyncTakes, AsyncTakes, Refuses, Kinds, Done
<1>7. ASSUME NEW k \in Kinds PROVE WaitingInv(k)'
  <2>1. SUFFICES ASSUME turn'[k].at = "chain" PROVE WaitingInv(k)'
    BY DEF WaitingInv
  <2>2. FindRoute(r) # 0 /\ ~Refuses(k)'
    BY <1>6, <2>1
  <2>3. PICK v : turn'[k] = Waiting(v, <<>>)
    BY <1>5, <2>2
  <2>4. Len(turn'[k].called) = 0 /\ turn'[k] = Waiting(turn'[k].value, <<>>)
    BY <2>3 DEF Waiting
  <2>5. SubSeq(middleware', 1, 0) = <<>>
    BY SubSeqEmpty
  <2>7. RouteOf' \in DOMAIN routes'
    BY <1>1, <1>3, <2>2, FirstRoute DEF IInv
  <2>8. Len(middleware') \in Nat
    BY <1>1 DEF IInv, TypeInv
  <2>9. QED
    <3>1. request' \in Requests' /\ RouteOf' \in DOMAIN routes' /\ ~Refuses(k)'
      BY <1>1, <1>3, <2>2, <2>7
    <3>2. Len(turn'[k].called) \in 0..Len(middleware') /\ 1..Len(turn'[k].called) = {}
      BY <2>4, <2>8
    <3>3. turn'[k] = Waiting(turn'[k].value, SubSeq(middleware', 1, Len(turn'[k].called)))
      BY <2>4, <2>5
    <3>4. QED
      BY <3>1, <3>2, <3>3 DEF WaitingInv, NoneStops
<1>8. ASSUME NEW k \in Kinds PROVE DoneInv(k)'
  <2>1. SUFFICES ASSUME turn'[k].at = "done" PROVE DoneInv(k)'
    BY DEF DoneInv
  <2>2. ASSUME RouteOf' # 0, ~Refuses(k)' PROVE FALSE
    <3>1. PICK v : turn'[k] = Waiting(v, <<>>)
      BY <1>3, <1>5, <2>2
    <3>2. QED
      BY <2>1, <3>1 DEF Waiting
  <2>3. turn'[k] = IF k = "sync" THEN SyncTakes(r) ELSE AsyncTakes(r)
    BY <1>1
  <2>4. QED
    BY <1>1, <1>3, <1>4, <2>2, <2>3 DEF DoneInv
<1>9. QED
  BY <1>2, <1>7, <1>8 DEF IInv

\* One server calls middleware: it answers, or goes on to the next.
LEMMA CallMiddlewareHolds ==
    ASSUME IInv, NEW j \in Kinds, CallMiddleware(j)
    PROVE  IInv'
<1> DEFINE n == Len(turn[j].called)
           m == middleware[n + 1]
<1>1. /\ turn[j].at = "chain" /\ n + 1 \in DOMAIN middleware
      /\ turn' = [turn EXCEPT ![j] = Passed(j, turn[j], m)]
      /\ UNCHANGED <<registered, phase, request, ran>>
  BY DEF CallMiddleware
<1>2. UNCHANGED given /\ routes' = routes /\ middleware' = middleware /\ request' = request
  BY <1>1 DEF given, registered
<1>3. TypeInv' /\ PhaseInv'
  <2>1. TypeInv'
    BY <1>1 DEF IInv, TypeInv, registered
  <2>2. phase # "setup"
    BY <1>1 DEF IInv, PhaseInv, Idle
  <2>3. QED
    BY <1>1, <2>1, <2>2 DEF PhaseInv
<1>4. /\ request \in Requests /\ RouteOf \in DOMAIN routes /\ ~Refuses(j) /\ n \in 0..Len(middleware)
      /\ turn[j] = Waiting(turn[j].value, SubSeq(middleware, 1, n)) /\ NoneStops(n)
  BY <1>1 DEF IInv, WaitingInv
<1>5. middleware \in Seq(Middlewares) /\ m \in Middlewares /\ n + 1 \in 1..Len(middleware)
  BY <1>1 DEF IInv, TypeInv
<1>6. turn[j].called = SubSeq(middleware, 1, n)
  BY <1>4 DEF Waiting
<1>7. Append(turn[j].called, m) = SubSeq(middleware, 1, n + 1) /\ Len(SubSeq(middleware, 1, n + 1)) = n + 1
  BY <1>4, <1>5, <1>6, NextPrefix
<1>8. turn'[j] = Passed(j, turn[j], m) /\ \A k \in Kinds \ {j} : turn'[k] = turn[k]
  BY <1>1 DEF IInv, TypeInv
<1>9. RouteOf' = RouteOf /\ Stopping' = Stopping /\ Refuses(j)' = Refuses(j) /\ Requests' = Requests
  BY <1>2 DEF RouteOf, FindRoute, Found, Stopping, Refuses, Requests
<1> HIDE DEF n, m
<1>a. PICK t, c : t = turn[j] /\ c = m
  OBVIOUS
<1>b. /\ c \in Halting => Passed(j, t, c) = Done(Append(t.called, c), Sent(j, Halt(c)))
      /\ c \notin Halting => \E v : Passed(j, t, c) = Waiting(v, Append(t.called, c))
  BY <1>5, <1>a, MiddlewarePasses
<1> USE DEF n, m
<1>10. CASE m \in Halting
  <2>1. turn'[j] = Done(SubSeq(middleware, 1, n + 1), Sent(j, Halt(m)))
    BY <1>7, <1>8, <1>10, <1>a, <1>b
  <2>2. n + 1 \in Stopping /\ Stopping \subseteq DOMAIN middleware
    BY <1>1, <1>10 DEF Stopping, Halting
  <2>3. \A i \in Stopping : n + 1 <= i
    BY <1>4, <1>5, <2>2 DEF NoneStops
  <2>4. Min(Stopping) = n + 1
    <3>1. Stopping \in SUBSET Nat /\ Stopping # {}
      BY <1>5, <2>2
    <3>2. Min(Stopping) \in Stopping /\ Min(Stopping) <= n + 1
      BY <2>2, <3>1, LeastNumber
    <3>3. n + 1 <= Min(Stopping)
      BY <2>3, <3>2
    <3>4. Min(Stopping) \in Nat
      BY <3>1, <3>2
    <3>5. n + 1 \in Nat
      BY <2>2, <3>1
    <3>6. QED
      BY <3>2, <3>3, <3>4, <3>5
  <2>5. turn'[j].called = SubSeq(middleware, 1, n + 1) /\ turn'[j].answer = Sent(j, Halt(m)) /\ turn'[j].at = "done"
    BY <2>1 DEF Done
  <2>6. RoutedInv(j)'
    BY <1>2, <1>9, <2>2, <2>4, <2>5 DEF RoutedInv
  <2>7. RouteOf # 0
    BY <1>4 DEF IInv, TypeInv
  <2>8. WaitingInv(j)' /\ DoneInv(j)'
    BY <1>2, <1>4, <1>9, <2>5, <2>6, <2>7 DEF WaitingInv, DoneInv
  <2>9. QED
    BY <1>2, <1>3, <1>8, <2>8, TurnKept DEF IInv
<1>11. CASE m \notin Halting
  <2>1. PICK v : turn'[j] = Waiting(v, SubSeq(middleware, 1, n + 1))
    BY <1>7, <1>8, <1>11, <1>a, <1>b
  <2>2. turn'[j].called = SubSeq(middleware, 1, n + 1) /\ turn'[j].value = v /\ turn'[j].at = "chain"
    BY <2>1 DEF Waiting
  <2>3. Len(turn'[j].called) = n + 1
    BY <1>7, <2>2
  <2>4. \A i \in 1..(n + 1) : i \notin Stopping
    BY <1>4, <1>11 DEF NoneStops, Stopping, Halting
  <2>5. \A i \in 1..Len(turn'[j].called) : i \notin Stopping'
    BY <1>9, <2>3, <2>4
  <2>6. WaitingInv(j)'
    BY <1>2, <1>4, <1>5, <1>9, <2>1, <2>2, <2>3, <2>5 DEF WaitingInv, NoneStops
  <2>7. DoneInv(j)'
    BY <2>2 DEF DoneInv
  <2>8. QED
    BY <1>2, <1>3, <1>8, <2>6, <2>7, TurnKept DEF IInv
<1>12. QED
  BY <1>10, <1>11

\* One server calls the handler, when all middleware let the request pass.
LEMMA CallHandlerHolds ==
    ASSUME IInv, NEW j \in Kinds, CallHandler(j)
    PROVE  IInv'
<1> DEFINE h == routes[RouteOf].handler
<1>1. /\ turn[j].at = "chain" /\ Len(turn[j].called) = Len(middleware)
      /\ turn' = [turn EXCEPT ![j] = Done(Append(turn[j].called, h),
                                          Sent(j, Response(j, Outcome(h, turn[j].value))))]
      /\ UNCHANGED <<registered, phase, request, ran>>
  BY DEF CallHandler, RouteOf
<1>2. UNCHANGED given /\ routes' = routes /\ middleware' = middleware /\ request' = request
  BY <1>1 DEF given, registered
<1>3. TypeInv' /\ PhaseInv'
  <2>1. TypeInv'
    BY <1>1 DEF IInv, TypeInv, registered
  <2>2. phase # "setup"
    BY <1>1 DEF IInv, PhaseInv, Idle
  <2>3. QED
    BY <1>1, <2>1, <2>2 DEF PhaseInv
<1>4. /\ request \in Requests /\ RouteOf \in DOMAIN routes /\ ~Refuses(j)
      /\ turn[j] = Waiting(turn[j].value, SubSeq(middleware, 1, Len(middleware)))
      /\ \A i \in 1..Len(middleware) : i \notin Stopping
  BY <1>1 DEF IInv, WaitingInv, NoneStops
<1>5. Stopping = {}
  BY <1>4 DEF Stopping, IInv, TypeInv
<1>6. turn[j].called = middleware
  <2>1. middleware \in Seq(Middlewares)
    BY DEF IInv, TypeInv
  <2>2. QED
    BY <1>4, <2>1, SubSeqFull DEF Waiting
<1>7. /\ turn'[j] = Done(Append(middleware, h), Sent(j, Response(j, Outcome(h, turn[j].value))))
      /\ \A k \in Kinds \ {j} : turn'[k] = turn[k]
  BY <1>1, <1>6 DEF IInv, TypeInv
<1>8. RouteOf' = RouteOf /\ Stopping' = Stopping /\ Refuses(j)' = Refuses(j) /\ Requests' = Requests
  BY <1>2 DEF RouteOf, FindRoute, Found, Stopping, Refuses, Requests
<1>9. /\ turn'[j].called = Append(middleware, h) /\ turn'[j].at = "done"
      /\ turn'[j].answer = Sent(j, Response(j, Outcome(h, turn[j].value)))
  BY <1>7 DEF Done
<1>10. RoutedInv(j)'
  BY <1>2, <1>5, <1>8, <1>9 DEF RoutedInv
<1>11. RouteOf # 0
  BY <1>4 DEF IInv, TypeInv
<1>12. WaitingInv(j)' /\ DoneInv(j)'
  BY <1>2, <1>4, <1>8, <1>9, <1>10, <1>11 DEF WaitingInv, DoneInv
<1>13. QED
  BY <1>2, <1>3, <1>7, <1>12, TurnKept DEF IInv

\* A step that leaves what was registered, the request and the turns alone.
LEMMA TurnsKept ==
    ASSUME IInv, UNCHANGED given, UNCHANGED turn, TypeInv', phase' = "setup" => phase = "setup"
    PROVE  IInv'
<1>1. PhaseInv'
  BY DEF IInv, PhaseInv
<1>2. \A k \in Kinds : WaitingInv(k)' /\ DoneInv(k)'
  BY TurnKept DEF IInv
<1>3. QED
  BY <1>1, <1>2 DEF IInv

LEMMA StepHolds == IInv /\ [Next]_vars => IInv'
<1> SUFFICES ASSUME IInv, [Next]_vars PROVE IInv'
  OBVIOUS
<1>1. TypeInv
  BY DEF IInv
<1>2. CASE UNCHANGED vars
  BY <1>1, <1>2, TurnsKept DEF vars, given, registered, TypeInv
<1>3. ASSUME NEW method \in Methods, NEW p \in Patterns, NEW h \in Handlers, AddRoute(method, p, h)
      PROVE  IInv'
  <2>1. TypeInv'
    <3>1. [method |-> method, pattern |-> p, handler |-> h] \in [method : Methods, pattern : Patterns, handler : Handlers]
      OBVIOUS
    <3>2. QED
      BY <1>1, <1>3, <3>1 DEF AddRoute, TypeInv
  <2>2. QED
    BY <1>3, <2>1, SetupHolds DEF AddRoute, Registering
<1>4. ASSUME NEW p \in UrlPrefixes, NEW d \in Directories, AddStaticDir(p, d) PROVE IInv'
  <2>1. TypeInv'
    BY <1>1, <1>4 DEF AddStaticDir, TypeInv
  <2>2. QED
    BY <1>4, <2>1, SetupHolds DEF AddStaticDir, Registering
<1>5. ASSUME NEW m \in Middlewares, AddMiddleware(m) PROVE IInv'
  <2>1. TypeInv'
    BY <1>1, <1>5 DEF AddMiddleware, TypeInv
  <2>2. QED
    BY <1>5, <2>1, SetupHolds DEF AddMiddleware, Registering
<1>6. ASSUME NEW h \in {1, 2}, AddShutdownHandler(h) PROVE IInv'
  <2>1. TypeInv'
    BY <1>1, <1>6 DEF AddShutdownHandler, TypeInv
  <2>2. QED
    BY <1>6, <2>1, SetupHolds DEF AddShutdownHandler, Registering
<1>7. CASE NewServer
  <2>1. TypeInv'
    BY <1>1, <1>7 DEF NewServer, TypeInv
  <2>2. QED
    BY <1>7, <2>1, SetupHolds DEF NewServer
<1>8. CASE Listen
  <2>1. TypeInv'
    BY <1>1, <1>8 DEF Listen, TypeInv, registered
  <2>2. QED
    BY <1>8, <2>1, TurnsKept DEF Listen, given
<1>9. CASE Stop
  <2>1. TypeInv'
    BY <1>1, <1>9 DEF Stop, TypeInv, registered
  <2>2. QED
    BY <1>9, <2>1, TurnsKept DEF Stop, given
<1>10. ASSUME NEW r \in Requests, Ask(r) PROVE IInv'
  BY <1>10, AskHolds
<1>11. ASSUME NEW k \in Kinds, CallMiddleware(k) \/ CallHandler(k) PROVE IInv'
  BY <1>11, CallMiddlewareHolds, CallHandlerHolds
<1>12. QED
  BY <1>2, <1>3, <1>4, <1>5, <1>6, <1>7, <1>8, <1>9, <1>10, <1>11 DEF Next, Directories

(* Every reachable state satisfies the inductive invariant: what was called *)
(* and answered so far follows from what was registered. (The loops of       *)
(* run_http_server and run_async_http_server.)                               *)
THEOREM Invariance == Spec => []IInv
<1>1. Init => IInv
  BY InitHolds
<1>2. IInv /\ [Next]_vars => IInv'
  BY StepHolds
<1>3. QED
  BY <1>1, <1>2, PTL DEF Spec

(***************************************************************************)
(* Prefixes and slashes.                                                   *)
(***************************************************************************)
\* What SubSeq gives of a sequence, element by element.
LEMMA Cut ==
    ASSUME NEW S, NEW s \in Seq(S), NEW a \in Nat \ {0}, NEW b \in 0..Len(s), a <= b + 1
    PROVE  /\ SubSeq(s, a, b) \in Seq(S) /\ Len(SubSeq(s, a, b)) = b - a + 1
           /\ DOMAIN SubSeq(s, a, b) = 1..(b - a + 1)
           /\ \A i \in 1..(b - a + 1) : SubSeq(s, a, b)[i] = s[a + i - 1]
<1>1. Len(s) \in Nat /\ \A i \in a..b : i \in 1..Len(s) /\ s[i] \in S
  OBVIOUS
<1>2. /\ SubSeq(s, a, b) \in Seq(S)
      /\ Len(SubSeq(s, a, b)) = IF a <= b THEN b - a + 1 ELSE 0
      /\ \A i \in 1..(b - a + 1) : SubSeq(s, a, b)[i] = s[a + i - 1]
  BY <1>1, SubSeqProperties
<1>3. QED
  BY <1>1, <1>2

LEMMA LettersAre == ASSUME NEW S, NEW s \in Seq(S) PROVE Letters(s) \in SUBSET (1..Len(s))
BY DEF Letters

\* How far the last letter is.
Reach(s) == IF Letters(s) = {} THEN 0 ELSE Max(Letters(s))

LEMMA ReachIs ==
    ASSUME NEW S, NEW s \in Seq(S)
    PROVE  /\ Reach(s) \in 0..Len(s) /\ Unslashed(s) = SubSeq(s, 1, Reach(s))
           /\ \A i \in Letters(s) : i <= Reach(s)
           /\ Reach(s) # 0 => Reach(s) \in Letters(s)
<1>1. Len(s) \in Nat /\ Letters(s) \in SUBSET (1..Len(s))
  BY LettersAre
<1>2. Letters(s) # {} => Max(Letters(s)) \in Letters(s) /\ \A i \in Letters(s) : Max(Letters(s)) >= i
  BY <1>1, LargestPosition
<1>3. QED
  BY <1>1, <1>2 DEF Reach, Unslashed

LEMMA ReachIsAt ==
    ASSUME NEW S, NEW s \in Seq(S), NEW n \in 0..Len(s),
           n # 0 => s[n] # "/", \A i \in (n + 1)..Len(s) : s[i] = "/"
    PROVE  Reach(s) = n
<1>1. Len(s) \in Nat
  OBVIOUS
<1>2. \A i \in Letters(s) : i \in Nat /\ i <= n
  BY <1>1 DEF Letters
<1>3. Reach(s) \in 0..Len(s) /\ (Reach(s) # 0 => Reach(s) \in Letters(s)) /\ \A i \in Letters(s) : i <= Reach(s)
  BY ReachIs
<1>4. n # 0 => n \in Letters(s)
  BY DEF Letters
<1>5. Reach(s) <= n
  BY <1>2, <1>3
<1>6. n <= Reach(s)
  BY <1>3, <1>4
<1>7. QED
  BY <1>3, <1>5, <1>6

\* Dropping the last slashes twice drops no more; adding one does not matter; and
\* a sequence that does not end in one stays as it is.
LEMMA UnslashedTwice ==
    ASSUME NEW S, NEW s \in Seq(S)
    PROVE  Unslashed(Unslashed(s)) = Unslashed(s)
<1> DEFINE n == Reach(s)
           u == SubSeq(s, 1, n)
<1>1. n \in 0..Len(s) /\ Unslashed(s) = u /\ (n # 0 => n \in Letters(s))
  BY ReachIs
<1>2. u \in Seq(S) /\ Len(u) = n /\ \A i \in 1..n : u[i] = s[i]
  BY <1>1, Cut
<1>3. n # 0 => u[n] # "/"
  BY <1>1, <1>2 DEF Letters
<1>4. Reach(u) = n
  <2>1. \A i \in (n + 1)..Len(u) : u[i] = "/"
    BY <1>1, <1>2
  <2>2. n \in 0..Len(u)
    BY <1>1, <1>2
  <2>3. QED
    BY <1>2, <1>3, <2>1, <2>2, ReachIsAt
<1>5. Unslashed(u) = SubSeq(u, 1, Len(u))
  BY <1>2, <1>4, ReachIs
<1>6. QED
  BY <1>1, <1>2, <1>5, SubSeqFull

LEMMA UnslashedEnd ==
    ASSUME NEW S, NEW s \in Seq(S), s = <<>> \/ s[Len(s)] # "/"
    PROVE  Unslashed(s) = s
<1>1. Len(s) \in 0..Len(s) /\ (Len(s) # 0 => s[Len(s)] # "/") /\ \A i \in (Len(s) + 1)..Len(s) : s[i] = "/"
  OBVIOUS
<1>2. Reach(s) = Len(s)
  BY <1>1, ReachIsAt
<1>3. QED
  BY <1>2, ReachIs, SubSeqFull

LEMMA SlashedIs ==
    ASSUME NEW S, NEW s \in Seq(S)
    PROVE  /\ s = <<>> \/ s[Len(s)] # "/" => Slashed(s) = Append(s, "/")
           /\ s # <<>> /\ s[Len(s)] = "/" => Slashed(s) = s
BY DEF Slashed, Letters

LEMMA UnslashedSlashed ==
    ASSUME NEW S, NEW s \in Seq(S)
    PROVE  Unslashed(Slashed(s)) = Unslashed(s)
<1>1. CASE s = <<>> \/ s[Len(s)] # "/"
  <2> DEFINE t == Append(s, "/")
  <2>1. t \in Seq(S \cup {"/"}) /\ s \in Seq(S \cup {"/"}) /\ Len(t) = Len(s) + 1 /\ Len(s) \in Nat
        /\ (\A i \in 1..Len(s) : t[i] = s[i]) /\ t[Len(s) + 1] = "/"
    OBVIOUS
  <2>2. Reach(t) = Len(s)
    <3>1. \A i \in (Len(s) + 1)..Len(t) : t[i] = "/"
      BY <2>1
    <3>2. Len(s) # 0 => t[Len(s)] # "/"
      BY <1>1, <2>1
    <3>3. Len(s) \in 0..Len(t)
      BY <2>1
    <3> HIDE DEF t
    <3>4. QED
      BY <2>1, <3>1, <3>2, <3>3, ReachIsAt
  <2>3. Unslashed(t) = SubSeq(t, 1, Len(s))
    <3> HIDE DEF t
    <3>1. QED
      BY <2>1, <2>2, ReachIs
  <2>4. SubSeq(t, 1, Len(s)) = s
    <3> HIDE DEF t
    <3>0. Len(s) \in 0..Len(t) /\ 1 <= Len(s) + 1
      BY <2>1
    <3>1. /\ SubSeq(t, 1, Len(s)) \in Seq(S \cup {"/"}) /\ Len(SubSeq(t, 1, Len(s))) = Len(s) - 1 + 1
          /\ \A i \in 1..(Len(s) - 1 + 1) : SubSeq(t, 1, Len(s))[i] = t[1 + i - 1]
      BY <2>1, <3>0, Cut
    <3>2. \A i \in 1..Len(s) : SubSeq(t, 1, Len(s))[i] = s[i]
      BY <2>1, <3>1
    <3>3. QED
      BY <2>1, <3>1, <3>2, SeqEqual
  <2>5. QED
    BY <1>1, <2>3, <2>4, SlashedIs, UnslashedEnd
<1>2. CASE s # <<>> /\ s[Len(s)] = "/"
  BY <1>2, SlashedIs
<1>3. QED
  BY <1>1, <1>2

\* Slashes are dropped from the front as long as there are any.
LEMMA TrimmedKeeps ==
    ASSUME NEW S, NEW s \in Seq(S), s # <<>>, Trimmed(s) = s
    PROVE  s[1] # "/"
<1>1. Len(s) \in Nat \ {0}
  BY EmptySeq
<1>2. SUFFICES ASSUME s[1] = "/" PROVE FALSE
  OBVIOUS
<1>3. Letters(s) \in SUBSET (1..Len(s)) /\ 1 \notin Letters(s)
  BY <1>2, LettersAre DEF Letters
<1>4. CASE Letters(s) = {}
  BY <1>4 DEF Trimmed
<1>5. CASE Letters(s) # {}
  <2>1. Min(Letters(s)) \in Letters(s)
    BY <1>3, <1>5, LeastNumber
  <2>2. Min(Letters(s)) \in 2..Len(s)
    BY <1>1, <1>3, <2>1
  <2>3. Len(SubSeq(s, Min(Letters(s)), Len(s))) = Len(s) - Min(Letters(s)) + 1
    BY <1>1, <2>2, Cut
  <2>4. Len(Trimmed(s)) < Len(s)
    BY <1>1, <1>5, <2>2, <2>3 DEF Trimmed
  <2>5. QED
    BY <1>1, <2>4
<1>6. QED
  BY <1>4, <1>5

LEMMA TrimmedOne ==
    ASSUME NEW S, NEW s \in Seq(S), NEW n \in 0..Len(s),
           n + 1 \in DOMAIN s, n + 2 \in DOMAIN s, s[n + 1] = "/", s[n + 2] # "/"
    PROVE  Trimmed(Rest(s, n)) = Rest(s, n + 1)
<1> DEFINE t == SubSeq(s, n + 1, Len(s))
<1>1. Len(s) \in Nat /\ n \in Nat /\ n + 2 <= Len(s)
  OBVIOUS
<1>2. t \in Seq(S) /\ Len(t) = Len(s) - n /\ \A i \in 1..(Len(s) - n) : t[i] = s[n + i]
  <2>1. n + 1 \in Nat \ {0} /\ Len(s) \in 0..Len(s) /\ n + 1 <= Len(s) + 1
    BY <1>1
  <2>2. /\ t \in Seq(S) /\ Len(t) = Len(s) - (n + 1) + 1
        /\ \A i \in 1..(Len(s) - (n + 1) + 1) : t[i] = s[n + 1 + i - 1]
    BY <2>1, Cut
  <2>3. QED
    BY <1>1, <2>2
<1> HIDE DEF t
<1>3. Letters(t) \in SUBSET (1..Len(t)) /\ 1 \notin Letters(t) /\ 2 \in Letters(t)
  BY <1>1, <1>2 DEF Letters
<1>4. Min(Letters(t)) = 2
  <2>1. Letters(t) \in SUBSET Nat /\ Letters(t) # {}
    BY <1>3
  <2>2. Min(Letters(t)) \in Letters(t) /\ Min(Letters(t)) <= 2
    BY <1>3, <2>1, LeastNumber
  <2>3. QED
    BY <1>3, <2>1, <2>2
<1>5. Trimmed(t) = SubSeq(t, 2, Len(t))
  BY <1>3, <1>4 DEF Trimmed
<1>6. SubSeq(t, 2, Len(t)) = SubSeq(s, n + 2, Len(s))
  <2>1. 2 \in Nat \ {0} /\ Len(t) \in 0..Len(t) /\ 2 <= Len(t) + 1
    BY <1>1, <1>2
  <2>2. /\ SubSeq(t, 2, Len(t)) \in Seq(S) /\ Len(SubSeq(t, 2, Len(t))) = Len(t) - 2 + 1
        /\ \A i \in 1..(Len(t) - 2 + 1) : SubSeq(t, 2, Len(t))[i] = t[2 + i - 1]
    BY <1>2, <2>1, Cut
  <2>3. n + 2 \in Nat \ {0} /\ Len(s) \in 0..Len(s) /\ n + 2 <= Len(s) + 1
    BY <1>1
  <2>4. /\ SubSeq(s, n + 2, Len(s)) \in Seq(S) /\ Len(SubSeq(s, n + 2, Len(s))) = Len(s) - (n + 2) + 1
        /\ \A i \in 1..(Len(s) - (n + 2) + 1) : SubSeq(s, n + 2, Len(s))[i] = s[n + 2 + i - 1]
    BY <2>3, Cut
  <2>5. Len(t) - 2 + 1 = Len(s) - (n + 2) + 1
    BY <1>1, <1>2
  <2>6. ASSUME NEW i \in 1..(Len(t) - 2 + 1) PROVE SubSeq(t, 2, Len(t))[i] = SubSeq(s, n + 2, Len(s))[i]
    <3>1. i + 1 \in 1..(Len(s) - n) /\ 2 + i - 1 = i + 1 /\ n + 2 + i - 1 = n + (i + 1)
      BY <1>1, <1>2
    <3>2. t[i + 1] = s[n + (i + 1)]
      BY <1>2, <3>1
    <3>3. QED
      BY <2>2, <2>4, <2>5, <3>1, <3>2
  <2>7. \A i \in 1..Len(SubSeq(t, 2, Len(t))) : SubSeq(t, 2, Len(t))[i] = SubSeq(s, n + 2, Len(s))[i]
    BY <2>2, <2>6
  <2>8. Len(SubSeq(t, 2, Len(t))) = Len(SubSeq(s, n + 2, Len(s)))
    BY <2>2, <2>4, <2>5
  <2>9. QED
    BY <2>2, <2>4, <2>7, <2>8, SeqEqual
<1>7. n + 1 + 1 = n + 2
  BY <1>1
<1>8. QED
  BY <1>5, <1>6, <1>7 DEF Rest, t

\* A prefix, element by element.
LEMMA PrefixIs ==
    ASSUME NEW S, NEW s \in Seq(S), NEW T, NEW t \in Seq(T)
    PROVE  IsPrefix(s, t) <=> Len(s) <= Len(t) /\ \A i \in 1..Len(s) : s[i] = t[i]
<1>1. Len(s) \in Nat /\ Len(t) \in Nat
  OBVIOUS
<1>2. SubSeq(s, 1, Len(s)) = s
  BY SubSeqFull
<1>3. ASSUME Len(s) <= Len(t)
      PROVE  s = SubSeq(t, 1, Len(s)) <=> \A i \in 1..Len(s) : s[i] = t[i]
  <2>1. Len(s) \in 0..Len(t) /\ 1 <= Len(s) + 1
    BY <1>1, <1>3
  <2>2. /\ SubSeq(t, 1, Len(s)) \in Seq(T) /\ Len(SubSeq(t, 1, Len(s))) = Len(s) - 1 + 1
        /\ \A i \in 1..(Len(s) - 1 + 1) : SubSeq(t, 1, Len(s))[i] = t[1 + i - 1]
    BY <2>1, Cut
  <2>3. Len(SubSeq(t, 1, Len(s))) = Len(s) /\ \A i \in 1..Len(s) : SubSeq(t, 1, Len(s))[i] = t[i]
    BY <1>1, <2>2
  <2>4. QED
    BY <2>2, <2>3, SeqEqual
<1>4. QED
  BY <1>2, <1>3 DEF IsPrefix

(***************************************************************************)
(* Static files of the two servers.                                        *)
(***************************************************************************)
\* A path and a prefix for which nothing is special.
Plain(prefix, path) ==
    /\ Unslashed(prefix) # Unslashed(path)
    /\ IsPrefix(prefix, path) =>
         /\ Unslashed(prefix) = prefix => IsPrefix(Slashed(prefix), path)
         /\ LET rest == Rest(path, Len(Slashed(prefix))) IN Trimmed(rest) = rest

\* For such a prefix and path the servers agree whether the directory is looked
\* into, and for which file.
LEMMA PlainFile ==
    ASSUME NEW S, NEW p \in Seq(S), NEW T, NEW path \in Seq(T), Plain(p, path), NEW dir
    PROVE  /\ Covers(p, path) <=> IsPrefix(p, path)
           /\ IsPrefix(p, path) => \E rest \in Seq(T) :
                /\ SyncFile([prefix |-> p, dir |-> dir], path) = <<dir, rest>>
                /\ AsyncFile([prefix |-> p, dir |-> dir], path) = <<dir, rest>>
<1> DEFINE q == Slashed(p)
<1>1. Len(p) \in Nat /\ Len(path) \in Nat
  OBVIOUS
<1>2. path # Unslashed(p)
  BY UnslashedTwice DEF Plain
<1>3. \/ q = p /\ Len(p) # 0
      \/ /\ q = Append(p, "/") /\ Unslashed(p) = p
  <2>1. CASE p = <<>> \/ p[Len(p)] # "/"
    BY <2>1, SlashedIs, UnslashedEnd
  <2>2. CASE p # <<>> /\ p[Len(p)] = "/"
    <3>1. Len(p) # 0
      BY <2>2, EmptySeq
    <3>2. QED
      BY <2>2, <3>1, SlashedIs
  <2>3. QED
    BY <2>1, <2>2
<1>4. q \in Seq(S \cup {"/"}) /\ p \in Seq(S \cup {"/"})
  BY <1>3
<1>5. Unslashed(q) = Unslashed(p)
  BY UnslashedSlashed
<1>6. q = Append(p, "/") => Len(q) = Len(p) + 1 /\ q[Len(p) + 1] = "/" /\ \A i \in 1..Len(p) : q[i] = p[i]
  BY <1>1
<1> HIDE DEF q
<1>7. IsPrefix(q, path) <=> Len(q) <= Len(path) /\ \A i \in 1..Len(q) : q[i] = path[i]
  BY <1>4, PrefixIs
<1>8. IsPrefix(p, path) <=> Len(p) <= Len(path) /\ \A i \in 1..Len(p) : p[i] = path[i]
  BY PrefixIs
<1>9. IsPrefix(q, path) <=> IsPrefix(p, path)
  <2>1. ASSUME IsPrefix(p, path) PROVE IsPrefix(q, path)
    BY <1>3, <2>1 DEF Plain, q
  <2>2. ASSUME IsPrefix(q, path), q = Append(p, "/") PROVE IsPrefix(p, path)
    <3>1. Len(p) <= Len(path)
      BY <1>1, <1>6, <1>7, <2>2
    <3>2. \A i \in 1..Len(p) : p[i] = path[i]
      BY <1>1, <1>6, <1>7, <2>2
    <3>3. QED
      BY <1>8, <3>1, <3>2
  <2>3. QED
    BY <1>3, <2>1, <2>2
<1>10. Covers(p, path) <=> IsPrefix(p, path)
  BY <1>2, <1>9 DEF Covers, q
<1>11. ASSUME IsPrefix(p, path)
       PROVE  \E rest \in Seq(T) : /\ SyncFile([prefix |-> p, dir |-> dir], path) = <<dir, rest>>
                                  /\ AsyncFile([prefix |-> p, dir |-> dir], path) = <<dir, rest>>
  <2> DEFINE n == Len(q)
             rest == Rest(path, n)
  <2>1. n \in Nat /\ n <= Len(path) /\ \A i \in 1..n : q[i] = path[i]
    BY <1>4, <1>7, <1>9, <1>11
  <2>2. n # Len(path)
    <3>1. SUFFICES ASSUME n = Len(path) PROVE FALSE
      OBVIOUS
    <3>2. q \in Seq(S \cup {"/"} \cup T) /\ path \in Seq(S \cup {"/"} \cup T)
      BY <1>4
    <3>3. q = path
      BY <2>1, <3>1, <3>2, SeqEqual
    <3>4. QED
      BY <1>5, <3>3 DEF Plain
  <2>3. n + 1 \in 1..Len(path)
    BY <1>1, <2>1, <2>2
  <2>4. rest \in Seq(T) /\ Len(rest) = Len(path) - n /\ rest[1] = path[n + 1]
    <3>1. n + 1 \in Nat \ {0} /\ Len(path) \in 0..Len(path) /\ n + 1 <= Len(path) + 1
      BY <1>1, <2>1
    <3>2. /\ SubSeq(path, n + 1, Len(path)) \in Seq(T)
          /\ Len(SubSeq(path, n + 1, Len(path))) = Len(path) - (n + 1) + 1
          /\ \A i \in 1..(Len(path) - (n + 1) + 1) : SubSeq(path, n + 1, Len(path))[i] = path[n + 1 + i - 1]
      BY <3>1, Cut
    <3>3. 1 \in 1..(Len(path) - (n + 1) + 1) /\ n + 1 + 1 - 1 = n + 1
      BY <1>1, <2>1, <2>3
    <3>4. SubSeq(path, n + 1, Len(path))[1] = path[n + 1]
      BY <3>2, <3>3
    <3>5. Len(path) - (n + 1) + 1 = Len(path) - n
      BY <1>1, <2>1
    <3>6. QED
      BY <3>2, <3>4, <3>5 DEF Rest
  <2>5. rest # <<>>
    <3>1. Len(rest) # 0
      BY <1>1, <2>1, <2>2, <2>4
    <3>2. QED
      BY <3>1, EmptySeq
  <2>6. Trimmed(rest) = rest
    BY <1>11 DEF Plain, q
  <2>7. rest[1] # "/"
    <3> HIDE DEF rest
    <3>1. QED
      BY <2>4, <2>5, <2>6, TrimmedKeeps
  <2>8. Trimmed(Rest(path, Len(p))) = rest
    <3>1. CASE q = p
      BY <2>6, <3>1
    <3>2. CASE q = Append(p, "/")
      <4>1. n = Len(p) + 1 /\ path[Len(p) + 1] = "/" /\ Len(p) \in 0..Len(path)
        BY <1>1, <1>6, <2>1, <3>2
      <4>2. Len(p) + 1 \in DOMAIN path /\ Len(p) + 2 \in DOMAIN path /\ Len(p) + 2 = n + 1
        BY <1>1, <2>3, <4>1
      <4>3. path[Len(p) + 2] # "/"
        BY <2>4, <2>7, <4>2
      <4>4. Trimmed(Rest(path, Len(p))) = Rest(path, Len(p) + 1)
        BY <4>1, <4>2, <4>3, TrimmedOne
      <4>5. QED
        BY <4>1, <4>4
    <3>3. QED
      BY <1>3, <3>1, <3>2
  <2>9. SyncFile([prefix |-> p, dir |-> dir], path) = <<dir, rest>>
    BY <1>2, <2>5 DEF SyncFile, q
  <2>10. AsyncFile([prefix |-> p, dir |-> dir], path) = <<dir, rest>>
    BY <2>8 DEF AsyncFile
  <2>11. QED
    BY <2>4, <2>9, <2>10
<1>12. QED
  BY <1>10, <1>11

LEMMA MinOfOne == ASSUME NEW i \in Nat PROVE Min({i}) = i
BY DEF Min

\* None of the places where the servers differ about static files.
NothingSpecial == ~RootOfDirectory /\ ~InsideSegment /\ ~SeveralDirectories /\ ~DoubledSlash

\* There both find the same file, or none.
LEMMA SameFile ==
    ASSUME TypeInv, request \in Requests, NothingSpecial
    PROVE  \/ SyncStatic(Path) = <<>> /\ AsyncStatic(Path) = <<>>
           \/ \E dir : \E rest \in Seq({Path[i] : i \in DOMAIN Path}) :
                /\ SyncStatic(Path) = <<dir, rest>>
                /\ AsyncStatic(Path) = IF <<dir, rest>> \in Files THEN <<dir, rest>> ELSE <<>>
<1>1. PICK path : path = Path
  OBVIOUS
<1>2. PICK T : T = {path[i] : i \in DOMAIN path} /\ path \in Seq(T)
  <2>1. path \in Seq({path[i] : i \in DOMAIN path})
    BY <1>1, PathsAssumption DEF Path, Requests
  <2>2. QED
    BY <2>1
<1>3. ASSUME NEW i \in DOMAIN statics
      PROVE  /\ statics[i] = [prefix |-> statics[i].prefix, dir |-> statics[i].dir]
             /\ statics[i].prefix \in UrlPrefixes
  <2> DEFINE D == [prefix : UrlPrefixes, dir : Directories]
  <2>1. statics \in Seq(D)
    BY DEF TypeInv
  <2> HIDE DEF D
  <2>2. statics[i] \in D
    BY <1>3, <2>1
  <2>3. QED
    BY <2>2 DEF D
<1>4. ASSUME NEW i \in DOMAIN statics
      PROVE  /\ Covers(statics[i].prefix, path) <=> i \in Covering
             /\ i \in Covering => \E rest \in Seq(T) : /\ SyncFile(statics[i], path) = <<statics[i].dir, rest>>
                                                      /\ AsyncFile(statics[i], path) = <<statics[i].dir, rest>>
  <2>1. PICK p, dir : p = statics[i].prefix /\ dir = statics[i].dir
    OBVIOUS
  <2>2. PICK S : p \in Seq(S)
    <3>1. p \in Seq({p[j] : j \in DOMAIN p})
      BY <1>3, <2>1, PathsAssumption
    <3>2. QED
      BY <3>1
  <2>3. i \in Covering <=> IsPrefix(p, path)
    BY <1>1, <1>4, <2>1 DEF Covering
  <2>4. Plain(p, path)
    <3>1. Unslashed(p) # Unslashed(path)
      BY <1>1, <1>4, <2>1 DEF NothingSpecial, RootOfDirectory
    <3>2. IsPrefix(p, path) /\ Unslashed(p) = p => IsPrefix(Slashed(p), path)
      BY <1>1, <1>4, <2>1, <2>3 DEF NothingSpecial, InsideSegment
    <3>3. IsPrefix(p, path) => Trimmed(Rest(path, Len(Slashed(p)))) = Rest(path, Len(Slashed(p)))
      BY <1>1, <1>4, <2>1, <2>3 DEF NothingSpecial, DoubledSlash
    <3>4. QED
      BY <3>1, <3>2, <3>3 DEF Plain
  <2>5. path \in Seq(T)
    BY <1>2
  <2>6. /\ Covers(p, path) <=> IsPrefix(p, path)
        /\ IsPrefix(p, path) => \E rest \in Seq(T) :
             /\ SyncFile([prefix |-> p, dir |-> dir], path) = <<dir, rest>>
             /\ AsyncFile([prefix |-> p, dir |-> dir], path) = <<dir, rest>>
    BY <2>2, <2>4, <2>5, PlainFile
  <2>7. QED
    BY <1>3, <1>4, <2>1, <2>3, <2>6
<1>5. Covering \subseteq DOMAIN statics /\ \A i \in DOMAIN statics : i \in Nat
  BY DEF Covering, TypeInv
<1>6. {i \in DOMAIN statics : Covers(statics[i].prefix, path)} = Covering
  BY <1>4, <1>5
<1>7. {i \in DOMAIN statics : IsPrefix(statics[i].prefix, path) /\ AsyncFile(statics[i], path) \in Files}
        = {i \in Covering : AsyncFile(statics[i], path) \in Files}
  BY <1>1 DEF Covering
<1>8. CASE Covering = {}
  BY <1>1, <1>6, <1>7, <1>8 DEF SyncStatic, AsyncStatic
<1>9. CASE Covering # {}
  <2>1. PICK i \in Covering : Covering = {i}
    BY <1>9 DEF NothingSpecial, SeveralDirectories
  <2>2. Min({i}) = i
    BY <1>5, <2>1, MinOfOne
  <2>3. SyncStatic(path) = SyncFile(statics[i], path)
    BY <1>6, <2>1, <2>2 DEF SyncStatic
  <2>4. AsyncStatic(path) = IF AsyncFile(statics[i], path) \in Files THEN AsyncFile(statics[i], path) ELSE <<>>
    <3>1. CASE AsyncFile(statics[i], path) \in Files
      <4>1. {j \in Covering : AsyncFile(statics[j], path) \in Files} = {i}
        BY <2>1, <3>1
      <4>2. QED
        BY <1>7, <2>2, <3>1, <4>1 DEF AsyncStatic
    <3>2. CASE AsyncFile(statics[i], path) \notin Files
      <4>1. {j \in Covering : AsyncFile(statics[j], path) \in Files} = {}
        BY <2>1, <3>2
      <4>2. QED
        BY <1>7, <3>2, <4>1 DEF AsyncStatic
    <3>3. QED
      BY <3>1, <3>2
  <2>5. PICK dir : dir = statics[i].dir
    OBVIOUS
  <2>6. PICK rest \in Seq(T) : SyncFile(statics[i], path) = <<dir, rest>> /\ AsyncFile(statics[i], path) = <<dir, rest>>
    BY <1>4, <1>5, <2>1, <2>5
  <2>7. QED
    BY <1>1, <1>2, <2>3, <2>4, <2>6
<1>10. QED
  BY <1>8, <1>9

\* Apart from the names on OneTableOnly the two tables say the same.
LEMMA TypesAlike ==
    ASSUME NEW x, x \notin OneTableOnly
    PROVE  SyncType(x) = AsyncType(x)
BY DEF SyncType, AsyncType, OneTableOnly, Utf8, IconType

\* What is left of a sequence.
LEMMA RestIs ==
    ASSUME NEW S, NEW s \in Seq(S), NEW n \in 0..Len(s)
    PROVE  /\ Rest(s, n) \in Seq(S) /\ Len(Rest(s, n)) = Len(s) - n /\ DOMAIN Rest(s, n) = 1..(Len(s) - n)
           /\ \A i \in 1..(Len(s) - n) : Rest(s, n)[i] = s[n + i]
<1>1. n + 1 \in Nat \ {0} /\ Len(s) \in 0..Len(s) /\ n + 1 <= Len(s) + 1
  OBVIOUS
<1>2. /\ SubSeq(s, n + 1, Len(s)) \in Seq(S) /\ Len(SubSeq(s, n + 1, Len(s))) = Len(s) - (n + 1) + 1
      /\ DOMAIN SubSeq(s, n + 1, Len(s)) = 1..(Len(s) - (n + 1) + 1)
      /\ \A i \in 1..(Len(s) - (n + 1) + 1) : SubSeq(s, n + 1, Len(s))[i] = s[n + 1 + i - 1]
  BY <1>1, Cut
<1>3. Len(s) - (n + 1) + 1 = Len(s) - n /\ \A i \in 1..(Len(s) - n) : n + 1 + i - 1 = n + i
  OBVIOUS
<1>4. QED
  BY <1>2, <1>3 DEF Rest

\* The extension is what follows the last dot, and has no dot itself.
LEMMA ExtensionAt ==
    ASSUME NEW S, NEW s \in Seq(S), NEW d \in 1..Len(s), s[d] = ".", \A i \in (d + 1)..Len(s) : s[i] # "."
    PROVE  Extension(s) = Rest(s, d)
<1>1. Dots(s) \in SUBSET (1..Len(s)) /\ d \in Dots(s) /\ Len(s) \in Nat
  BY DEF Dots
<1>2. Max(Dots(s)) \in Dots(s) /\ \A y \in Dots(s) : Max(Dots(s)) >= y
  BY <1>1, LargestPosition
<1>3. PICK m : m = Max(Dots(s))
  OBVIOUS
<1>4. m \in 1..Len(s) /\ s[m] = "." /\ m >= d
  BY <1>1, <1>2, <1>3 DEF Dots
<1>5. ~(m \in (d + 1)..Len(s))
  BY <1>4
<1>6. m = d
  BY <1>1, <1>4, <1>5
<1>7. QED
  BY <1>1, <1>3, <1>6 DEF Extension

\* The last name of a path is the path itself or what follows its last slash.
LEMMA FileNameIs ==
    ASSUME NEW S, NEW p \in Seq(S)
    PROVE  FileName(p) = p \/ \E c \in 1..Len(p) : p[c] = "/" /\ FileName(p) = Rest(p, c)
<1> DEFINE cuts == (DOMAIN p) \ Letters(p)
<1>1. cuts \in SUBSET (1..Len(p)) /\ Len(p) \in Nat /\ \A c \in cuts : p[c] = "/"
  BY DEF Letters
<1>2. FileName(p) = IF cuts = {} THEN p ELSE Rest(p, Max(cuts))
  BY DEF FileName
<1> HIDE DEF cuts
<1>3. cuts # {} => Max(cuts) \in cuts
  BY <1>1, LargestPosition
<1>4. QED
  BY <1>1, <1>2, <1>3

\* The last dot of a path is that of its last name, or comes before a slash.
LEMMA ExtensionOfName ==
    ASSUME NEW S, NEW p \in Seq(S)
    PROVE  /\ Extension(p) \in Seq(S)
           /\ \/ Extension(FileName(p)) = Extension(p)
              \/ Extension(FileName(p)) = <<>> /\ (Len(Extension(p)) = 1 => Extension(p)[1] = "/")
<1>1. Len(p) \in Nat /\ Dots(p) = {i \in 1..Len(p) : p[i] = "."}
  BY DEF Dots
<1>2. CASE Dots(p) = {}
  <2>1. Extension(p) = <<>>
    BY <1>2 DEF Extension
  <2>2. ASSUME NEW c \in 1..Len(p), FileName(p) = Rest(p, c) PROVE Dots(FileName(p)) = {}
    <3>1. c \in 0..Len(p)
      BY <1>1
    <3>2. /\ Rest(p, c) \in Seq(S) /\ Len(Rest(p, c)) = Len(p) - c /\ DOMAIN Rest(p, c) = 1..(Len(p) - c)
          /\ \A i \in 1..(Len(p) - c) : Rest(p, c)[i] = p[c + i]
      BY <3>1, RestIs
    <3>3. \A i \in 1..(Len(p) - c) : c + i \in 1..Len(p)
      BY <1>1
    <3>4. \A i \in 1..(Len(p) - c) : p[c + i] # "."
      BY <1>1, <1>2, <3>3
    <3>5. QED
      BY <2>2, <3>2, <3>4 DEF Dots
  <2>3. Dots(FileName(p)) = {}
    BY <1>2, <2>2, FileNameIs
  <2>4. Extension(FileName(p)) = <<>>
    BY <2>3 DEF Extension
  <2>5. QED
    BY <2>1, <2>4
<1>3. CASE Dots(p) # {}
  <2>1. PICK d \in Dots(p) : \A y \in Dots(p) : d >= y
    BY <1>1, <1>3, LargestPosition
  <2>2. d \in 1..Len(p) /\ p[d] = "." /\ \A i \in (d + 1)..Len(p) : p[i] # "."
    BY <1>1, <2>1
  <2>3. Extension(p) = Rest(p, d)
    BY <2>2, ExtensionAt
  <2>4. /\ Rest(p, d) \in Seq(S) /\ Len(Rest(p, d)) = Len(p) - d
        /\ \A i \in 1..(Len(p) - d) : Rest(p, d)[i] = p[d + i]
    BY <2>2, RestIs
  <2>5. CASE FileName(p) = p
    BY <2>3, <2>4, <2>5
  <2>6. ASSUME NEW c \in 1..Len(p), p[c] = "/", FileName(p) = Rest(p, c)
        PROVE  \/ Extension(FileName(p)) = Extension(p)
               \/ Extension(FileName(p)) = <<>> /\ (Len(Extension(p)) = 1 => Extension(p)[1] = "/")
    <3>1. c # d
      BY <2>2, <2>6
    <3>2. PICK name : name = Rest(p, c)
      OBVIOUS
    <3>3. /\ name \in Seq(S) /\ Len(name) = Len(p) - c /\ DOMAIN name = 1..(Len(p) - c)
          /\ \A i \in 1..(Len(p) - c) : name[i] = p[c + i]
      <4>1. c \in 0..Len(p)
        BY <1>1
      <4>2. /\ Rest(p, c) \in Seq(S) /\ Len(Rest(p, c)) = Len(p) - c /\ DOMAIN Rest(p, c) = 1..(Len(p) - c)
            /\ \A i \in 1..(Len(p) - c) : Rest(p, c)[i] = p[c + i]
        BY <4>1, RestIs
      <4>3. QED
        BY <3>2, <4>2
    <3>4. CASE c < d
      <4>1. PICK k \in Nat : k = d - c
        BY <1>1, <2>2, <3>4
      <4>2. k \in 1..Len(name) /\ k \in 0..Len(name) /\ c + k = d
        BY <1>1, <2>2, <3>3, <3>4, <4>1
      <4>3. \A i \in (k + 1)..Len(name) : i \in 1..(Len(p) - c) /\ c + i \in (d + 1)..Len(p)
        BY <1>1, <2>2, <3>3, <4>2
      <4>4. name[k] = "." /\ \A i \in (k + 1)..Len(name) : name[i] # "."
        BY <2>2, <3>3, <4>2, <4>3
      <4>5. Extension(name) = Rest(name, k)
        BY <3>3, <4>2, <4>4, ExtensionAt
      <4>6. /\ Rest(name, k) \in Seq(S) /\ Len(Rest(name, k)) = Len(name) - k /\ DOMAIN Rest(name, k) = 1..(Len(name) - k)
            /\ \A i \in 1..(Len(name) - k) : Rest(name, k)[i] = name[k + i]
        <5>1. name \in Seq(S)
          BY <3>3
        <5>2. QED
          BY <4>2, <5>1, RestIs
      <4>7. Len(name) - k = Len(p) - d
        <5>1. Len(name) = Len(p) - c /\ c \in Nat /\ d \in Nat /\ c + k = d
          BY <2>2, <3>3, <4>2
        <5>2. QED
          BY <1>1, <5>1
      <4>8. ASSUME NEW i \in 1..(Len(p) - d) PROVE name[k + i] = p[d + i]
        <5>1. k + i \in 1..(Len(p) - c) /\ c + (k + i) = d + i
          BY <1>1, <2>2, <4>2
        <5>2. QED
          BY <3>3, <5>1
      <4>9. Rest(name, k) = Rest(p, d)
        <5>1. \A i \in 1..(Len(p) - d) : Rest(name, k)[i] = Rest(p, d)[i]
          BY <2>4, <4>6, <4>7, <4>8
        <5>2. Rest(name, k) \in Seq(S) /\ Rest(p, d) \in Seq(S) /\ Len(Rest(name, k)) = Len(Rest(p, d))
          BY <2>4, <4>6, <4>7
        <5>3. QED
          BY <2>4, <5>1, <5>2, SeqEqual
      <4>10. QED
        BY <2>3, <2>6, <3>2, <4>5, <4>9
    <3>5. CASE d < c
      <4>1. \A i \in 1..(Len(p) - c) : c + i \in (d + 1)..Len(p)
        BY <1>1, <2>2, <3>5
      <4>2. \A i \in DOMAIN name : name[i] # "."
        BY <2>2, <3>3, <4>1
      <4>3. Dots(name) = {}
        BY <4>2 DEF Dots
      <4>4. Extension(name) = <<>>
        BY <4>3 DEF Extension
      <4>5. Len(p) - d = 1 => d + 1 = c
        BY <1>1, <2>2, <3>5
      <4>6. Len(p) - d = 1 => Rest(p, d)[1] = p[d + 1]
        BY <2>4
      <4>7. Len(p) - d = 1 => Rest(p, d)[1] = "/"
        BY <2>6, <4>5, <4>6
      <4>8. QED
        BY <2>3, <2>4, <2>6, <3>2, <4>4, <4>7
    <3>6. QED
      BY <1>1, <2>2, <3>1, <3>4, <3>5
  <2>7. QED
    BY <2>3, <2>4, <2>5, <2>6, FileNameIs
<1>4. QED
  BY <1>2, <1>3

\* The Content-Type of a file with an extension that both tables know, or none.
LEMMA MimesAlike ==
    ASSUME NEW S, NEW p \in Seq(S), ~Hidden(FileName(p)),
           \A x \in OneTableOnly : Extension(FileName(p)) # <<x>>
    PROVE  SyncMime(p) = AsyncMime(p)
<1>1. PICK e, f : e = Extension(FileName(p)) /\ f = Extension(p)
  OBVIOUS
<1>2. /\ SyncMime(p) = IF Len(e) = 1 THEN SyncType(e[1]) ELSE OctetStream
      /\ AsyncMime(p) = IF Len(f) = 1 THEN AsyncType(f[1]) ELSE OctetStream
  BY <1>1 DEF SyncMime, AsyncMime
<1>3. f \in Seq(S) /\ (e = f \/ (e = <<>> /\ (Len(f) = 1 => f[1] = "/")))
  BY <1>1, ExtensionOfName
<1>4. CASE e = f
  <2>1. Len(e) = 1 => e = <<e[1]>>
    BY <1>3, <1>4
  <2>2. Len(e) = 1 => e[1] \notin OneTableOnly
    BY <1>1, <2>1
  <2>3. Len(e) = 1 => SyncType(e[1]) = AsyncType(e[1])
    BY <2>2, TypesAlike
  <2>4. QED
    BY <1>2, <1>4, <2>3
<1>5. CASE e = <<>> /\ (Len(f) = 1 => f[1] = "/")
  <2>1. AsyncType("/") = OctetStream
    BY DEF AsyncType
  <2>2. Len(e) # 1
    BY <1>5
  <2>3. QED
    BY <1>2, <1>5, <2>1, <2>2
<1>6. QED
  BY <1>3, <1>4, <1>5

LEMMA FilesButForType == \A x, y, f : Untyped(File(x, f)) = Untyped(File(y, f))
<1> SUFFICES ASSUME NEW x, NEW y, NEW f PROVE Untyped(File(x, f)) = Untyped(File(y, f))
  OBVIOUS
<1>1. PICK c : c = CacheControl
  OBVIOUS
<1>2. ASSUME NEW z PROVE {h \in ContentType(z) \cup c : h[1] # "content-type"} = {h \in c : h[1] # "content-type"}
  BY DEF ContentType
<1>3. ASSUME NEW z PROVE Untyped(File(z, f)) = Answer(200, {h \in c : h[1] # "content-type"}, <<"file", f>>)
  BY <1>1, <1>2 DEF File, Untyped, Answer
<1>4. QED
  BY <1>3

(***************************************************************************)
(* What the invariant says of answers.                                     *)
(***************************************************************************)
\* What is left of an answer without its Content-Type.
LEMMA UntypedIs ==
    ASSUME NEW s, NEW hs, NEW b
    PROVE  Untyped(Answer(s, hs, b)) = Answer(s, {h \in hs : h[1] # "content-type"}, b)
BY DEF Untyped, Answer

\* Both servers send a map with a status that HTTP knows as it is, but for the
\* Content-Type that one adds.
LEMMA MapsAlike ==
    ASSUME NEW r, r.is = "map", StatusOf(r) \in 100..999
    PROVE  /\ Sent("async", r) = Answer(StatusOf(r), r.headers, r.body)
           /\ NamesType(r.headers) => Sent("sync", r) = Sent("async", r)
           /\ Untyped(Sent("sync", r)) = Untyped(Sent("async", r))
           /\ \A k \in Kinds : Sent(k, r).status = StatusOf(r)
<1> DEFINE s == StatusOf(r)
<1>1. Sent("async", r) = Answer(s, r.headers, r.body)
  BY DEF Sent, AsyncSent
<1>2. CASE NamesType(r.headers)
  <2>1. Sent("sync", r) = Answer(s, r.headers, r.body)
    BY <1>2 DEF Sent, SyncSent
  <2>2. QED
    BY <1>1, <2>1 DEF Kinds, Answer
<1>3. CASE ~NamesType(r.headers)
  <2>1. Sent("sync", r) = Answer(s, r.headers \cup DefaultType, r.body)
    BY <1>3 DEF Sent, SyncSent
  <2>2. \A h \in DefaultType : h[1] = "content-type"
    BY DEF DefaultType, ContentType
  <2>3. PICK hs, gs, n, b : hs = r.headers /\ gs = r.headers \cup DefaultType /\ n = s /\ b = r.body
    OBVIOUS
  <2>4. {h \in gs : h[1] # "content-type"} = {h \in hs : h[1] # "content-type"}
    BY <2>2, <2>3
  <2>5. Untyped(Answer(n, gs, b)) = Untyped(Answer(n, hs, b))
    <3>1. Untyped(Answer(n, gs, b)) = Answer(n, {h \in gs : h[1] # "content-type"}, b)
      BY UntypedIs
    <3>2. Untyped(Answer(n, hs, b)) = Answer(n, {h \in hs : h[1] # "content-type"}, b)
      BY UntypedIs
    <3>3. QED
      BY <2>4, <3>1, <3>2
  <2>6. Untyped(Sent("sync", r)) = Untyped(Sent("async", r))
    BY <1>1, <2>1, <2>3, <2>5
  <2>7. QED
    BY <1>1, <1>3, <2>1, <2>6 DEF Kinds, Answer
<1>4. QED
  BY <1>2, <1>3

LEMMA PlainNamesType == NamesType(PlainText)
BY DEF NamesType, PlainText, ContentType

\* A map by its status.
LEMMA MapIs ==
    ASSUME NEW n \in Nat, NEW hs, NEW b
    PROVE  /\ Map(n, hs, b).is = "map" /\ Map(n, hs, b).headers = hs /\ Map(n, hs, b).status = n
           /\ HasStatus(Map(n, hs, b)) /\ StatusOf(Map(n, hs, b)) = U16(n)
BY DEF Map, HasStatus, StatusOf

\* What handlers do but "echo" does not depend on the request; what each answers
\* is the same behind both servers, but for the exceptions.
LEMMA HandlersAnswer ==
    ASSUME NEW h \in Handlers, NEW v, NEW w
    PROVE  /\ h \notin {"echo", "precondition", "low", "text", "nostatus", "redirect"} =>
                Sent("sync", Response("sync", Outcome(h, v))) = Sent("async", Response("async", Outcome(h, w)))
           /\ h \in {"nostatus", "redirect"} =>
                Untyped(Sent("sync", Response("sync", Outcome(h, v))))
                  = Untyped(Sent("async", Response("async", Outcome(h, w))))
           /\ LET r == Outcome(h, v)
              IN r.is = "map" /\ HasStatus(r) /\ r.status \in 100..999 =>
                   \A k \in Kinds : Sent(k, Response(k, Outcome(h, w))).status = r.status
<1>1. h \in {"echo", "nostatus", "redirect", "text", "created", "wide", "low", "precondition", "postcondition", "failure"}
  BY HandlersAssumption
<1>2. ASSUME NEW n \in Nat, NEW hs, NEW b, NEW c, Outcome(h, v) = Map(n, hs, b), Outcome(h, w) = Map(n, hs, c),
             U16(n) \in 100..999, n \in 100..999 => U16(n) = n
      PROVE  /\ n \in 100..999 => \A k \in Kinds : Sent(k, Response(k, Outcome(h, w))).status = n
             /\ Outcome(h, v).status = n
             /\ b = c => /\ Untyped(Sent("sync", Response("sync", Outcome(h, v))))
                              = Untyped(Sent("async", Response("async", Outcome(h, w))))
                         /\ NamesType(hs) => Sent("sync", Response("sync", Outcome(h, v)))
                                                = Sent("async", Response("async", Outcome(h, w)))
  <2> DEFINE r == Map(n, hs, c)
  <2>1. /\ r.is = "map" /\ r.headers = hs /\ StatusOf(r) = U16(n) /\ Map(n, hs, b).is = "map"
        /\ Map(n, hs, b).status = n
    BY MapIs
  <2> HIDE DEF r
  <2>2. /\ NamesType(hs) => Sent("sync", r) = Sent("async", r)
        /\ Untyped(Sent("sync", r)) = Untyped(Sent("async", r))
        /\ \A k \in Kinds : Sent(k, r).status = U16(n)
    BY <1>2, <2>1, MapsAlike
  <2>3. \A k \in Kinds : Response(k, r) = r
    BY <2>1 DEF Response
  <2>4. Outcome(h, w) = r /\ (b = c => Outcome(h, v) = r)
    BY <1>2 DEF r
  <2>5. QED
    BY <1>2, <2>1, <2>2, <2>3, <2>4 DEF Kinds
<1>3. CASE h = "echo"
  <2>1. Outcome(h, v) = Map(200, PlainText, <<"request", v>>) /\ Outcome(h, w) = Map(200, PlainText, <<"request", w>>)
    BY <1>3 DEF Outcome
  <2>2. U16(200) = 200
    BY DEF U16
  <2>3. PICK hs, b, c : hs = PlainText /\ b = <<"request", v>> /\ c = <<"request", w>>
    OBVIOUS
  <2>4. Outcome(h, v) = Map(200, hs, b) /\ Outcome(h, w) = Map(200, hs, c)
    BY <2>1, <2>3
  <2>5. /\ \A k \in Kinds : Sent(k, Response(k, Outcome(h, w))).status = 200
        /\ Outcome(h, v).status = 200
    BY <1>2, <2>2, <2>4
  <2>6. QED
    BY <1>3, <2>5
<1>4. CASE h \in {"created", "wide"}
  <2>1. PICK n \in {201, 65736} : \A x \in {v, w} : Outcome(h, x) = Map(n, PlainText, Text("body"))
    <3>1. h = "created" => \A x \in {v, w} : Outcome(h, x) = Map(201, PlainText, Text("body"))
      BY DEF Outcome
    <3>2. h = "wide" => \A x \in {v, w} : Outcome(h, x) = Map(65536 + 200, PlainText, Text("body"))
      BY DEF Outcome
    <3>3. 65536 + 200 = 65736
      OBVIOUS
    <3>4. QED
      BY <1>4, <3>1, <3>2, <3>3
  <2>2. U16(n) \in 100..999 /\ (n \in 100..999 => U16(n) = n)
    BY DEF U16
  <2>3. PICK b, hs : b = Text("body") /\ hs = PlainText
    OBVIOUS
  <2>4. n \in Nat /\ Outcome(h, v) = Map(n, hs, b) /\ Outcome(h, w) = Map(n, hs, b)
    BY <2>1, <2>3
  <2>5. /\ n \in 100..999 => \A k \in Kinds : Sent(k, Response(k, Outcome(h, w))).status = n
        /\ Outcome(h, v).status = n
        /\ NamesType(hs) => Sent("sync", Response("sync", Outcome(h, v)))
                               = Sent("async", Response("async", Outcome(h, w)))
    BY <1>2, <2>2, <2>4
  <2>6. NamesType(hs)
    BY <2>3, PlainNamesType
  <2>7. QED
    BY <1>4, <2>5, <2>6
<1>5. CASE h = "redirect"
  <2>1. PICK hs : \A x \in {v, w} : Outcome(h, x) = Map(302, hs, NoBody)
    BY <1>5 DEF Outcome, Redirect
  <2>2. U16(302) = 302
    BY DEF U16
  <2>3. PICK b : b = NoBody
    OBVIOUS
  <2>4. Outcome(h, v) = Map(302, hs, b) /\ Outcome(h, w) = Map(302, hs, b)
    BY <2>1, <2>3
  <2>5. /\ \A k \in Kinds : Sent(k, Response(k, Outcome(h, w))).status = 302
        /\ Outcome(h, v).status = 302
        /\ Untyped(Sent("sync", Response("sync", Outcome(h, v))))
              = Untyped(Sent("async", Response("async", Outcome(h, w))))
    BY <1>2, <2>2, <2>4
  <2>6. QED
    BY <1>5, <2>5
<1>6. CASE h = "low"
  <2>1. Outcome(h, v) = Map(5, PlainText, Text("body"))
    BY <1>6 DEF Outcome
  <2>2. Outcome(h, v).status = 5
    BY <2>1, MapIs
  <2>3. QED
    BY <1>6, <2>2
<1>7. CASE h = "nostatus"
  <2>1. PICK r : r = NoStatus(Text("body"))
    OBVIOUS
  <2>2. Outcome(h, v) = r /\ Outcome(h, w) = r
    BY <1>7, <2>1 DEF Outcome
  <2>3. r.is = "map" /\ ~HasStatus(r)
    BY <2>1 DEF HasStatus, NoStatus
  <2>4. StatusOf(r) = 200 /\ \A k \in Kinds : Response(k, r) = r
    BY <2>3 DEF StatusOf, Response
  <2>5. Untyped(Sent("sync", r)) = Untyped(Sent("async", r))
    BY <2>3, <2>4, MapsAlike
  <2>6. QED
    BY <1>7, <2>2, <2>3, <2>4, <2>5 DEF Kinds
<1>8. CASE h = "text"
  <2>1. Outcome(h, v) = [is |-> "other"]
    BY <1>8 DEF Outcome
  <2>2. QED
    BY <1>8, <2>1
<1>9. CASE h \in {"precondition", "postcondition", "failure"}
  <2>1. Outcome(h, v) = [is |-> "error", error |-> h] /\ Outcome(h, w) = Outcome(h, v)
    BY <1>9 DEF Outcome, Raised
  <2>2. PICK r : r = Map(500, PlainText, Text(h))
    OBVIOUS
  <2>3. h # "precondition" => \A k \in Kinds : Response(k, Outcome(h, v)) = r
    BY <2>1, <2>2 DEF Response, SyncError, AsyncError, ErrorResponse, Kinds
  <2>4. r.is = "map" /\ r.headers = PlainText /\ StatusOf(r) = U16(500) /\ U16(500) = 500
    BY <2>2, MapIs DEF U16
  <2>5. Sent("sync", r) = Sent("async", r)
    BY <2>4, MapsAlike, PlainNamesType
  <2>6. QED
    BY <1>9, <2>1, <2>3, <2>5 DEF Kinds
<1>10. QED
  BY <1>1, <1>3, <1>4, <1>5, <1>6, <1>7, <1>8, <1>9

\* What middleware answers that lets nothing pass.
LEMMA HaltsAlike ==
    ASSUME NEW m
    PROVE  /\ m # "login" => Sent("sync", Halt(m)) = Sent("async", Halt(m))
           /\ Untyped(Sent("sync", Halt(m))) = Untyped(Sent("async", Halt(m)))
<1>1. PICK n, hs, b : n \in {302, 403, 500} /\ Halt(m) = Map(n, hs, b) /\ (m # "login" => hs = PlainText)
  BY DEF Halt, ErrorResponse, Redirect
<1>2. PICK r : r = Halt(m)
  OBVIOUS
<1>3. r.is = "map" /\ r.headers = hs /\ StatusOf(r) = U16(n)
  BY <1>1, <1>2, MapIs
<1>4. U16(n) \in 100..999
  BY <1>1 DEF U16
<1>5. QED
  BY <1>1, <1>2, <1>3, <1>4, MapsAlike, PlainNamesType

\* A server that refused a body called nothing.
LEMMA RefusedCallsNothing ==
    ASSUME IInv, NEW k \in Kinds, turn[k].at = "done", RouteOf # 0, Refuses(k)
    PROVE  turn[k].called = <<>> /\ OddBody
<1>1. turn[k] = IF k = "sync" THEN SyncTakes(request) ELSE AsyncTakes(request)
  BY DEF IInv, DoneInv
<1>2. \E a : turn[k] = Done(<<>>, a)
  BY <1>1 DEF SyncTakes, AsyncTakes, Refuses, RouteOf, Kinds
<1>3. QED
  BY <1>2 DEF Done, Refuses, OddBody, Kinds

\* What an answered request called: never nothing.
LEMMA CalledIs ==
    ASSUME IInv, NEW k \in Kinds, turn[k].at = "done", RouteOf # 0, ~Refuses(k)
    PROVE  /\ RoutedInv(k) /\ RouteOf \in DOMAIN routes /\ routes[RouteOf].handler \in Handlers
           /\ turn[k].called # <<>>
           /\ Stopping = {} => Last(turn[k].called) = routes[RouteOf].handler
           /\ Stopping # {} => /\ Min(Stopping) \in Stopping
                               /\ Last(turn[k].called) = middleware[Min(Stopping)]
<1>1. RoutedInv(k) /\ TypeInv
  BY DEF IInv, DoneInv
<1>2. RouteOf \in DOMAIN routes
  BY <1>1, FirstRoute DEF RouteOf
<1>3. routes[RouteOf].handler \in Handlers
  <2> DEFINE R == [method : Methods, pattern : Patterns, handler : Handlers]
  <2>1. routes \in Seq(R)
    BY <1>1 DEF TypeInv
  <2> HIDE DEF R
  <2>2. routes[RouteOf] \in R
    BY <1>2, <2>1
  <2>3. QED
    BY <2>2 DEF R
<1>4. middleware \in Seq(Middlewares) /\ Len(middleware) \in Nat /\ DOMAIN middleware = 1..Len(middleware)
  BY <1>1 DEF TypeInv
<1>5. CASE Stopping = {}
  <2> DEFINE h == routes[RouteOf].handler
             s == Append(middleware, h)
  <2>1. turn[k].called = s
    BY <1>1, <1>5 DEF RoutedInv
  <2>2. Len(s) = Len(middleware) + 1 /\ s[Len(middleware) + 1] = h
    BY <1>4
  <2>3. s # <<>>
    BY <1>4, <2>2
  <2>4. QED
    BY <1>1, <1>2, <1>3, <1>5, <2>1, <2>2, <2>3 DEF Last
<1>6. CASE Stopping # {}
  <2> DEFINE n == Min(Stopping)
  <2>1. Stopping \in SUBSET Nat /\ Stopping \subseteq 1..Len(middleware)
    BY <1>4 DEF Stopping
  <2>2. n \in Stopping /\ n \in 1..Len(middleware)
    BY <1>6, <2>1, LeastNumber
  <2> HIDE DEF n
  <2>3. n \in Nat /\ n # 0 /\ n \in 0..Len(middleware) /\ 1 <= n + 1
    BY <1>4, <2>2
  <2>4. Len(SubSeq(middleware, 1, n)) = n - 1 + 1 /\ \A i \in 1..(n - 1 + 1) : SubSeq(middleware, 1, n)[i] = middleware[1 + i - 1]
    BY <1>4, <2>3, Cut
  <2>5. Len(SubSeq(middleware, 1, n)) = n /\ SubSeq(middleware, 1, n)[n] = middleware[n]
    BY <2>3, <2>4
  <2>6. turn[k].called = SubSeq(middleware, 1, n)
    BY <1>1, <1>6 DEF RoutedInv, n
  <2>7. turn[k].called # <<>>
    BY <2>3, <2>5, <2>6
  <2>8. QED
    BY <1>1, <1>2, <1>3, <1>6, <2>2, <2>5, <2>6, <2>7 DEF Last, n
<1>7. QED
  BY <1>5, <1>6

LEMMA MiddlewareHolds == IInv => MiddlewareInOrder
<1> SUFFICES ASSUME IInv, NEW k \in Kinds, turn[k].at = "done", RouteOf # 0
             PROVE  \/ turn[k].called = <<>> /\ OddBody
                    \/ turn[k].called = IF Stopping = {} THEN Append(middleware, routes[RouteOf].handler)
                                        ELSE SubSeq(middleware, 1, Min(Stopping))
  BY DEF MiddlewareInOrder
<1>1. CASE Refuses(k)
  BY <1>1, RefusedCallsNothing
<1>2. CASE ~Refuses(k)
  BY <1>2 DEF IInv, DoneInv, RoutedInv
<1>3. QED
  BY <1>1, <1>2

LEMMA RegisteredHolds == IInv => RegisteredRouteAnswers
<1> SUFFICES ASSUME IInv, Asked, NEW i \in DOMAIN routes,
                    routes[i].method = request.method, routes[i].pattern = request.path
             PROVE  RouteOf \in 1..i /\ (OddBody \/ \A k \in Kinds : turn[k].called # <<>>)
  BY DEF RegisteredRouteAnswers
<1>1. Matches(request.path, routes[i].pattern)
  BY DEF Matches
<1>2. i \in Found(request)
  BY <1>1 DEF Found
<1>3. RouteOf \in 1..i
  BY <1>2, FirstRoute DEF RouteOf, IInv
<1>4. RouteOf # 0
  BY <1>3
<1>5. ASSUME ~OddBody, NEW k \in Kinds PROVE turn[k].called # <<>>
  BY <1>4, <1>5, CalledIs, RefusedCallsNothing DEF Asked
<1>6. QED
  BY <1>3, <1>5

LEMMA StatusHolds == IInv => StatusArrives
<1> SUFFICES ASSUME IInv, Asked, RouteOf # 0, ~OddBody, NEW k \in Kinds,
                    Last(turn[k].called) = routes[RouteOf].handler,
                    LET r == Outcome(routes[RouteOf].handler, request)
                    IN r.is = "map" /\ HasStatus(r) /\ r.status \in 100..999
             PROVE  turn[k].answer.status = Outcome(routes[RouteOf].handler, request).status
  BY DEF StatusArrives
<1> DEFINE h == routes[RouteOf].handler
<1>1. turn[k].at = "done" /\ ~Refuses(k)
  BY RefusedCallsNothing DEF Asked
<1>2. /\ RoutedInv(k) /\ h \in Handlers
      /\ Stopping # {} => Min(Stopping) \in Stopping /\ Last(turn[k].called) = middleware[Min(Stopping)]
  BY <1>1, CalledIs
<1>3. Stopping = {}
  <2>1. SUFFICES ASSUME Stopping # {} PROVE FALSE
    OBVIOUS
  <2>2. h \in Halting
    BY <1>2, <2>1 DEF Stopping, Halting
  <2>3. h = "failure"
    BY <1>2, <2>2, HandlersAssumption DEF Halting
  <2>4. Outcome(h, request) = [is |-> "error", error |-> h]
    BY <2>3 DEF Outcome, Raised
  <2>5. QED
    BY <2>4
<1>4. PICK v : turn[k].answer = Sent(k, Response(k, Outcome(h, v)))
  BY <1>2, <1>3 DEF RoutedInv
<1>5. PICK c, q : c = h /\ q = request
  OBVIOUS
<1>6. LET r == Outcome(c, q)
      IN r.is = "map" /\ HasStatus(r) /\ r.status \in 100..999 =>
           \A x \in Kinds : Sent(x, Response(x, Outcome(c, v))).status = r.status
  BY <1>2, <1>5, HandlersAnswer
<1>7. QED
  BY <1>4, <1>5, <1>6

LEMMA RoutesHold == IInv => RoutesAnswerAlike
<1> SUFFICES ASSUME IInv, Asked, RouteOf # 0, ~OddBody, ~Same, ~(SameButForType /\ NamesNoType)
             PROVE  /\ turn["sync"].called = turn["async"].called
                    /\ Last(turn["sync"].called) = routes[RouteOf].handler
                    /\ FailsItsPrecondition \/ OddStatus \/ NoResponse \/ ShowsRequest
  BY DEF RoutesAnswerAlike
<1> DEFINE h == routes[RouteOf].handler
           m == middleware[Min(Stopping)]
<1>1. ASSUME NEW k \in Kinds PROVE turn[k].at = "done" /\ ~Refuses(k)
  BY RefusedCallsNothing DEF Asked
<1>2. ASSUME NEW k \in Kinds
      PROVE  /\ RoutedInv(k) /\ h \in Handlers
             /\ Stopping = {} => Last(turn[k].called) = h
             /\ Stopping # {} => Last(turn[k].called) = m
  BY <1>1, CalledIs
<1>3. Stopping = {}
  <2>1. SUFFICES ASSUME Stopping # {} PROVE FALSE
    OBVIOUS
  <2>2. \A k \in Kinds : turn[k].answer = Sent(k, Halt(m)) /\ Last(turn[k].called) = m
    BY <1>2, <2>1 DEF RoutedInv
  <2>3. PICK c : c = m
    OBVIOUS
  <2>4. /\ c # "login" => Sent("sync", Halt(c)) = Sent("async", Halt(c))
        /\ Untyped(Sent("sync", Halt(c))) = Untyped(Sent("async", Halt(c)))
    BY HaltsAlike
  <2>5. /\ turn["sync"].answer = Sent("sync", Halt(c)) /\ turn["async"].answer = Sent("async", Halt(c))
        /\ Last(turn["sync"].called) = c
    BY <2>2, <2>3 DEF Kinds
  <2>6. QED
    BY <2>4, <2>5 DEF Same, SameButForType, NamesNoType
<1>4. \A k \in Kinds : turn[k].called = Append(middleware, h) /\ \E v : turn[k].answer = Sent(k, Response(k, Outcome(h, v)))
  BY <1>2, <1>3 DEF RoutedInv
<1>5. PICK v, w : turn["sync"].answer = Sent("sync", Response("sync", Outcome(h, v)))
                  /\ turn["async"].answer = Sent("async", Response("async", Outcome(h, w)))
  BY <1>4 DEF Kinds
<1>6. PICK c : c = h
  OBVIOUS
<1>7. c \in Handlers /\ Last(turn["sync"].called) = c
  BY <1>2, <1>3, <1>6 DEF Kinds
<1>8. /\ c \notin {"echo", "precondition", "low", "text", "nostatus", "redirect"} =>
            Sent("sync", Response("sync", Outcome(c, v))) = Sent("async", Response("async", Outcome(c, w)))
      /\ c \in {"nostatus", "redirect"} =>
            Untyped(Sent("sync", Response("sync", Outcome(c, v))))
              = Untyped(Sent("async", Response("async", Outcome(c, w))))
  BY <1>7, HandlersAnswer
<1>9. c \notin {"nostatus", "redirect"}
  BY <1>5, <1>6, <1>7, <1>8 DEF SameButForType, NamesNoType
<1>10. h \in {"echo", "precondition", "low", "text"}
  BY <1>5, <1>6, <1>8, <1>9 DEF Same
<1>11. QED
  BY <1>2, <1>3, <1>4, <1>10 DEF FailsItsPrecondition, OddStatus, NoResponse, ShowsRequest, Kinds

LEMMA FilesHold == IInv => StaticFilesAlike
<1> SUFFICES ASSUME IInv, Asked, RouteOf = 0, ~OddBody, NothingSpecial
             PROVE  Same \/ (SyncStatic(Path) # <<>> /\ TypedOtherwise /\ SameButForType)
  BY DEF StaticFilesAlike, NothingSpecial
<1>1. turn["sync"] = SyncTakes(request) /\ turn["async"] = AsyncTakes(request) /\ request \in Requests
  BY DEF IInv, DoneInv, Asked, Kinds
<1>2. \/ SyncStatic(Path) = <<>> /\ AsyncStatic(Path) = <<>>
      \/ \E dir : \E rest \in Seq({Path[i] : i \in DOMAIN Path}) :
            /\ SyncStatic(Path) = <<dir, rest>>
            /\ AsyncStatic(Path) = IF <<dir, rest>> \in Files THEN <<dir, rest>> ELSE <<>>
  BY <1>1, SameFile DEF IInv
<1>3. request.body # "binary" /\ FindRoute(request) = 0 /\ Path = request.path
  BY DEF OddBody, RouteOf, Path
<1>4. CASE SyncStatic(Path) = <<>> /\ AsyncStatic(Path) = <<>>
  BY <1>1, <1>3, <1>4 DEF SyncTakes, AsyncTakes, Same
<1>5. ASSUME NEW dir, NEW rest \in Seq({Path[i] : i \in DOMAIN Path}), SyncStatic(Path) = <<dir, rest>>,
             AsyncStatic(Path) = IF <<dir, rest>> \in Files THEN <<dir, rest>> ELSE <<>>
      PROVE  Same \/ (SyncStatic(Path) # <<>> /\ TypedOtherwise /\ SameButForType)
  <2>1. PICK f : f = <<dir, rest>>
    OBVIOUS
  <2>2. f # <<>> /\ f[2] = rest
    BY <2>1
  <2>3. CASE request.method # "GET" \/ f \notin Files
    <3>1. SyncTakes(request) = Done(<<>>, NotFound) /\ AsyncTakes(request) = Done(<<>>, NotFound)
      BY <1>3, <1>5, <2>1, <2>2, <2>3 DEF SyncTakes, AsyncTakes
    <3>2. QED
      BY <1>1, <3>1 DEF Same
  <2>4. CASE request.method = "GET" /\ f \in Files
    <3>1. PICK x, y : x = SyncMime(rest) /\ y = AsyncMime(rest)
      OBVIOUS
    <3>2. SyncTakes(request) = Done(<<>>, File(x, f)) /\ AsyncTakes(request) = Done(<<>>, File(y, f))
      BY <1>3, <1>5, <2>1, <2>2, <2>4, <3>1 DEF SyncTakes, AsyncTakes
    <3>3. turn["sync"].answer = File(x, f) /\ turn["async"].answer = File(y, f)
      BY <1>1, <3>2 DEF Done
    <3>4. CASE TypedOtherwise
      <4>1. Untyped(File(x, f)) = Untyped(File(y, f))
        BY FilesButForType
      <4>2. QED
        BY <1>5, <2>1, <2>2, <3>3, <3>4, <4>1 DEF SameButForType
    <3>5. CASE ~TypedOtherwise
      <4>1. ~Hidden(FileName(rest)) /\ \A z \in OneTableOnly : Extension(FileName(rest)) # <<z>>
        BY <1>5, <3>5 DEF TypedOtherwise
      <4>2. x = y
        BY <1>5, <3>1, <4>1, MimesAlike
      <4>3. QED
        BY <3>3, <4>2 DEF Same
    <3>6. QED
      BY <3>4, <3>5
  <2>5. QED
    BY <2>3, <2>4
<1>6. QED
  BY <1>2, <1>4, <1>5

LEMMA RequestsHold == RequestsLookAlike
BY DEF RequestsLookAlike, SyncValue, AsyncValue

(* Types are kept. (ServerState.)                                           *)
THEOREM TypeCorrect == Spec => []TypeInv
<1>1. IInv => TypeInv
  BY DEF IInv
<1>2. QED
  BY <1>1, Invariance, PTL

(* Whatever the program registers and the client asks, what it registered   *)
(* decides: the first route that matches, behind its middleware in order,   *)
(* in both servers, and its status arrives. (run_http_server,               *)
(* run_async_http_server.)                                                  *)
THEOREM RoutesDispatchInOrder == Spec => []DispatchInOrder
<1>1. IInv => DispatchInOrder
  BY MiddlewareHolds, RegisteredHolds, StatusHolds DEF DispatchInOrder
<1>2. QED
  BY <1>1, Invariance, PTL

(* Production does what the tests saw, for every program, path and set of   *)
(* static directories, but for the differences that the property names.     *)
(* (find_route, find_static_file, send_response, bridge_to_axum_response.)  *)
THEOREM ProductionDoesWhatTestsSaw == Spec => []AnsweredAlike
<1>1. IInv => AnsweredAlike
  BY RoutesHold, FilesHold, RequestsHold DEF AnsweredAlike
<1>2. QED
  BY <1>1, Invariance, PTL
=============================================================================
