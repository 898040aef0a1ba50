--------------------------- MODULE RouteFiles_proofs ---------------------------
(***************************************************************************)
(* The safety properties of file-based routes, proved for any route files, *)
(* any methods and any number of edits.                                    *)
(***************************************************************************)
EXTENDS RouteFilesProps, TLAPS

(***************************************************************************)
(* The inductive invariant, part by part.                                  *)
(***************************************************************************)
Finding == {"find", "read", "eval", "record", "call"}

\* What is recorded of a file is no later than the file.
TimeInv ==
    /\ \A s \in Sources : disk[s].at <= clock
    /\ mainSeen <= disk["main"].at
    /\ \A s \in DOMAIN imported : imported[s] <= disk[s].at
    /\ \A k \in DOMAIN routes : routes[k].seen <= disk[k[1]].at /\ routes[k].libSeen <= disk["shared"].at

\* A request in service has no answer, and a route once it was found; the
\* sources of an undisturbed one are sound.
RequestInv ==
    /\ pc # "recv" => request \in Keys /\ answer = None
    /\ pc \in {"read", "eval", "record", "call"} => request \in DOMAIN routes
    /\ steady => Sound

\* The async server knows no route the interpreter has not, until a failed
\* reload of the main file leaves the interpreter none.
KnownInv == known \subseteq DOMAIN routes \/ routes = <<>>

\* A handler that was reloaded undisturbed and whose files are no newer was made
\* from them.
Stale(k) == routes[k].code # disk[k[1]].at \/ routes[k].lib # disk["shared"].at
RoutesInv == \A k \in DOMAIN routes : Stale(k) => k \in raced \/ NeedsReload(k)

\* A reload under way: it is needed, and what it read is on disk unless a file
\* was edited since.
ReadInv ==
    /\ pc \in {"read", "eval"} => NeedsReload(request)
    /\ pc \in {"eval", "record"} =>
         /\ source \in Contents(request[1])
         /\ request \notin raced => source = disk[request[1]]
    /\ pc = "record" => /\ libRead <= disk["shared"].at
                        /\ request \notin raced => libRead = disk["shared"].at

\* An undisturbed request calls a handler that needs no reload, unless its file
\* has none any more.
CallInv ==
    pc = "call" /\ steady /\ request \notin raced /\ request[2] \in disk[request[1]].methods =>
        ~NeedsReload(request)

\* As long as no route file failed in evaluation and there are routes, the times
\* recorded of the main program are those it was loaded at.
MainInv ==
    /\ mainSeen = program.main
    /\ ~broke /\ routes # <<>> => "own" \in DOMAIN imported /\ imported["own"] = program.own
    /\ pc \in Finding /\ steady /\ ~broke /\ routes # <<>> =>
         program.main = disk["main"].at /\ program.own = disk["own"].at

IInv == TypeOK /\ TimeInv /\ RequestInv /\ KnownInv /\ RoutesInv /\ ReadInv /\ CallInv /\ MainInv
        /\ RunsRouteOnDisk /\ AllOrNothing

(***************************************************************************)
(* Times are numbers.                                                      *)
(***************************************************************************)
LEMMA Numbers ==
    ASSUME TypeOK
    PROVE  /\ Times \subseteq Nat /\ clock \in Nat /\ mainSeen \in Nat
           /\ \A s \in Sources : disk[s].at \in Times /\ disk[s].fault \in {"ok", "parse", "eval"}
           /\ \A s \in DOMAIN imported : imported[s] \in Times /\ s \in Sources
           /\ \A k \in Keys : k[1] \in Files /\ k[1] \in Sources /\ k[2] \in Methods
           /\ \A k \in DOMAIN routes : /\ k \in Keys
                                       /\ routes[k].code \in Times /\ routes[k].lib \in Times
                                       /\ routes[k].seen \in Times /\ routes[k].libSeen \in Times
           /\ "shared" \in Sources /\ "main" \in Sources /\ "own" \in Sources
<1>1. Times \subseteq Nat
  BY MaxEditsAssumption DEF Times
<1>2. ASSUME NEW s \in Sources
      PROVE  disk[s].at \in Times /\ disk[s].fault \in {"ok", "parse", "eval"}
  <2>1. disk[s] \in Contents(s) /\ Faults(s) \subseteq {"ok", "parse", "eval"}
    BY DEF TypeOK, Faults
  <2>2. QED
    BY <2>1 DEF Contents
<1>3. "shared" \in Sources /\ "main" \in Sources /\ "own" \in Sources
  BY DEF Sources
<1>4. \A k \in Keys : k[1] \in Files /\ k[1] \in Sources /\ k[2] \in Methods
  BY DEF Keys, Sources
<1>5. QED
  BY <1>1, <1>2, <1>3, <1>4 DEF TypeOK, Handlers

LEMMA LoadedRoutesAreNew ==
    ASSUME TypeOK
    PROVE  /\ DOMAIN LoadedRoutes \subseteq Keys
           /\ \A k \in DOMAIN LoadedRoutes :
                /\ LoadedRoutes[k] \in Handlers
                /\ LoadedRoutes[k].code = disk[k[1]].at /\ LoadedRoutes[k].seen = disk[k[1]].at
                /\ LoadedRoutes[k].lib = disk["shared"].at /\ LoadedRoutes[k].libSeen = disk["shared"].at
<1>1. DOMAIN LoadedRoutes = {k \in Keys : k[2] \in disk[k[1]].methods}
  BY DEF LoadedRoutes
<1>2. ASSUME NEW k \in DOMAIN LoadedRoutes
      PROVE  LoadedRoutes[k] = [code |-> disk[k[1]].at, lib |-> disk["shared"].at,
                                seen |-> disk[k[1]].at, libSeen |-> disk["shared"].at]
  BY <1>1 DEF LoadedRoutes
<1>3. ASSUME NEW k \in DOMAIN LoadedRoutes
      PROVE  disk[k[1]].at \in Times /\ disk["shared"].at \in Times
  BY <1>1, Numbers
<1>4. QED
  BY <1>1, <1>2, <1>3 DEF Handlers

LEMMA InitHolds == Init => IInv
<1> SUFFICES ASSUME Init PROVE IInv
  OBVIOUS
<1> USE DEF Init
<1>1. 0 \in Times
  BY MaxEditsAssumption DEF Times
<1>2. /\ DOMAIN disk = Sources
      /\ \A s \in Sources : disk[s] \in Contents(s) /\ disk[s].at = 0 /\ disk[s].fault = "ok"
  OBVIOUS
<1>3. DOMAIN LoadedRoutes = {k \in Keys : k[2] \in disk[k[1]].methods}
  BY DEF LoadedRoutes
<1>4. "shared" \in Sources /\ "main" \in Sources /\ "own" \in Sources /\ \A k \in Keys : k[1] \in Sources
  BY DEF Sources, Keys
<1>5. \A k \in DOMAIN LoadedRoutes : LoadedRoutes[k] = [code |-> 0, lib |-> 0, seen |-> 0, libSeen |-> 0]
  BY <1>2, <1>3, <1>4 DEF LoadedRoutes
<1>6. DOMAIN imported = {"own"} /\ imported["own"] = 0
  BY DEF Tracking
<1>7. TypeOK
  <2>1. DOMAIN routes \subseteq Keys /\ \A k \in DOMAIN routes : routes[k] \in Handlers
    BY <1>1, <1>3, <1>5 DEF Handlers
  <2>2. program \in [main : Times, own : Times]
    BY <1>1
  <2>3. QED
    BY <1>1, <1>2, <1>3, <1>6, <2>1, <2>2 DEF TypeOK
<1>8. TimeInv
  BY <1>2, <1>4, <1>3, <1>5, <1>6 DEF TimeInv
<1>9. RequestInv /\ KnownInv /\ ReadInv /\ CallInv
  BY DEF RequestInv, KnownInv, ReadInv, CallInv
<1>10. RoutesInv
  BY <1>2, <1>3, <1>4, <1>5 DEF RoutesInv, Stale
<1>11. MainInv
  BY <1>6 DEF MainInv, Finding
<1>12. RunsRouteOnDisk /\ AllOrNothing
  BY NotFoundAssumption DEF RunsRouteOnDisk, SteadyAnswer, AllOrNothing
<1> QED
  BY <1>7, <1>8, <1>9, <1>10, <1>11, <1>12 DEF IInv

(***************************************************************************)
(* A file is edited: the request in service is disturbed, and every        *)
(* handler made from the file needs a reload.                              *)
(***************************************************************************)
LEMMA EditStep == ASSUME NEW s \in Sources PROVE IInv /\ Edit(s) => IInv'
<1> SUFFICES ASSUME IInv, Edit(s) PROVE IInv'
  OBVIOUS
<1> USE DEF mainVars, readVars
<1>1. TypeOK
  BY DEF IInv
<1>2. PICK c \in Contents(s) : c.at = clock + 1 /\ disk' = [disk EXCEPT ![s] = c]
  BY DEF Edit
<1>3. /\ clock < MaxEdits /\ clock' = clock + 1 /\ steady' = FALSE
      /\ raced' = IF pc \in {"eval", "record"} THEN raced \cup {request} ELSE raced
      /\ UNCHANGED <<program, mainSeen, imported, routes, known, pc, request, source, libRead, answer, broke>>
  BY DEF Edit
<1>4. /\ DOMAIN disk = Sources /\ DOMAIN disk' = Sources
      /\ disk'[s] = c /\ \A t \in Sources : t # s => disk'[t] = disk[t]
  BY <1>1, <1>2 DEF TypeOK
<1>5. clock \in Nat /\ clock + 1 \in Times
  BY <1>1, <1>3, MaxEditsAssumption DEF TypeOK, Times
<1>6. \A t \in Sources : /\ disk'[t].at = clock + 1 \/ disk'[t] = disk[t]
                         /\ disk[t].at \in Nat /\ disk[t].at <= clock
  BY <1>1, <1>2, <1>4, Numbers DEF IInv, TimeInv
<1>7. TypeOK'
  <2>1. \A t \in Sources : disk'[t] \in Contents(t)
    BY <1>1, <1>4 DEF TypeOK
  <2>2. raced' \subseteq Keys
    BY <1>1, <1>3 DEF IInv, RequestInv, TypeOK
  <2>3. QED
    BY <1>1, <1>3, <1>4, <1>5, <2>1, <2>2 DEF TypeOK
<1>8. TimeInv'
  <2>1. \A k \in DOMAIN routes : k[1] \in Sources /\ routes[k].seen \in Nat /\ routes[k].libSeen \in Nat
    BY <1>1, Numbers
  <2>2. \A t \in DOMAIN imported : t \in Sources /\ imported[t] \in Nat
    BY <1>1, Numbers
  <2>3. mainSeen \in Nat /\ "main" \in Sources /\ "shared" \in Sources
    BY <1>1, Numbers
  <2>4. \A t \in Sources : disk[t].at <= disk'[t].at /\ disk'[t].at \in Nat /\ disk'[t].at <= clock + 1
    BY <1>5, <1>6
  <2>5. mainSeen <= disk'["main"].at
    BY <1>6, <2>3, <2>4 DEF IInv, TimeInv
  <2>6. \A t \in DOMAIN imported : imported[t] <= disk'[t].at
    BY <1>6, <2>2, <2>4 DEF IInv, TimeInv
  <2>7. \A k \in DOMAIN routes : routes[k].seen <= disk'[k[1]].at /\ routes[k].libSeen <= disk'["shared"].at
    BY <1>6, <2>1, <2>3, <2>4 DEF IInv, TimeInv
  <2>8. QED
    BY <1>3, <2>4, <2>5, <2>6, <2>7 DEF TimeInv
<1>9. RequestInv' /\ KnownInv' /\ CallInv'
  BY <1>3 DEF IInv, RequestInv, KnownInv, CallInv
<1>10. \A k \in DOMAIN routes :
         /\ NeedsReload(k) => NeedsReload(k)'
         /\ ~NeedsReload(k)' => disk'[k[1]] = disk[k[1]] /\ disk'["shared"] = disk["shared"]
  <2> SUFFICES ASSUME NEW k \in DOMAIN routes
               PROVE  /\ NeedsReload(k) => NeedsReload(k)'
                      /\ ~NeedsReload(k)' => disk'[k[1]] = disk[k[1]] /\ disk'["shared"] = disk["shared"]
    OBVIOUS
  <2>1. /\ k[1] \in Sources /\ "shared" \in Sources
        /\ routes[k].seen \in Nat /\ routes[k].libSeen \in Nat
        /\ routes[k].seen <= disk[k[1]].at /\ routes[k].libSeen <= disk["shared"].at
    BY <1>1, Numbers DEF IInv, TimeInv
  <2>2. \A t \in Sources : disk'[t] = disk[t] \/ (disk'[t].at > disk[t].at /\ disk'[t].at > clock /\ disk'[t].at \in Nat)
    BY <1>5, <1>6
  <2>3. QED
    BY <1>3, <1>5, <1>6, <2>1, <2>2 DEF NeedsReload
<1>11. RoutesInv'
  <2> SUFFICES ASSUME NEW k \in DOMAIN routes, Stale(k)', ~NeedsReload(k)'
               PROVE  k \in raced'
    BY <1>3 DEF RoutesInv
  <2>1. Stale(k)
    BY <1>3, <1>10 DEF Stale
  <2>2. ~NeedsReload(k)
    BY <1>10
  <2>3. k \in raced
    BY <2>1, <2>2 DEF IInv, RoutesInv
  <2>4. QED
    BY <1>3, <2>3
<1>12. ReadInv'
  <2>1. pc \in {"read", "eval"} => NeedsReload(request)'
    BY <1>3, <1>10 DEF IInv, ReadInv, RequestInv
  <2>2. pc \in {"eval", "record"} => source \in Contents(request[1]) /\ request \in raced'
    BY <1>3 DEF IInv, ReadInv
  <2>3. pc = "record" => libRead <= disk'["shared"].at
    <3>1. "shared" \in Sources /\ libRead \in Nat
      BY <1>1, Numbers DEF TypeOK
    <3>2. disk["shared"].at <= disk'["shared"].at /\ disk["shared"].at \in Nat /\ disk'["shared"].at \in Nat
      BY <1>5, <1>6, <3>1
    <3>3. QED
      BY <3>1, <3>2 DEF IInv, ReadInv
  <2>4. QED
    BY <1>3, <2>1, <2>2, <2>3 DEF ReadInv, Contents, Faults
<1>13. MainInv'
  BY <1>3 DEF IInv, MainInv
<1>14. RunsRouteOnDisk' /\ AllOrNothing'
  BY <1>3 DEF IInv, RunsRouteOnDisk, SteadyAnswer, AllOrNothing
<1> QED
  BY <1>7, <1>8, <1>9, <1>11, <1>12, <1>13, <1>14 DEF IInv

(***************************************************************************)
(* The check of the main file.                                             *)
(***************************************************************************)
LEMMA ReceiveStep == IInv /\ Receive => IInv'
<1> SUFFICES ASSUME IInv, Receive PROVE IInv'
  OBVIOUS
<1> USE DEF fileVars, mainVars, readVars
<1>1. /\ pc = "recv" /\ pc' = "main" /\ answer' = None /\ steady' = Sound
      /\ request' \in known
      /\ UNCHANGED <<clock, disk, program, mainSeen, imported, routes, known, source, libRead, raced, broke>>
  BY DEF Receive
<1>2. TypeOK'
  BY <1>1 DEF IInv, TypeOK, Sound
<1>3. RequestInv'
  BY <1>1 DEF IInv, TypeOK, RequestInv, Sound
<1>4. TimeInv' /\ KnownInv' /\ RoutesInv' /\ ReadInv' /\ CallInv' /\ MainInv'
  BY <1>1 DEF IInv, TimeInv, KnownInv, RoutesInv, ReadInv, CallInv, MainInv, Stale, NeedsReload, Finding
<1>5. RunsRouteOnDisk' /\ AllOrNothing'
  BY <1>1, NotFoundAssumption DEF RunsRouteOnDisk, SteadyAnswer, AllOrNothing
<1> QED
  BY <1>2, <1>3, <1>4, <1>5 DEF IInv

LEMMA MainUnchangedStep == IInv /\ MainUnchanged => IInv'
<1> SUFFICES ASSUME IInv, MainUnchanged PROVE IInv'
  OBVIOUS
<1> USE DEF fileVars, mainVars, readVars
<1>1. /\ pc = "main" /\ pc' = "find" /\ MainIsCurrent
      /\ UNCHANGED <<clock, disk, program, mainSeen, imported, routes, known, request, source, libRead,
                     answer, steady, raced, broke>>
  BY DEF MainUnchanged
<1>2. TypeOK'
  BY <1>1 DEF IInv, TypeOK
<1>3. RequestInv'
  BY <1>1 DEF IInv, RequestInv, Sound
<1>4. TimeInv' /\ KnownInv' /\ RoutesInv' /\ ReadInv' /\ CallInv'
  BY <1>1 DEF IInv, TimeInv, KnownInv, RoutesInv, ReadInv, CallInv, Stale, NeedsReload
<1>5. MainInv'
  <2>1. mainSeen = disk["main"].at
    BY <1>1, Numbers DEF IInv, TimeInv, MainIsCurrent
  <2>2. "own" \in DOMAIN imported => imported["own"] = disk["own"].at
    BY <1>1, Numbers DEF IInv, TimeInv, MainIsCurrent
  <2>3. QED
    BY <1>1, <2>1, <2>2 DEF IInv, MainInv
<1>6. RunsRouteOnDisk' /\ AllOrNothing'
  BY <1>1 DEF IInv, RunsRouteOnDisk, SteadyAnswer, AllOrNothing
<1> QED
  BY <1>2, <1>3, <1>4, <1>5, <1>6 DEF IInv

LEMMA MainReloadedStep == IInv /\ MainReloaded => IInv'
<1> SUFFICES ASSUME IInv, MainReloaded PROVE IInv'
  OBVIOUS
<1> USE DEF fileVars, mainVars, readVars
<1>1. /\ pc = "main" /\ pc' = "find"
      /\ program' = [main |-> disk["main"].at, own |-> disk["own"].at]
      /\ mainSeen' = disk["main"].at /\ imported' = Tracking("own", disk["own"].at)
      /\ routes' = LoadedRoutes /\ known' = DOMAIN LoadedRoutes /\ raced' = {} /\ broke' = FALSE
      /\ UNCHANGED <<clock, disk, request, source, libRead, answer, steady>>
  BY DEF MainReloaded
<1>2. TypeOK
  BY DEF IInv
<1>3. /\ disk["main"].at \in Times /\ disk["own"].at \in Times /\ Times \subseteq Nat
      /\ \A s \in Sources : disk[s].at \in Times
  BY <1>2, Numbers
<1>4. DOMAIN imported' = {"own"} /\ imported'["own"] = disk["own"].at
  BY <1>1 DEF Tracking
<1>5. TypeOK'
  BY <1>1, <1>2, <1>3, <1>4, LoadedRoutesAreNew DEF TypeOK
<1>6. TimeInv'
  <2>1. \A k \in DOMAIN routes' : routes'[k].seen <= disk[k[1]].at /\ routes'[k].libSeen <= disk["shared"].at
    <3> SUFFICES ASSUME NEW k \in DOMAIN LoadedRoutes
                 PROVE  LoadedRoutes[k].seen <= disk[k[1]].at /\ LoadedRoutes[k].libSeen <= disk["shared"].at
      BY <1>1
    <3>1. k \in Keys /\ k[1] \in Sources /\ "shared" \in Sources
      BY <1>2, LoadedRoutesAreNew, Numbers
    <3>2. disk[k[1]].at \in Nat /\ disk["shared"].at \in Nat
      BY <1>3, <3>1
    <3>3. QED
      BY <1>2, <3>2, LoadedRoutesAreNew
  <2>2. mainSeen' <= disk["main"].at /\ \A s \in DOMAIN imported' : imported'[s] <= disk[s].at
    <3>1. disk["main"].at \in Nat /\ disk["own"].at \in Nat
      BY <1>3
    <3>2. QED
      BY <1>1, <1>4, <3>1
  <2>3. QED
    BY <1>1, <2>1, <2>2 DEF IInv, TimeInv
<1>7. RequestInv' /\ KnownInv'
  BY <1>1 DEF IInv, RequestInv, KnownInv, Sound
<1>8. RoutesInv'
  BY <1>1, <1>2, LoadedRoutesAreNew DEF RoutesInv, Stale
<1>9. ReadInv' /\ CallInv'
  BY <1>1 DEF ReadInv, CallInv
<1>10. MainInv'
  BY <1>1, <1>4 DEF MainInv
<1>11. RunsRouteOnDisk' /\ AllOrNothing'
  BY <1>1, NotFoundAssumption DEF IInv, RequestInv, RunsRouteOnDisk, SteadyAnswer, AllOrNothing
<1> QED
  BY <1>5, <1>6, <1>7, <1>8, <1>9, <1>10, <1>11 DEF IInv

\* The times left behind are those of the files.
LEMMA LeftoversAreTimes ==
    ASSUME TypeOK, NEW m \in Leftovers
    PROVE  /\ DOMAIN m \subseteq {"own", "shared"}
           /\ \A s \in DOMAIN m : m[s] \in Times /\ m[s] = disk[s].at
<1>1. DOMAIN <<>> = {}
  OBVIOUS
<1>2. m = <<>> \/ m = Tracking("shared", disk["shared"].at)
  BY DEF Leftovers
<1>3. QED
  BY <1>1, <1>2, Numbers DEF Tracking

LEMMA MainReloadFailsStep == IInv /\ MainReloadFails => IInv'
<1> SUFFICES ASSUME IInv, MainReloadFails PROVE IInv'
  OBVIOUS
<1> USE DEF fileVars, mainVars, readVars
<1>1. /\ pc = "main" /\ pc' = "find" /\ routes' = <<>>
      /\ UNCHANGED <<clock, disk, program, mainSeen, known, request, source, libRead, answer, steady, raced>>
  BY DEF MainReloadFails
<1>2. \/ imported' = Tracking("own", disk["own"].at) /\ broke' = broke
      \/ imported' \in Leftovers /\ broke' = TRUE
  BY DEF MainReloadFails
<1>3. TypeOK /\ Times \subseteq Nat
  BY Numbers DEF IInv
<1>4. DOMAIN routes' = {}
  BY <1>1
<1>5. /\ DOMAIN imported' \subseteq {"own", "shared"}
      /\ \A s \in DOMAIN imported' : imported'[s] \in Times /\ imported'[s] = disk[s].at
  BY <1>2, <1>3, LeftoversAreTimes, Numbers DEF Tracking
<1>6. TypeOK'
  BY <1>1, <1>2, <1>3, <1>4, <1>5 DEF TypeOK
<1>7. TimeInv'
  <2>1. \A s \in DOMAIN imported' : imported'[s] <= disk[s].at
    <3> SUFFICES ASSUME NEW s \in DOMAIN imported' PROVE imported'[s] <= disk[s].at
      OBVIOUS
    <3>1. imported'[s] \in Nat /\ imported'[s] = disk[s].at
      BY <1>3, <1>5
    <3>2. QED
      BY <3>1
  <2>2. QED
    BY <1>1, <1>4, <2>1 DEF IInv, TimeInv
<1>8. RequestInv' /\ KnownInv' /\ ReadInv' /\ CallInv' /\ MainInv'
  BY <1>1 DEF IInv, RequestInv, KnownInv, ReadInv, CallInv, MainInv, Sound
<1>9. RoutesInv'
  BY <1>4 DEF RoutesInv
<1>10. RunsRouteOnDisk' /\ AllOrNothing'
  BY <1>1 DEF RunsRouteOnDisk, SteadyAnswer, AllOrNothing
<1> QED
  BY <1>6, <1>7, <1>8, <1>9, <1>10 DEF IInv

(***************************************************************************)
(* The route is looked up.                                                 *)
(***************************************************************************)
LEMMA RouteMissingStep == IInv /\ RouteMissing => IInv'
<1> SUFFICES ASSUME IInv, RouteMissing PROVE IInv'
  OBVIOUS
<1> USE DEF fileVars, mainVars, readVars
<1>1. /\ pc = "find" /\ pc' = "recv" /\ request \notin DOMAIN routes /\ answer' = NotFound
      /\ UNCHANGED <<clock, disk, program, mainSeen, imported, routes, known, request, source, libRead,
                     steady, raced, broke>>
  BY DEF RouteMissing
<1>2. TypeOK'
  BY <1>1 DEF IInv, TypeOK
<1>3. RequestInv'
  BY <1>1 DEF IInv, RequestInv, Sound
<1>4. TimeInv' /\ KnownInv' /\ RoutesInv' /\ ReadInv' /\ CallInv' /\ MainInv'
  BY <1>1 DEF IInv, TimeInv, KnownInv, RoutesInv, ReadInv, CallInv, MainInv, Stale, NeedsReload, Finding
<1>5. RunsRouteOnDisk'
  BY <1>1, NotFoundAssumption DEF RunsRouteOnDisk, SteadyAnswer
<1>6. AllOrNothing'
  BY <1>1 DEF IInv, KnownInv, AllOrNothing
<1> QED
  BY <1>2, <1>3, <1>4, <1>5, <1>6 DEF IInv

LEMMA RouteFoundStep == IInv /\ RouteFound => IInv'
<1> SUFFICES ASSUME IInv, RouteFound PROVE IInv'
  OBVIOUS
<1> USE DEF fileVars, mainVars, readVars
<1>1. /\ pc = "find" /\ pc' = (IF NeedsReload(request) THEN "read" ELSE "call") /\ request \in DOMAIN routes
      /\ UNCHANGED <<clock, disk, program, mainSeen, imported, routes, known, request, source, libRead,
                     answer, steady, raced, broke>>
  BY DEF RouteFound
<1>2. TypeOK'
  BY <1>1 DEF IInv, TypeOK
<1>3. RequestInv' /\ NeedsReload(request)' = NeedsReload(request)
  BY <1>1 DEF IInv, RequestInv, Sound, NeedsReload
<1>4. ReadInv' /\ CallInv'
  BY <1>1, <1>3 DEF ReadInv, CallInv
<1>5. TimeInv' /\ KnownInv' /\ RoutesInv' /\ MainInv'
  BY <1>1 DEF IInv, TimeInv, KnownInv, RoutesInv, MainInv, Stale, NeedsReload, Finding
<1>6. RunsRouteOnDisk' /\ AllOrNothing'
  BY <1>1 DEF IInv, RunsRouteOnDisk, SteadyAnswer, AllOrNothing
<1> QED
  BY <1>2, <1>3, <1>4, <1>5, <1>6 DEF IInv

(***************************************************************************)
(* The route is reloaded.                                                  *)
(***************************************************************************)
LEMMA ReadRouteFileStep == IInv /\ ReadRouteFile => IInv'
<1> SUFFICES ASSUME IInv, ReadRouteFile PROVE IInv'
  OBVIOUS
<1> USE DEF fileVars, mainVars, readVars
<1>1. /\ pc = "read"
      /\ \/ pc' = "call" /\ disk[request[1]].fault = "parse" /\ UNCHANGED <<source, raced>>
         \/ pc' = "eval" /\ source' = disk[request[1]] /\ raced' = raced \ {request}
      /\ UNCHANGED <<clock, disk, program, mainSeen, imported, routes, known, request, libRead, answer,
                     steady, broke>>
  BY DEF ReadRouteFile
<1>2. /\ request \in Keys /\ request[1] \in Files /\ request[1] \in Sources
      /\ request \in DOMAIN routes /\ NeedsReload(request)
      /\ disk[request[1]] \in Contents(request[1])
  BY <1>1, Numbers DEF IInv, RequestInv, ReadInv, TypeOK
<1>3. TypeOK'
  BY <1>1, <1>2 DEF IInv, TypeOK
<1>4. TimeInv' /\ RequestInv' /\ KnownInv' /\ MainInv'
  BY <1>1 DEF IInv, TimeInv, RequestInv, KnownInv, MainInv, Sound, Finding
<1>5. \A k \in DOMAIN routes : Stale(k)' = Stale(k) /\ NeedsReload(k)' = NeedsReload(k)
  BY <1>1 DEF Stale, NeedsReload
<1>6. RoutesInv'
  <2> SUFFICES ASSUME NEW k \in DOMAIN routes, Stale(k), ~NeedsReload(k)
               PROVE  k \in raced'
    BY <1>1, <1>5 DEF RoutesInv
  <2>1. k \in raced /\ k # request
    BY <1>2 DEF IInv, RoutesInv
  <2>2. QED
    BY <1>1, <2>1
<1>7. ReadInv'
  <2>1. pc' = "eval" => source' \in Contents(request[1])
    BY <1>1, <1>2
  <2>2. NeedsReload(request)'
    BY <1>1, <1>2 DEF NeedsReload
  <2>3. QED
    BY <1>1, <2>1, <2>2 DEF ReadInv, Contents, Faults
<1>8. CallInv'
  <2>1. pc' = "call" => ~steady
    BY <1>1, <1>2 DEF IInv, RequestInv, Sound
  <2>2. QED
    BY <1>1, <2>1 DEF CallInv
<1>9. RunsRouteOnDisk' /\ AllOrNothing'
  BY <1>1 DEF IInv, RunsRouteOnDisk, SteadyAnswer, AllOrNothing
<1> QED
  BY <1>3, <1>4, <1>6, <1>7, <1>8, <1>9 DEF IInv

LEMMA EvalRouteFileStep == IInv /\ EvalRouteFile => IInv'
<1> SUFFICES ASSUME IInv, EvalRouteFile PROVE IInv'
  OBVIOUS
<1> USE DEF fileVars, mainVars, readVars
<1>1. /\ pc = "eval" /\ libRead' = disk["shared"].at
      /\ pc' = (IF request[2] \in source.methods THEN "record" ELSE "call")
      /\ UNCHANGED <<clock, disk, program, mainSeen, imported, routes, known, request, source, answer,
                     steady, raced, broke>>
  BY DEF EvalRouteFile
<1>2. disk["shared"].at \in Times /\ disk["shared"].at \in Nat
  BY Numbers DEF IInv
<1>3. TypeOK'
  BY <1>1, <1>2 DEF IInv, TypeOK
<1>4. TimeInv' /\ RequestInv' /\ KnownInv' /\ RoutesInv' /\ MainInv'
  BY <1>1 DEF IInv, TimeInv, RequestInv, KnownInv, RoutesInv, MainInv, Sound, Finding, Stale, NeedsReload
<1>5. ReadInv'
  <2>1. libRead' <= disk["shared"].at
    BY <1>1, <1>2
  <2>2. QED
    BY <1>1, <2>1 DEF IInv, ReadInv, Contents, Faults
<1>6. CallInv'
  <2>1. (pc' = "call" /\ request \notin raced) => request[2] \notin disk[request[1]].methods
    BY <1>1 DEF IInv, ReadInv
  <2>2. QED
    BY <1>1, <2>1 DEF CallInv
<1>7. RunsRouteOnDisk' /\ AllOrNothing'
  BY <1>1 DEF IInv, RunsRouteOnDisk, SteadyAnswer, AllOrNothing
<1> QED
  BY <1>3, <1>4, <1>5, <1>6, <1>7 DEF IInv

LEMMA EvalRouteFileFailsStep == IInv /\ EvalRouteFileFails => IInv'
<1> SUFFICES ASSUME IInv, EvalRouteFileFails PROVE IInv'
  OBVIOUS
<1> USE DEF fileVars, mainVars, readVars
<1>1. /\ pc = "eval" /\ pc' = "call" /\ (source.fault = "eval" \/ disk["shared"].fault = "eval")
      /\ imported' \in Leftovers /\ broke' = TRUE
      /\ UNCHANGED <<clock, disk, program, mainSeen, routes, known, request, source, libRead, answer,
                     steady, raced>>
  BY DEF EvalRouteFileFails
<1>2. /\ request \in Keys /\ request[1] \in Sources /\ "shared" \in Sources
      /\ Times \subseteq Nat
  BY <1>1, Numbers DEF IInv, RequestInv
<1>3. /\ DOMAIN imported' \subseteq {"own", "shared"}
      /\ \A s \in DOMAIN imported' : imported'[s] \in Times /\ imported'[s] = disk[s].at
  BY <1>1, LeftoversAreTimes DEF IInv
<1>4. TypeOK'
  BY <1>1, <1>3 DEF IInv, TypeOK
<1>5. TimeInv'
  <2>1. \A s \in DOMAIN imported' : imported'[s] <= disk[s].at
    <3> SUFFICES ASSUME NEW s \in DOMAIN imported' PROVE imported'[s] <= disk[s].at
      OBVIOUS
    <3>1. imported'[s] \in Nat /\ imported'[s] = disk[s].at
      BY <1>2, <1>3
    <3>2. QED
      BY <3>1
  <2>2. QED
    BY <1>1, <2>1 DEF IInv, TimeInv
<1>6. RequestInv' /\ KnownInv' /\ RoutesInv' /\ ReadInv' /\ MainInv'
  BY <1>1 DEF IInv, RequestInv, KnownInv, RoutesInv, ReadInv, MainInv, Sound, Stale, NeedsReload
<1>7. CallInv'
  <2>1. steady => request \in raced
    BY <1>1, <1>2 DEF IInv, RequestInv, ReadInv, Sound
  <2>2. QED
    BY <1>1, <2>1 DEF CallInv
<1>8. RunsRouteOnDisk' /\ AllOrNothing'
  BY <1>1 DEF IInv, RunsRouteOnDisk, SteadyAnswer, AllOrNothing
<1> QED
  BY <1>4, <1>5, <1>6, <1>7, <1>8 DEF IInv

LEMMA RecordRouteStep == IInv /\ RecordRoute => IInv'
<1> SUFFICES ASSUME IInv, RecordRoute PROVE IInv'
  OBVIOUS
<1> USE DEF fileVars, mainVars, readVars
<1> DEFINE handler == [code |-> source.at, lib |-> libRead, seen |-> disk[request[1]].at, libSeen |-> libRead]
<1>1. /\ pc = "record" /\ pc' = "call"
      /\ routes' = [routes EXCEPT ![request] = handler] /\ known' = DOMAIN routes
      /\ UNCHANGED <<clock, disk, program, mainSeen, imported, request, source, libRead, answer,
                     steady, raced, broke>>
  BY DEF RecordRoute
<1>2. TypeOK
  BY DEF IInv
<1>3. /\ request \in Keys /\ request[1] \in Sources /\ "shared" \in Sources /\ request \in DOMAIN routes
      /\ source \in Contents(request[1]) /\ Times \subseteq Nat
      /\ disk[request[1]].at \in Times /\ disk["shared"].at \in Times /\ libRead \in Times
      /\ request \notin raced => source = disk[request[1]] /\ libRead = disk["shared"].at
  BY <1>1, <1>2, Numbers DEF IInv, RequestInv, ReadInv, TypeOK
<1>4. handler \in Handlers
  <2>1. source.at \in Times
    BY <1>3 DEF Contents
  <2>2. QED
    BY <1>3, <2>1 DEF Handlers
<1>5. /\ handler.code = source.at /\ handler.lib = libRead
      /\ handler.seen = disk[request[1]].at /\ handler.libSeen = libRead
  OBVIOUS
<1> HIDE DEF handler
<1>6. /\ DOMAIN routes' = DOMAIN routes /\ routes'[request] = handler
      /\ \A k \in DOMAIN routes : k # request => routes'[k] = routes[k]
  BY <1>1, <1>3
<1>7. TypeOK'
  BY <1>1, <1>2, <1>4, <1>6 DEF TypeOK
<1>8. libRead <= disk["shared"].at
  BY <1>1 DEF IInv, ReadInv
<1>9. TimeInv'
  <2>1. handler.seen <= disk[request[1]].at /\ handler.libSeen <= disk["shared"].at
    <3>1. disk[request[1]].at \in Nat
      BY <1>3
    <3>2. QED
      BY <1>5, <1>8, <3>1
  <2>2. QED
    BY <1>1, <1>6, <2>1 DEF IInv, TimeInv
<1>10. RequestInv' /\ KnownInv' /\ ReadInv'
  BY <1>1, <1>6 DEF IInv, RequestInv, KnownInv, ReadInv, Sound
<1>11. \A k \in DOMAIN routes : k # request => Stale(k)' = Stale(k) /\ NeedsReload(k)' = NeedsReload(k)
  BY <1>1, <1>6 DEF Stale, NeedsReload
<1>12. request \notin raced => ~Stale(request)' /\ ~NeedsReload(request)'
  BY <1>1, <1>3, <1>5, <1>6 DEF Stale, NeedsReload
<1>13. RoutesInv'
  BY <1>1, <1>6, <1>11, <1>12 DEF IInv, RoutesInv
<1>14. CallInv'
  BY <1>1, <1>12 DEF CallInv
<1>15. MainInv'
  BY <1>1, <1>3 DEF IInv, MainInv, Finding
<1>16. RunsRouteOnDisk' /\ AllOrNothing'
  BY <1>1, NotFoundAssumption DEF IInv, RequestInv, RunsRouteOnDisk, SteadyAnswer, AllOrNothing
<1> QED
  BY <1>7, <1>9, <1>10, <1>13, <1>14, <1>15, <1>16 DEF IInv

(***************************************************************************)
(* The handler answers.                                                    *)
(***************************************************************************)
LEMMA CallHandlerStep == IInv /\ CallHandler => IInv'
<1> SUFFICES ASSUME IInv, CallHandler PROVE IInv'
  OBVIOUS
<1> USE DEF fileVars, mainVars, readVars
<1> DEFINE given == [main |-> program.main, own |-> program.own,
                     code |-> routes[request].code, lib |-> routes[request].lib]
<1>1. /\ pc = "call" /\ pc' = "recv" /\ answer' = given
      /\ UNCHANGED <<clock, disk, program, mainSeen, imported, routes, known, request, source, libRead,
                     steady, raced, broke>>
  BY DEF CallHandler
<1>2. request \in DOMAIN routes /\ DOMAIN routes # {} /\ TypeOK
  BY <1>1 DEF IInv, RequestInv
<1>3. given \in Answers
  BY <1>2, Numbers DEF TypeOK, Answers
<1>4. TypeOK'
  BY <1>1, <1>2, <1>3 DEF TypeOK
<1>5. TimeInv' /\ RequestInv' /\ KnownInv' /\ RoutesInv' /\ ReadInv' /\ CallInv' /\ MainInv'
  BY <1>1 DEF IInv, TimeInv, RequestInv, KnownInv, RoutesInv, ReadInv, CallInv, MainInv,
              Sound, Stale, NeedsReload, Finding
<1>6. RunsRouteOnDisk'
  <2> SUFFICES ASSUME steady
               PROVE  /\ (request \notin raced /\ request[2] \in disk[request[1]].methods) =>
                            routes[request].code = disk[request[1]].at /\ routes[request].lib = disk["shared"].at
                      /\ ~broke => program.main = disk["main"].at /\ program.own = disk["own"].at
    BY <1>1 DEF RunsRouteOnDisk, SteadyAnswer
  <2>1. ASSUME request \notin raced, request[2] \in disk[request[1]].methods
        PROVE  routes[request].code = disk[request[1]].at /\ routes[request].lib = disk["shared"].at
    <3>1. ~NeedsReload(request)
      BY <1>1, <2>1 DEF IInv, CallInv
    <3>2. ~Stale(request)
      BY <1>2, <2>1, <3>1 DEF IInv, RoutesInv
    <3>3. QED
      BY <3>2 DEF Stale
  <2>2. ~broke => program.main = disk["main"].at /\ program.own = disk["own"].at
    BY <1>1, <1>2 DEF IInv, MainInv, Finding
  <2>3. QED
    BY <2>1, <2>2
<1>7. AllOrNothing'
  BY <1>1, <1>3, NotFoundAssumption DEF AllOrNothing
<1> QED
  BY <1>4, <1>5, <1>6, <1>7 DEF IInv

(***************************************************************************)
(* The theorems.                                                           *)
(***************************************************************************)
LEMMA NextStep == IInv /\ [Next]_vars => IInv'
<1> SUFFICES ASSUME IInv, [Next]_vars PROVE IInv'
  OBVIOUS
<1>1. CASE \E s \in Sources : Edit(s)
  BY <1>1, EditStep
<1>2. CASE Receive
  BY <1>2, ReceiveStep
<1>3. CASE Serve
  BY <1>3, MainUnchangedStep, MainReloadedStep, MainReloadFailsStep, RouteMissingStep, RouteFoundStep,
     ReadRouteFileStep, EvalRouteFileStep, EvalRouteFileFailsStep, RecordRouteStep, CallHandlerStep DEF Serve
<1>4. CASE UNCHANGED vars
  <2> USE <1>4 DEF vars, fileVars, mainVars, readVars
  <2>1. TypeOK' /\ TimeInv' /\ RequestInv' /\ KnownInv'
    BY DEF IInv, TypeOK, TimeInv, RequestInv, KnownInv, Sound
  <2>2. RoutesInv' /\ ReadInv' /\ CallInv' /\ MainInv'
    BY DEF IInv, RoutesInv, ReadInv, CallInv, MainInv, Stale, NeedsReload
  <2>3. RunsRouteOnDisk' /\ AllOrNothing'
    BY DEF IInv, RunsRouteOnDisk, SteadyAnswer, AllOrNothing
  <2>4. QED
    BY <2>1, <2>2, <2>3 DEF IInv
<1>5. QED
  BY <1>1, <1>2, <1>3, <1>4 DEF Next

\* The inductive invariant holds of every behaviour.
THEOREM Invariance == Spec => []IInv
<1>1. IInv /\ [Next]_vars => IInv'
  BY NextStep
<1>2. QED
  BY <1>1, InitHolds, PTL DEF Spec

\* Each variable has its type: handlers are of the route files and methods there
\* are, and every time recorded is that of an edit.
THEOREM TypeCorrect == Spec => []TypeOK
<1>1. IInv => TypeOK
  BY DEF IInv
<1>2. QED
  BY <1>1, Invariance, PTL

\* An answering handler was made from the files on disk, in the main program on
\* disk, with the named exceptions.
THEOREM AnswersAreOfTheDisk == Spec => []RunsRouteOnDisk
<1>1. IInv => RunsRouteOnDisk
  BY DEF IInv
<1>2. QED
  BY <1>1, Invariance, PTL

\* A route the async server knows is "not found" only when no route is left at all.
THEOREM NoRouteIsLostAlone == Spec => []AllOrNothing
<1>1. IInv => AllOrNothing
  BY DEF IInv
<1>2. QED
  BY <1>1, Invariance, PTL
=============================================================================
