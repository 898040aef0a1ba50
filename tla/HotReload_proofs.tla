--------------------------- MODULE HotReload_proofs ---------------------------
(***************************************************************************)
(* The safety properties of hot reload, proved for any set of routes, any  *)
(* list of imports, any number of clients and of edits.                    *)
(***************************************************************************)
EXTENDS HotReloadProps, FiniteSetTheorems, TLAPS

(***************************************************************************)
(* The inductive invariant, part by part.                                  *)
(***************************************************************************)
\* Clients wait in the line once each, and without an answer; a request that the
\* interpreter never heard of has no handler.
QueueInv ==
    /\ pc # "recv" => queue # <<>>
    /\ \A i, j \in DOMAIN queue : queue[i] = queue[j] => i = j
    /\ \A i \in DOMAIN queue : client[queue[i]].state = "queued"
    /\ \A c \in Clients :
         /\ client[c].state # "answered" => client[c].answer = None
         /\ client[c].state = "queued" => client[c].forwarded
         /\ client[c].state = "answered" /\ ~client[c].forwarded => client[c].answer = NotFound
         /\ client[c].steady => DiskOk

\* What is recorded of a file is no later than the file.
TimeInv ==
    /\ mainSeen <= diskMain.at /\ diskMain.at <= clock
    /\ \A f \in Libs : diskLib[f].at <= clock
    /\ imported \in [DOMAIN imported -> Times] /\ libsRead \in [DOMAIN libsRead -> Times]
    /\ \A f \in DOMAIN imported : imported[f] <= diskLib[f].at

FirstImports(k) == {Imports[i] : i \in 1..k}

\* The imports read so far are the first ones, and those tracked are the same,
\* but for the one just read.
ImportsInv ==
    /\ pc = "import" => \E k \in 0..(Len(Imports) - 1) : DOMAIN libsRead = FirstImports(k) /\ DOMAIN imported = FirstImports(k)
    /\ pc = "track" => \E k \in 1..Len(Imports) : DOMAIN libsRead = FirstImports(k) /\ DOMAIN imported = FirstImports(k - 1)
    /\ pc \in {"routes", "mtime"} => DOMAIN libsRead = Libs /\ DOMAIN imported = Libs

\* The request being served was not disturbed by an edit.
HeadSteady == queue # <<>> /\ client[Head(queue)].steady

\* While a reload reads files and none is edited, what it read is on disk.
ReadingInv ==
    pc \in Reading =>
        /\ source \in MainSources /\ source.fault \in {"ok", "eval"}
        /\ pc # "mtime" => registry = <<>>
        /\ pc = "mtime" => source.fault = "ok" /\ registry = ProgramOf([main |-> source, libs |-> libsRead])
        /\ HeadSteady => ~raced
        /\ ~raced => /\ source = diskMain
                     /\ \A f \in DOMAIN libsRead : libsRead[f] = diskLib[f].at
                     /\ \A f \in DOMAIN imported : imported[f] = diskLib[f].at

\* After an evaluation that nothing disturbed: the version in the routes is the
\* one whose times are recorded; or a fault is still to be seen; or a broken
\* import left no route.
LoadedInv ==
    (pc \notin Reading /\ ~raced) =>
        IF lastEval = "ok"
        THEN \E v \in Versions : /\ registry = ProgramOf(v)
                                 /\ v.main.at = mainSeen /\ v.libs = imported
                                 /\ diskMain.at = mainSeen => diskMain = v.main
        ELSE IF DOMAIN imported = Libs THEN mainSeen < diskMain.at \/ diskMain.fault = "eval"
             ELSE registry = <<>>

\* A successful evaluation leaves the routes of one version.
VersionInv ==
    (pc \notin Reading /\ lastEval = "ok") => \E v \in Versions : registry = ProgramOf(v)

\* The copy of the route table.
TablesInv ==
    /\ (pc \in {"recv", "stat", "read", "dispatch"} /\ lastEval = "ok") => asyncRoutes = DOMAIN registry
    /\ pc \in {"clear", "copy"} => lastEval = "ok"
    /\ pc = "copy" => asyncRoutes \subseteq DOMAIN registry

\* Nothing on disk is newer than what is recorded.
Current == diskMain.at <= mainSeen /\ \A f \in DOMAIN imported : diskLib[f].at <= imported[f]
Excused == raced \/ (LostTrack /\ registry = <<>>)

\* What an undisturbed request is about to run.
DispatchInv ==
    /\ (pc \in {"clear", "copy"} /\ HeadSteady) => registry = ProgramOf(DiskVersion)
    /\ (pc = "dispatch" /\ HeadSteady) => registry = ProgramOf(DiskVersion) \/ (Current /\ Excused)

\* An undisturbed request that ran something else, or nothing: nothing is newer,
\* so that no reload begins before the next edit.
AnsweredInv ==
    \A c \in Clients :
        (client[c].forwarded /\ (RanOtherCode(c) \/ MissedItsRoute(c))) =>
            /\ pc \in {"recv", "stat", "dispatch"}
            /\ Current
            /\ raced \/ (client[c].answer = NotFound /\ LostTrack)

IInv == TypeOK /\ QueueInv /\ TimeInv /\ ImportsInv /\ ReadingInv /\ LoadedInv /\ VersionInv
        /\ TablesInv /\ DispatchInv /\ AnsweredInv

(***************************************************************************)
(* The imports are distinct: the first k of them are k modules.            *)
(***************************************************************************)
LEMMA FirstImportsCount ==
    /\ Len(Imports) \in Nat
    /\ FirstImports(0) = {} /\ FirstImports(Len(Imports)) = Libs
    /\ \A k \in 0..(Len(Imports) - 1) :
         /\ Imports[k + 1] \in Libs
         /\ FirstImports(k + 1) = FirstImports(k) \cup {Imports[k + 1]}
    /\ \A k \in 0..Len(Imports) :
         /\ IsFiniteSet(FirstImports(k)) /\ Cardinality(FirstImports(k)) = k
         /\ FirstImports(k) \subseteq Libs
         /\ FirstImports(k) = Libs => k = Len(Imports)
<1>1. /\ Len(Imports) \in Nat /\ DOMAIN Imports = 1..Len(Imports)
      /\ \A i, j \in 1..Len(Imports) : Imports[i] = Imports[j] => i = j
  BY ImportsAssumption
<1>2. FirstImports(0) = {} /\ FirstImports(Len(Imports)) = Libs
  BY <1>1 DEF FirstImports, Libs
<1>3. ASSUME NEW k \in 0..(Len(Imports) - 1)
      PROVE  /\ Imports[k + 1] \in Libs
             /\ FirstImports(k + 1) = FirstImports(k) \cup {Imports[k + 1]}
  <2>1. k + 1 \in 1..Len(Imports) /\ \A i : i \in 1..(k + 1) <=> i \in 1..k \/ i = k + 1
    BY <1>1
  <2>2. QED
    BY <1>1, <2>1 DEF FirstImports, Libs
<1>4. ASSUME NEW k \in 0..Len(Imports)
      PROVE  /\ IsFiniteSet(FirstImports(k)) /\ Cardinality(FirstImports(k)) = k
             /\ FirstImports(k) \subseteq Libs
  <2> DEFINE f == [i \in 1..k |-> Imports[i]]
  <2>1. k \in Nat /\ 1..k \subseteq 1..Len(Imports)
    BY <1>1
  <2>2. f \in Bijection(1..k, FirstImports(k))
    <3>1. f \in Injection(1..k, FirstImports(k))
      BY <1>1, <2>1 DEF FirstImports, Injection, IsInjective
    <3>2. f \in Surjection(1..k, FirstImports(k))
      BY <1>1, <2>1 DEF FirstImports, Surjection
    <3>3. QED
      BY <3>1, <3>2 DEF Bijection
  <2>3. IsFiniteSet(1..k) /\ Cardinality(1..k) = k
    BY <2>1, FS_Interval
  <2>4. FirstImports(k) \subseteq Libs
    BY <1>1, <2>1 DEF FirstImports, Libs
  <2> HIDE DEF f
  <2>5. ExistsBijection(1..k, FirstImports(k))
    BY <2>2 DEF ExistsBijection
  <2>6. QED
    BY <2>3, <2>4, <2>5, FS_Bijection
<1>5. ASSUME NEW k \in 0..Len(Imports), FirstImports(k) = Libs
      PROVE  k = Len(Imports)
  <2>1. Len(Imports) \in 0..Len(Imports)
    BY <1>1
  <2>2. QED
    BY <1>2, <1>4, <1>5, <2>1
<1>6. QED
  BY <1>1, <1>2, <1>3, <1>4, <1>5

LEMMA InitHolds == Init => IInv
<1> SUFFICES ASSUME Init PROVE IInv
  OBVIOUS
<1> USE DEF Init
<1>1. 0 \in Times
  BY MaxEditsAssumption DEF Times
<1>2. PICK ps \in (SUBSET Paths) \ {{}} : diskMain = [at |-> 0, fault |-> "ok", paths |-> ps]
  OBVIOUS
<1>3. /\ diskMain \in MainSources /\ diskMain.at = 0 /\ diskMain.fault = "ok" /\ diskMain.paths = ps
      /\ diskLib \in [Libs -> LibSources] /\ \A f \in Libs : diskLib[f].at = 0
      /\ DiskVersion \in Versions
      /\ DiskVersion.main = diskMain /\ DiskVersion.libs = imported
  BY <1>1, <1>2 DEF MainSources, LibSources, Versions, DiskVersion
<1>4. registry = ProgramOf(DiskVersion)
  BY <1>3 DEF ProgramOf
<1>5. DOMAIN registry = ps /\ \A p \in ps : registry[p] \in Versions
  BY <1>3
<1>6. TypeOK
  <2>1. Idle \in ClientStates
    BY DEF Idle, ClientStates
  <2>2. /\ DOMAIN imported \subseteq Libs /\ \A f \in DOMAIN imported : imported[f] \in Times
        /\ DOMAIN libsRead \subseteq Libs /\ \A f \in DOMAIN libsRead : libsRead[f] \in Times
        /\ queue \in Seq(Clients)
    BY <1>1
  <2>3. DOMAIN registry \subseteq Paths /\ asyncRoutes \in SUBSET Paths
    BY <1>3, <1>5
  <2>4. client \in [Clients -> ClientStates]
    BY <2>1
  <2>5. QED
    BY <1>1, <1>3, <1>5, <2>2, <2>3, <2>4 DEF TypeOK, Steps
<1>7. QueueInv
  BY DEF QueueInv, Idle
<1>8. TimeInv
  BY <1>1, <1>3 DEF TimeInv
<1>9. ImportsInv /\ ReadingInv /\ DispatchInv
  BY DEF ImportsInv, ReadingInv, DispatchInv, Reading
<1>10. LoadedInv /\ VersionInv
  BY <1>3, <1>4 DEF LoadedInv, VersionInv
<1>11. TablesInv
  BY <1>3, <1>5 DEF TablesInv
<1>12. AnsweredInv
  BY DEF AnsweredInv, Idle, RanOtherCode, MissedItsRoute
<1> QED
  BY <1>6, <1>7, <1>8, <1>9, <1>10, <1>11, <1>12 DEF IInv

(***************************************************************************)
(* The line of clients after the operations of the channel.                *)
(***************************************************************************)
LEMMA HeadOfLine ==
    ASSUME TypeOK, queue # <<>>
    PROVE  /\ 1 \in DOMAIN queue /\ Head(queue) = queue[1] /\ Head(queue) \in Clients
           /\ Tail(queue) \in Seq(Clients) /\ DOMAIN Tail(queue) = 1..(Len(queue) - 1)
           /\ DOMAIN queue = 1..Len(queue) /\ Len(queue) \in Nat
           /\ \A i \in DOMAIN Tail(queue) : Tail(queue)[i] = queue[i + 1] /\ i + 1 \in DOMAIN queue /\ i + 1 # 1
<1>1. queue \in Seq(Clients)
  BY DEF TypeOK
<1>2. Len(queue) \in Nat /\ Len(queue) > 0 /\ DOMAIN queue = 1..Len(queue)
  BY <1>1
<1>3. Tail(queue) \in Seq(Clients) /\ Len(Tail(queue)) = Len(queue) - 1
  BY <1>1
<1>4. DOMAIN Tail(queue) = 1..(Len(queue) - 1)
  BY <1>3
<1>5. ASSUME NEW i \in 1..(Len(queue) - 1)
      PROVE  Tail(queue)[i] = queue[i + 1] /\ i + 1 \in 1..Len(queue) /\ i + 1 # 1
  BY <1>1, <1>2
<1>6. QED
  BY <1>1, <1>2, <1>3, <1>4, <1>5

LEMMA AppendToLine ==
    ASSUME NEW s \in Seq(Clients), NEW c \in Clients
    PROVE  /\ Append(s, c) \in Seq(Clients) /\ Append(s, c) # <<>>
           /\ DOMAIN Append(s, c) = DOMAIN s \cup {Len(s) + 1} /\ Len(s) + 1 \notin DOMAIN s
           /\ Append(s, c)[Len(s) + 1] = c
           /\ \A i \in DOMAIN s : Append(s, c)[i] = s[i]
           /\ s # <<>> => Head(Append(s, c)) = Head(s)
<1>1. Len(s) \in Nat /\ DOMAIN s = 1..Len(s)
  OBVIOUS
<1>2. Append(s, c) \in Seq(Clients) /\ Len(Append(s, c)) = Len(s) + 1
  OBVIOUS
<1>3. DOMAIN Append(s, c) = 1..(Len(s) + 1)
  BY <1>2
<1>4. 1..(Len(s) + 1) = 1..Len(s) \cup {Len(s) + 1}
  BY <1>1
<1>5. Append(s, c)[Len(s) + 1] = c /\ \A i \in 1..Len(s) : Append(s, c)[i] = s[i]
  BY <1>1
<1>6. s # <<>> => Len(s) > 0
  OBVIOUS
<1>7. ASSUME s # <<>> PROVE Head(Append(s, c)) = Head(s)
  <2>1. 1 \in 1..Len(s) /\ Head(s) = s[1]
    BY <1>1, <1>6, <1>7
  <2>2. Append(s, c) # <<>> /\ Head(Append(s, c)) = Append(s, c)[1]
    BY <1>1, <1>2
  <2>3. QED
    BY <1>5, <2>1, <2>2
<1>8. Append(s, c) # <<>>
  BY <1>1, <1>2
<1>9. QED
  BY <1>1, <1>2, <1>3, <1>4, <1>5, <1>7, <1>8

(***************************************************************************)
(* Files are edited: no request is undisturbed any more.                   *)
(***************************************************************************)
LEMMA Edited ==
    ASSUME IInv, clock < MaxEdits, Unsettle, clock' = clock + 1,
           diskMain' \in MainSources, diskLib' \in [Libs -> LibSources],
           diskMain' = diskMain \/ diskMain'.at = clock + 1,
           \A f \in Libs : diskLib'[f] = diskLib[f] \/ diskLib'[f].at = clock + 1,
           UNCHANGED <<mainSeen, imported, registry, lastEval, asyncRoutes, pc, reloadVars, queue>>
    PROVE  IInv'
<1> USE DEF reloadVars
<1>1. /\ clock \in Nat /\ MaxEdits \in Nat /\ clock + 1 \in Times
      /\ mainSeen \in Nat /\ diskMain.at \in Nat /\ mainSeen <= diskMain.at /\ diskMain.at <= clock
      /\ \A f \in Libs : diskLib[f].at \in Nat /\ diskLib[f].at <= clock
      /\ \A f \in DOMAIN imported : f \in Libs /\ imported[f] \in Nat /\ imported[f] <= diskLib[f].at
  BY MaxEditsAssumption DEF IInv, TypeOK, TimeInv, Times, MainSources, LibSources
<1>2. \A c \in Clients : /\ client'[c] \in ClientStates
                         /\ client'[c].steady = FALSE
                         /\ client'[c].state = client[c].state /\ client'[c].answer = client[c].answer
                         /\ client'[c].forwarded = client[c].forwarded /\ client'[c].path = client[c].path
  BY DEF IInv, TypeOK, Unsettle, ClientStates
<1>3. TypeOK'
  BY <1>1, <1>2 DEF IInv, TypeOK, Unsettle
<1>4. queue # <<>> => Head(queue) \in Clients
  BY HeadOfLine DEF IInv
<1>5. ~HeadSteady'
  BY <1>2, <1>4 DEF HeadSteady
<1>6. QueueInv'
  <2>1. \A i \in DOMAIN queue : queue[i] \in Clients
    BY DEF IInv, TypeOK
  <2>2. QED
    BY <1>2, <2>1 DEF IInv, QueueInv
<1>7. TimeInv'
  BY <1>1 DEF IInv, TimeInv
<1>8. ImportsInv'
  BY DEF IInv, ImportsInv
<1>9. ReadingInv'
  BY <1>5 DEF IInv, ReadingInv, Unsettle, ProgramOf
<1>10. LoadedInv'
  <2> SUFFICES ASSUME pc \notin Reading, ~raced
               PROVE  IF lastEval = "ok"
                      THEN \E v \in Versions : /\ registry = ProgramOf(v)
                                               /\ v.main.at = mainSeen /\ v.libs = imported
                                               /\ diskMain'.at = mainSeen => diskMain' = v.main
                      ELSE IF DOMAIN imported = Libs THEN mainSeen < diskMain'.at \/ diskMain'.fault = "eval"
                           ELSE registry = <<>>
    BY DEF LoadedInv, Unsettle, ProgramOf
  <2>1. diskMain'.at = mainSeen => diskMain' = diskMain
    BY <1>1
  <2>2. QED
    BY <1>1, <2>1 DEF IInv, LoadedInv
<1>11. VersionInv' /\ TablesInv'
  BY DEF IInv, VersionInv, TablesInv, ProgramOf
<1>12. DispatchInv'
  BY <1>5 DEF DispatchInv
<1>13. AnsweredInv'
  BY <1>2 DEF AnsweredInv, RanOtherCode, MissedItsRoute
<1> QED
  BY <1>3, <1>6, <1>7, <1>8, <1>9, <1>10, <1>11, <1>12, <1>13 DEF IInv

LEMMA EditMainStep == IInv /\ EditMain => IInv'
<1> SUFFICES ASSUME IInv, EditMain PROVE IInv'
  OBVIOUS
<1>1. clock + 1 \in Times
  BY MaxEditsAssumption DEF IInv, TypeOK, Times, EditMain, CanEdit
<1>2. diskMain' \in MainSources /\ diskMain'.at = clock + 1
  BY <1>1 DEF EditMain, MainSources
<1>3. diskLib' = diskLib /\ diskLib \in [Libs -> LibSources]
  BY DEF EditMain, IInv, TypeOK
<1> QED
  BY <1>2, <1>3, Edited DEF EditMain, CanEdit

LEMMA EditImportStep == ASSUME NEW f \in Libs PROVE IInv /\ EditImport(f) => IInv'
<1> SUFFICES ASSUME IInv, EditImport(f) PROVE IInv'
  OBVIOUS
<1>1. clock + 1 \in Times
  BY MaxEditsAssumption DEF IInv, TypeOK, Times, EditImport, CanEdit
<1>2. PICK fault \in {"ok", "broken"} :
        diskLib' = [diskLib EXCEPT ![f] = [at |-> clock + 1, fault |-> fault]]
  BY DEF EditImport
<1>3. diskLib \in [Libs -> LibSources] /\ diskMain \in MainSources
  BY DEF IInv, TypeOK
<1>4. [at |-> clock + 1, fault |-> fault] \in LibSources
  BY <1>1 DEF LibSources
<1>5. /\ diskLib' \in [Libs -> LibSources]
      /\ \A g \in Libs : diskLib'[g] = diskLib[g] \/ diskLib'[g].at = clock + 1
  BY <1>2, <1>3, <1>4
<1> QED
  BY <1>3, <1>5, Edited DEF EditImport, CanEdit

(***************************************************************************)
(* Clients come and go.                                                    *)
(***************************************************************************)
LEMMA ArriveStep == ASSUME NEW c \in Clients, NEW p \in Paths PROVE IInv /\ Arrive(c, p) => IInv'
<1> SUFFICES ASSUME IInv, Arrive(c, p) PROVE IInv'
  OBVIOUS
<1> USE DEF diskVars, loadedVars, reloadVars
<1> DEFINE known == p \in asyncRoutes
           request == [state |-> IF known THEN "queued" ELSE "answered", path |-> p,
                       forwarded |-> known, steady |-> DiskOk, answer |-> IF known THEN None ELSE NotFound]
<1>1. /\ queue \in Seq(Clients) /\ client \in [Clients -> ClientStates] /\ client[c].state = "idle"
      /\ queue' = IF known THEN Append(queue, c) ELSE queue
      /\ UNCHANGED <<clock, diskMain, diskLib, mainSeen, imported, registry, lastEval, raced,
                     asyncRoutes, pc, source, libsRead>>
  BY DEF IInv, TypeOK, Arrive
<1>2. DiskOk \in BOOLEAN
  BY DEF DiskOk
<1>3. request \in ClientStates
  BY <1>2 DEF ClientStates
<1>4. client' \in [Clients -> ClientStates] /\ client'[c] = request /\ \A d \in Clients : d # c => client'[d] = client[d]
  BY <1>1, <1>3 DEF Arrive
<1>5. /\ request.state = (IF known THEN "queued" ELSE "answered") /\ request.forwarded = known
      /\ request.steady = DiskOk /\ request.answer = (IF known THEN None ELSE NotFound)
  OBVIOUS
<1> HIDE DEF request, known
<1>6. TypeOK'
  <2>1. queue' \in Seq(Clients)
    BY <1>1, AppendToLine
  <2>2. QED
    BY <1>1, <1>4, <2>1 DEF IInv, TypeOK
<1>7. /\ queue # <<>> => queue' # <<>> /\ Head(queue') = Head(queue)
      /\ \A i \in DOMAIN queue : i \in DOMAIN queue' /\ queue'[i] = queue[i]
      /\ \A i \in DOMAIN queue' : i \in DOMAIN queue \/ (i = Len(queue) + 1 /\ queue'[i] = c /\ known)
  BY <1>1, AppendToLine
<1>8. \A i \in DOMAIN queue : queue[i] \in Clients /\ queue[i] # c /\ client[queue[i]].state = "queued"
  BY <1>1 DEF IInv, QueueInv
<1>9. QueueInv'
  <2>1. pc' # "recv" => queue' # <<>>
    BY <1>1, <1>7 DEF IInv, QueueInv
  <2>2. \A i, j \in DOMAIN queue' : queue'[i] = queue'[j] => i = j
    BY <1>7, <1>8 DEF IInv, QueueInv
  <2>3. \A i \in DOMAIN queue' : client'[queue'[i]].state = "queued"
    BY <1>4, <1>5, <1>7, <1>8
  <2>4. DiskOk' = DiskOk
    BY <1>1 DEF DiskOk
  <2>5. \A d \in Clients :
         /\ client'[d].state # "answered" => client'[d].answer = None
         /\ client'[d].state = "queued" => client'[d].forwarded
         /\ client'[d].state = "answered" /\ ~client'[d].forwarded => client'[d].answer = NotFound
         /\ client'[d].steady => DiskOk
    BY <1>4, <1>5 DEF IInv, QueueInv
  <2>6. QED
    BY <2>1, <2>2, <2>3, <2>4, <2>5 DEF QueueInv
<1>10. pc # "recv" => HeadSteady' = HeadSteady
  <2> SUFFICES ASSUME pc # "recv" PROVE HeadSteady' = HeadSteady
    OBVIOUS
  <2>1. queue # <<>> /\ queue' # <<>> /\ Head(queue') = Head(queue)
    BY <1>7 DEF IInv, QueueInv
  <2>2. Head(queue) \in Clients /\ Head(queue) # c
    BY <1>8, <2>1, HeadOfLine DEF IInv
  <2>3. QED
    BY <1>4, <2>1, <2>2 DEF HeadSteady
<1>11. TimeInv' /\ ImportsInv' /\ VersionInv' /\ TablesInv' /\ LoadedInv'
  BY <1>1 DEF IInv, TimeInv, ImportsInv, VersionInv, TablesInv, LoadedInv, ProgramOf
<1>12. ReadingInv' /\ DispatchInv'
  <2>1. pc \in Reading => pc # "recv"
    BY DEF Reading
  <2>2. ReadingInv'
    BY <1>1, <1>10, <2>1 DEF IInv, ReadingInv, ProgramOf
  <2>3. DispatchInv'
    BY <1>1, <1>10 DEF IInv, DispatchInv, ProgramOf, DiskVersion, Current, Excused, LostTrack
  <2>4. QED
    BY <2>2, <2>3
<1>13. AnsweredInv'
  <2> SUFFICES ASSUME NEW d \in Clients, client'[d].forwarded, RanOtherCode(d)' \/ MissedItsRoute(d)'
               PROVE  /\ pc' \in {"recv", "stat", "dispatch"}
                      /\ Current'
                      /\ raced' \/ (client'[d].answer = NotFound /\ LostTrack')
    BY DEF AnsweredInv
  <2>1. d # c
    BY <1>4, <1>5, NotFoundAssumption DEF RanOtherCode, MissedItsRoute
  <2>2. client'[d] = client[d]
    BY <1>4, <2>1
  <2>3. RanOtherCode(d) \/ MissedItsRoute(d)
    BY <1>1, <2>2 DEF RanOtherCode, MissedItsRoute, DiskVersion
  <2>4. /\ pc \in {"recv", "stat", "dispatch"}
        /\ Current
        /\ raced \/ (client[d].answer = NotFound /\ LostTrack)
    BY <2>2, <2>3 DEF IInv, AnsweredInv
  <2>5. QED
    BY <1>1, <2>2, <2>4 DEF Current, LostTrack
<1> QED
  BY <1>6, <1>9, <1>11, <1>12, <1>13 DEF IInv

LEMMA LeaveStep == ASSUME NEW c \in Clients PROVE IInv /\ Leave(c) => IInv'
<1> SUFFICES ASSUME IInv, Leave(c) PROVE IInv'
  OBVIOUS
<1> USE DEF diskVars, loadedVars, reloadVars
<1>1. /\ client \in [Clients -> ClientStates] /\ client[c].state = "answered"
      /\ UNCHANGED <<clock, diskMain, diskLib, mainSeen, imported, registry, lastEval, raced,
                     asyncRoutes, pc, source, libsRead, queue>>
  BY DEF IInv, TypeOK, Leave
<1>2. /\ Idle \in ClientStates
      /\ Idle.state = "idle" /\ Idle.answer = None /\ Idle.forwarded = FALSE /\ Idle.steady = FALSE
  BY DEF Idle, ClientStates
<1>3. client' \in [Clients -> ClientStates] /\ client'[c] = Idle /\ \A d \in Clients : d # c => client'[d] = client[d]
  BY <1>1, <1>2 DEF Leave
<1>4. TypeOK'
  BY <1>1, <1>3 DEF IInv, TypeOK
<1>5. \A i \in DOMAIN queue : queue[i] \in Clients /\ queue[i] # c
  BY <1>1 DEF IInv, TypeOK, QueueInv
<1>6. QueueInv'
  <2>1. DiskOk' = DiskOk
    BY <1>1 DEF DiskOk
  <2>2. QED
    BY <1>1, <1>2, <1>3, <1>5, <2>1 DEF IInv, QueueInv
<1>7. HeadSteady' = HeadSteady
  BY <1>1, <1>3, <1>5, HeadOfLine DEF IInv, HeadSteady
<1>8. TimeInv' /\ ImportsInv' /\ VersionInv' /\ TablesInv' /\ LoadedInv'
  BY <1>1 DEF IInv, TimeInv, ImportsInv, VersionInv, TablesInv, LoadedInv, ProgramOf
<1>9. ReadingInv' /\ DispatchInv'
  BY <1>1, <1>7 DEF IInv, ReadingInv, DispatchInv, ProgramOf, DiskVersion, Current, Excused, LostTrack
<1>10. AnsweredInv'
  <2> SUFFICES ASSUME NEW d \in Clients, client'[d].forwarded, RanOtherCode(d)' \/ MissedItsRoute(d)'
               PROVE  /\ pc' \in {"recv", "stat", "dispatch"}
                      /\ Current'
                      /\ raced' \/ (client'[d].answer = NotFound /\ LostTrack')
    BY DEF AnsweredInv
  <2>1. client'[d] = client[d]
    BY <1>2, <1>3
  <2>2. RanOtherCode(d) \/ MissedItsRoute(d)
    BY <1>1, <2>1 DEF RanOtherCode, MissedItsRoute, DiskVersion
  <2>3. /\ pc \in {"recv", "stat", "dispatch"}
        /\ Current
        /\ raced \/ (client[d].answer = NotFound /\ LostTrack)
    BY <2>1, <2>2 DEF IInv, AnsweredInv
  <2>4. QED
    BY <1>1, <2>1, <2>3 DEF Current, LostTrack
<1> QED
  BY <1>4, <1>6, <1>8, <1>9, <1>10 DEF IInv

(***************************************************************************)
(* Steps of the interpreter, which serves the first request of the line.   *)
(* It is the only one who changes what is loaded; what the clients see     *)
(* changes at Dispatch alone.                                              *)
(***************************************************************************)
LEMMA InterpreterAtWork ==
    ASSUME IInv, UNCHANGED <<diskVars, queue, client>>
    PROVE  /\ queue # <<>> \/ pc' = "recv" => QueueInv'
           /\ pc # "recv" => queue # <<>>
           /\ HeadSteady' = HeadSteady
           /\ HeadSteady => DiskOk
           /\ pc \notin {"recv", "stat", "dispatch"} => AnsweredInv'
           /\ /\ pc' \in {"recv", "stat", "dispatch"}
              /\ UNCHANGED <<mainSeen, imported, raced, lastEval>>
              => AnsweredInv'
<1> USE DEF diskVars
<1>1. DiskOk' = DiskOk /\ HeadSteady' = HeadSteady /\ DiskVersion' = DiskVersion
  BY DEF DiskOk, HeadSteady, DiskVersion
<1>2. \A c \in Clients : RanOtherCode(c)' = RanOtherCode(c) /\ MissedItsRoute(c)' = MissedItsRoute(c)
  BY <1>1 DEF RanOtherCode, MissedItsRoute
<1>3. HeadSteady => DiskOk
  BY HeadOfLine DEF IInv, QueueInv, HeadSteady
<1>4. queue # <<>> \/ pc' = "recv" => QueueInv'
  BY <1>1 DEF IInv, QueueInv
<1>5. pc \notin {"recv", "stat", "dispatch"} => AnsweredInv'
  BY <1>2 DEF IInv, AnsweredInv
<1>6. ASSUME pc' \in {"recv", "stat", "dispatch"}, UNCHANGED <<mainSeen, imported, raced, lastEval>>
      PROVE  AnsweredInv'
  BY <1>2, <1>6 DEF IInv, AnsweredInv, Current, LostTrack
<1> QED
  BY <1>1, <1>3, <1>4, <1>5, <1>6 DEF IInv, QueueInv

LEMMA ReceiveStep == IInv /\ Receive => IInv'
<1> SUFFICES ASSUME IInv, Receive PROVE IInv'
  OBVIOUS
<1> USE DEF diskVars, loadedVars, reloadVars
<1>1. /\ pc = "recv" /\ queue # <<>> /\ pc' = "stat"
      /\ UNCHANGED <<clock, diskMain, diskLib, mainSeen, imported, registry, lastEval, raced,
                     asyncRoutes, source, libsRead, queue, client>>
  BY DEF Receive
<1>2. QueueInv' /\ AnsweredInv'
  BY <1>1, InterpreterAtWork
<1>3. TypeOK'
  BY <1>1 DEF IInv, TypeOK, Steps
<1>4. TimeInv' /\ ImportsInv' /\ ReadingInv' /\ VersionInv' /\ TablesInv' /\ LoadedInv' /\ DispatchInv'
  BY <1>1 DEF IInv, TimeInv, ImportsInv, ReadingInv, VersionInv, TablesInv, LoadedInv, DispatchInv,
              ProgramOf, Reading
<1> QED
  BY <1>2, <1>3, <1>4 DEF IInv

(***************************************************************************)
(* The check of the times: when nothing is newer, an undisturbed request   *)
(* finds the program on disk, or one of the exceptions.                    *)
(***************************************************************************)
LEMMA NothingNewer ==
    ASSUME IInv, pc \notin Reading, Current, HeadSteady
    PROVE  registry = ProgramOf(DiskVersion) \/ Excused
<1> SUFFICES ASSUME ~raced, ~(LostTrack /\ registry = <<>>)
             PROVE  registry = ProgramOf(DiskVersion)
  BY DEF Excused
<1>1. /\ diskMain.at \in Nat /\ mainSeen \in Nat /\ diskMain.at = mainSeen
      /\ \A f \in DOMAIN imported : f \in Libs /\ imported[f] = diskLib[f].at
      /\ imported = [f \in DOMAIN imported |-> imported[f]]
  <2>1. /\ diskMain.at \in Nat /\ mainSeen \in Nat /\ mainSeen <= diskMain.at /\ diskMain.at <= mainSeen
    BY DEF IInv, TypeOK, TimeInv, Current, MainSources, Times
  <2>2. ASSUME NEW f \in DOMAIN imported
        PROVE  f \in Libs /\ imported[f] \in Nat /\ diskLib[f].at \in Nat
               /\ imported[f] <= diskLib[f].at /\ diskLib[f].at <= imported[f]
    BY <2>2 DEF IInv, TypeOK, TimeInv, Current, LibSources, Times
  <2>3. imported = [f \in DOMAIN imported |-> imported[f]]
    BY DEF IInv, TimeInv
  <2>4. QED
    BY <2>1, <2>2, <2>3
<1>2. lastEval = "ok"
  <2>1. diskMain.fault = "ok"
    BY HeadOfLine DEF IInv, QueueInv, HeadSteady, DiskOk
  <2>2. lastEval \in {"ok", "failed"}
    BY DEF IInv, TypeOK
  <2>3. CASE lastEval = "failed"
    <3>1. DOMAIN imported = Libs
      BY <2>3 DEF IInv, LoadedInv, LostTrack
    <3>2. mainSeen < diskMain.at \/ diskMain.fault = "eval"
      BY <2>3, <3>1 DEF IInv, LoadedInv
    <3>3. QED
      BY <1>1, <2>1, <3>2
  <2>4. QED
    BY <2>2, <2>3
<1>3. PICK v \in Versions : /\ registry = ProgramOf(v)
                            /\ v.main.at = mainSeen /\ v.libs = imported
                            /\ diskMain.at = mainSeen => diskMain = v.main
  BY <1>2 DEF IInv, LoadedInv
<1>4. v = [main |-> v.main, libs |-> v.libs] /\ DOMAIN v.libs = Libs
  BY DEF Versions
<1>5. v.libs = [f \in Libs |-> diskLib[f].at]
  BY <1>1, <1>3, <1>4
<1>6. v = DiskVersion
  BY <1>1, <1>3, <1>4, <1>5 DEF DiskVersion
<1> QED
  BY <1>3, <1>6

LEMMA StatStep == IInv /\ Stat => IInv'
<1> SUFFICES ASSUME IInv, Stat PROVE IInv'
  OBVIOUS
<1> USE DEF diskVars, loadedVars, reloadVars
<1> DEFINE newer == diskMain.at > mainSeen \/ \E f \in DOMAIN imported : diskLib[f].at > imported[f]
<1>1. /\ pc = "stat" /\ pc' = IF newer THEN "read" ELSE "dispatch"
      /\ UNCHANGED <<clock, diskMain, diskLib, mainSeen, imported, registry, lastEval, raced,
                     asyncRoutes, source, libsRead, queue, client>>
  BY DEF Stat
<1>2. Current <=> ~newer
  BY DEF IInv, TypeOK, Current, MainSources, LibSources, Times
<1> HIDE DEF newer
<1>3. queue # <<>> /\ QueueInv' /\ HeadSteady' = HeadSteady
  BY <1>1, InterpreterAtWork
<1>4. TypeOK'
  BY <1>1 DEF IInv, TypeOK, Steps
<1>5. TimeInv' /\ ImportsInv' /\ ReadingInv' /\ VersionInv' /\ TablesInv' /\ LoadedInv'
  BY <1>1 DEF IInv, TimeInv, ImportsInv, ReadingInv, VersionInv, TablesInv, LoadedInv, ProgramOf, Reading
<1>6. DispatchInv'
  <2>1. (Current /\ HeadSteady) => registry = ProgramOf(DiskVersion) \/ Excused
    BY <1>1, NothingNewer DEF Reading
  <2>2. /\ Current' = Current /\ Excused' = Excused
        /\ (registry = ProgramOf(DiskVersion))' = (registry = ProgramOf(DiskVersion))
    BY <1>1 DEF Current, Excused, LostTrack, ProgramOf, DiskVersion
  <2>3. QED
    BY <1>1, <1>2, <1>3, <2>1, <2>2 DEF DispatchInv
<1>7. AnsweredInv'
  <2>1. CASE pc' = "dispatch"
    BY <1>1, <2>1, InterpreterAtWork
  <2>2. CASE pc' = "read"
    <3>1. ~Current
      BY <1>1, <1>2, <2>2
    <3>2. \A c \in Clients : ~(client[c].forwarded /\ (RanOtherCode(c) \/ MissedItsRoute(c)))
      BY <3>1 DEF IInv, AnsweredInv
    <3>3. QED
      BY <1>1, <3>2 DEF AnsweredInv, RanOtherCode, MissedItsRoute, DiskVersion
  <2>3. QED
    BY <1>1, <2>1, <2>2
<1> QED
  BY <1>3, <1>4, <1>5, <1>6, <1>7 DEF IInv

LEMMA ReloadBlockedStep == IInv /\ ReloadBlocked => IInv'
<1> SUFFICES ASSUME IInv, ReloadBlocked PROVE IInv'
  OBVIOUS
<1> USE DEF diskVars, loadedVars, reloadVars
<1>1. /\ pc = "read" /\ pc' = "dispatch" /\ diskMain.fault \in {"parse", "type"}
      /\ UNCHANGED <<clock, diskMain, diskLib, mainSeen, imported, registry, lastEval, raced,
                     asyncRoutes, source, libsRead, queue, client>>
  BY DEF ReloadBlocked
<1>2. QueueInv' /\ AnsweredInv' /\ ~HeadSteady'
  BY <1>1, InterpreterAtWork DEF DiskOk
<1>3. TypeOK'
  BY <1>1 DEF IInv, TypeOK, Steps
<1>4. TimeInv' /\ ImportsInv' /\ ReadingInv' /\ VersionInv' /\ TablesInv' /\ LoadedInv' /\ DispatchInv'
  BY <1>1, <1>2 DEF IInv, TimeInv, ImportsInv, ReadingInv, VersionInv, TablesInv, LoadedInv, DispatchInv,
                    ProgramOf, Reading
<1> QED
  BY <1>2, <1>3, <1>4 DEF IInv

LEMMA StartReloadStep == IInv /\ StartReload => IInv'
<1> SUFFICES ASSUME IInv, StartReload PROVE IInv'
  OBVIOUS
<1> USE DEF diskVars, loadedVars, reloadVars
<1>1. /\ pc = "read" /\ diskMain.fault \notin {"parse", "type"}
      /\ source' = diskMain /\ registry' = <<>> /\ imported' = <<>> /\ libsRead' = <<>> /\ raced' = FALSE
      /\ pc' = AfterImports(<<>>)
      /\ UNCHANGED <<clock, diskMain, diskLib, mainSeen, lastEval, asyncRoutes, queue, client>>
  BY DEF StartReload
<1>2. QueueInv' /\ AnsweredInv'
  BY <1>1, InterpreterAtWork
<1>3. DOMAIN <<>> = {} /\ <<>> \in [{} -> Times]
  OBVIOUS
<1>4. \/ pc' = "routes" /\ Libs = {}
      \/ pc' = "import" /\ Libs # {}
  BY <1>1, <1>3 DEF AfterImports
<1>5. diskMain \in MainSources /\ diskMain.fault \in {"ok", "eval"}
  BY <1>1, FaultsAssumption DEF IInv, TypeOK, MainSources
<1>6. TypeOK'
  BY <1>1, <1>3, <1>4 DEF IInv, TypeOK, Steps
<1>7. TimeInv'
  BY <1>1, <1>3 DEF IInv, TimeInv
<1>8. ImportsInv'
  <2>1. pc' = "import" => 0 \in 0..(Len(Imports) - 1)
    BY <1>4, FirstImportsCount
  <2>2. QED
    BY <1>1, <1>3, <1>4, <2>1, FirstImportsCount DEF ImportsInv
<1>9. ReadingInv'
  BY <1>1, <1>3, <1>4, <1>5 DEF ReadingInv, MainSources
<1>10. LoadedInv' /\ VersionInv' /\ TablesInv' /\ DispatchInv'
  BY <1>4 DEF LoadedInv, VersionInv, TablesInv, DispatchInv, Reading
<1> QED
  BY <1>2, <1>6, <1>7, <1>8, <1>9, <1>10 DEF IInv

LEMMA ImportFileStep == IInv /\ ImportFile => IInv'
<1> SUFFICES ASSUME IInv, ImportFile PROVE IInv'
  OBVIOUS
<1> USE DEF diskVars, loadedVars, reloadVars
<1> DEFINE f == Imports[Cardinality(DOMAIN libsRead) + 1]
<1>1. /\ pc = "import"
      /\ UNCHANGED <<clock, diskMain, diskLib, mainSeen, imported, registry, raced, asyncRoutes, queue, client>>
  BY DEF ImportFile
<1>2. PICK k \in 0..(Len(Imports) - 1) :
        DOMAIN libsRead = FirstImports(k) /\ DOMAIN imported = FirstImports(k)
  BY <1>1 DEF IInv, ImportsInv
<1>3. /\ f = Imports[k + 1] /\ f \in Libs /\ k + 1 \in 1..Len(Imports) /\ k + 1 - 1 = k
      /\ FirstImports(k + 1) = FirstImports(k) \cup {f}
      /\ FirstImports(k) # Libs /\ FirstImports(k) \subseteq Libs
  <2>1. k \in 0..Len(Imports) /\ k # Len(Imports) /\ k + 1 \in 1..Len(Imports) /\ k + 1 - 1 = k
    BY FirstImportsCount
  <2>2. QED
    BY <1>2, <2>1, FirstImportsCount
<1>4. QueueInv' /\ AnsweredInv' /\ HeadSteady' = HeadSteady /\ (HeadSteady => DiskOk)
  BY <1>1, InterpreterAtWork
<1>5. registry = <<>>
  BY <1>1 DEF IInv, ReadingInv, Reading
<1>6. /\ diskLib[f] \in LibSources /\ diskLib[f].at \in Times
      /\ libsRead \in [DOMAIN libsRead -> Times] /\ imported \in [DOMAIN imported -> Times]
  BY <1>3 DEF IInv, TypeOK, TimeInv, LibSources
<1>9. \/ diskLib[f].fault = "broken" /\ EvalFailed
      \/ /\ diskLib[f].fault = "ok" /\ libsRead' = Insert(libsRead, {f}, diskLib[f].at)
         /\ pc' = "track" /\ UNCHANGED <<source, lastEval>>
  BY DEF ImportFile
<1> HIDE DEF f
<1>7. CASE diskLib[f].fault = "broken" /\ EvalFailed
  <2>1. lastEval' = "failed" /\ source' = None /\ libsRead' = <<>> /\ pc' = "dispatch"
    BY <1>7 DEF EvalFailed
  <2>2. DOMAIN <<>> = {} /\ <<>> \in [{} -> Times]
    OBVIOUS
  <2>3. TypeOK'
    BY <1>1, <2>1, <2>2 DEF IInv, TypeOK, Steps
  <2>4. TimeInv'
    BY <1>1, <2>1, <2>2 DEF IInv, TimeInv
  <2>5. ~HeadSteady'
    BY <1>3, <1>4, <1>7 DEF DiskOk
  <2>6. ImportsInv' /\ ReadingInv' /\ VersionInv' /\ TablesInv' /\ DispatchInv'
    BY <2>1, <2>5 DEF ImportsInv, ReadingInv, VersionInv, TablesInv, DispatchInv, Reading
  <2>7. LoadedInv'
    BY <1>1, <1>2, <1>3, <1>5, <2>1 DEF LoadedInv
  <2>8. QED
    BY <1>4, <2>3, <2>4, <2>6, <2>7 DEF IInv
<1>8. CASE /\ diskLib[f].fault = "ok" /\ libsRead' = Insert(libsRead, {f}, diskLib[f].at)
           /\ pc' = "track" /\ UNCHANGED <<source, lastEval>>
  <2>1. /\ DOMAIN libsRead' = FirstImports(k + 1)
        /\ libsRead'[f] = diskLib[f].at
        /\ \A g \in DOMAIN libsRead' : g = f \/ (g \in DOMAIN libsRead /\ libsRead'[g] = libsRead[g])
        /\ libsRead' = [g \in DOMAIN libsRead' |-> libsRead'[g]]
    BY <1>2, <1>3, <1>8 DEF Insert
  <2>2. libsRead' \in [DOMAIN libsRead' -> Times] /\ DOMAIN libsRead' \subseteq Libs
    <3>1. \A g \in DOMAIN libsRead' : libsRead'[g] \in Times
      BY <1>6, <2>1
    <3>2. QED
      BY <1>3, <2>1, <3>1
  <2>3. TypeOK'
    BY <1>1, <1>8, <2>2 DEF IInv, TypeOK, Steps
  <2>4. TimeInv'
    BY <1>1, <2>2 DEF IInv, TimeInv
  <2>5. ImportsInv'
    BY <1>1, <1>2, <1>3, <1>8, <2>1 DEF ImportsInv
  <2>6. ReadingInv'
    BY <1>1, <1>4, <1>8, <2>1 DEF IInv, ReadingInv, Reading
  <2>7. LoadedInv' /\ VersionInv' /\ TablesInv' /\ DispatchInv'
    BY <1>8 DEF LoadedInv, VersionInv, TablesInv, DispatchInv, Reading
  <2>8. QED
    BY <1>4, <2>3, <2>4, <2>5, <2>6, <2>7 DEF IInv
<1> QED
  BY <1>7, <1>8, <1>9

LEMMA TrackImportStep == IInv /\ TrackImport => IInv'
<1> SUFFICES ASSUME IInv, TrackImport PROVE IInv'
  OBVIOUS
<1> USE DEF diskVars, loadedVars, reloadVars
<1> DEFINE f == Imports[Cardinality(DOMAIN libsRead)]
<1>1. /\ pc = "track" /\ pc' = AfterImports(libsRead)
      /\ imported' = Insert(imported, {f}, diskLib[f].at)
      /\ UNCHANGED <<clock, diskMain, diskLib, mainSeen, registry, lastEval, raced, asyncRoutes,
                     source, libsRead, queue, client>>
  BY DEF TrackImport
<1>2. PICK k \in 1..Len(Imports) :
        DOMAIN libsRead = FirstImports(k) /\ DOMAIN imported = FirstImports(k - 1)
  BY <1>1 DEF IInv, ImportsInv
<1>3. /\ f = Imports[k] /\ f \in Libs
      /\ FirstImports(k) = FirstImports(k - 1) \cup {f} /\ FirstImports(k) \subseteq Libs
      /\ k \in 0..Len(Imports) /\ (FirstImports(k) # Libs => k \in 0..(Len(Imports) - 1))
  <2>1. k \in 0..Len(Imports) /\ k - 1 \in 0..(Len(Imports) - 1) /\ k - 1 + 1 = k
    BY FirstImportsCount
  <2>2. FirstImports(k) # Libs => k # Len(Imports)
    BY FirstImportsCount
  <2>3. k # Len(Imports) => k \in 0..(Len(Imports) - 1)
    BY FirstImportsCount
  <2>4. QED
    BY <1>2, <2>1, <2>2, <2>3, FirstImportsCount
<1>4. QueueInv' /\ AnsweredInv' /\ HeadSteady' = HeadSteady
  BY <1>1, InterpreterAtWork
<1>5. \/ pc' = "routes" /\ FirstImports(k) = Libs
      \/ pc' = "import" /\ FirstImports(k) # Libs
  BY <1>1, <1>2 DEF AfterImports
<1>6. /\ diskLib[f].at \in Times /\ diskLib[f].at \in Nat
      /\ imported \in [DOMAIN imported -> Times]
  BY <1>3 DEF IInv, TypeOK, TimeInv, LibSources, Times
<1> HIDE DEF f
<1>7. /\ DOMAIN imported' = FirstImports(k)
      /\ imported'[f] = diskLib[f].at
      /\ \A g \in DOMAIN imported' : g = f \/ (g \in DOMAIN imported /\ imported'[g] = imported[g])
      /\ imported' = [g \in DOMAIN imported' |-> imported'[g]]
  BY <1>1, <1>2, <1>3 DEF Insert
<1>8. imported' \in [DOMAIN imported' -> Times] /\ DOMAIN imported' \subseteq Libs
  <2>1. \A g \in DOMAIN imported' : imported'[g] \in Times
    BY <1>6, <1>7
  <2>2. QED
    BY <1>3, <1>7, <2>1
<1>9. TypeOK'
  BY <1>1, <1>5, <1>8 DEF IInv, TypeOK, Steps
<1>10. TimeInv'
  <2>1. \A g \in DOMAIN imported' : imported'[g] <= diskLib[g].at
    BY <1>6, <1>7 DEF IInv, TimeInv
  <2>2. QED
    BY <1>1, <1>8, <2>1 DEF IInv, TimeInv
<1>11. ImportsInv'
  BY <1>1, <1>2, <1>3, <1>5, <1>7 DEF ImportsInv
<1>12. ReadingInv'
  BY <1>1, <1>4, <1>5, <1>7 DEF IInv, ReadingInv, Reading
<1>13. LoadedInv' /\ VersionInv' /\ TablesInv' /\ DispatchInv'
  BY <1>5 DEF LoadedInv, VersionInv, TablesInv, DispatchInv, Reading
<1> QED
  BY <1>4, <1>9, <1>10, <1>11, <1>12, <1>13 DEF IInv

LEMMA RegisterRoutesStep == IInv /\ RegisterRoutes => IInv'
<1> SUFFICES ASSUME IInv, RegisterRoutes PROVE IInv'
  OBVIOUS
<1> USE DEF diskVars, loadedVars, reloadVars
<1> DEFINE v == [main |-> source, libs |-> libsRead]
<1>1. /\ pc = "routes"
      /\ UNCHANGED <<clock, diskMain, diskLib, mainSeen, imported, raced, asyncRoutes, queue, client>>
  BY DEF RegisterRoutes
<1>2. /\ registry = <<>> /\ source \in MainSources
      /\ HeadSteady => ~raced
      /\ ~raced => source = diskMain
      /\ DOMAIN libsRead = Libs /\ DOMAIN imported = Libs
  BY <1>1 DEF IInv, ReadingInv, ImportsInv, Reading
<1>3. v \in Versions
  BY <1>2 DEF IInv, TimeInv, Versions
<1>4. source.paths \subseteq Paths
  BY <1>2 DEF MainSources
<1>5. QueueInv' /\ AnsweredInv' /\ HeadSteady' = HeadSteady /\ (HeadSteady => DiskOk)
  BY <1>1, InterpreterAtWork
<1> HIDE DEF v
<1>6. ASSUME NEW ps \in SUBSET source.paths, registry' = Insert(registry, ps, v)
      PROVE  /\ registry' = [p \in ps |-> v]
             /\ DOMAIN registry' \subseteq Paths /\ \A p \in DOMAIN registry' : registry'[p] \in Versions
  <2>1. registry' = [p \in ps |-> v]
    BY <1>2, <1>6 DEF Insert
  <2>2. QED
    BY <1>3, <1>4, <2>1
<1>7. CASE /\ source.fault = "eval"
           /\ \E ps \in SUBSET source.paths : registry' = Insert(registry, ps, v)
           /\ EvalFailed
  <2>1. lastEval' = "failed" /\ source' = None /\ libsRead' = <<>> /\ pc' = "dispatch"
    BY <1>7 DEF EvalFailed
  <2>2. DOMAIN <<>> = {} /\ <<>> \in [{} -> Times]
    OBVIOUS
  <2>3. DOMAIN registry' \subseteq Paths /\ \A p \in DOMAIN registry' : registry'[p] \in Versions
    BY <1>6, <1>7
  <2>4. TypeOK'
    BY <1>1, <2>1, <2>2, <2>3 DEF IInv, TypeOK, Steps
  <2>5. TimeInv'
    BY <1>1, <2>1, <2>2 DEF IInv, TimeInv
  <2>6. ~HeadSteady'
    BY <1>2, <1>5, <1>7 DEF DiskOk
  <2>7. ImportsInv' /\ ReadingInv' /\ VersionInv' /\ TablesInv' /\ DispatchInv'
    BY <2>1, <2>6 DEF ImportsInv, ReadingInv, VersionInv, TablesInv, DispatchInv, Reading
  <2>8. LoadedInv'
    BY <1>1, <1>2, <1>7, <2>1 DEF LoadedInv
  <2>9. QED
    BY <1>5, <2>4, <2>5, <2>7, <2>8 DEF IInv
<1>8. CASE /\ source.fault = "ok"
           /\ registry' = Insert(registry, source.paths, v)
           /\ pc' = "mtime" /\ UNCHANGED <<source, libsRead, lastEval>>
  <2>1. /\ registry' = [p \in source.paths |-> v]
        /\ DOMAIN registry' \subseteq Paths /\ \A p \in DOMAIN registry' : registry'[p] \in Versions
    BY <1>6, <1>8
  <2>2. registry' = ProgramOf(v)
    BY <2>1 DEF ProgramOf, v
  <2>3. TypeOK'
    BY <1>1, <1>8, <2>1 DEF IInv, TypeOK, Steps
  <2>4. TimeInv' /\ ImportsInv'
    BY <1>1, <1>2, <1>8 DEF IInv, TimeInv, ImportsInv
  <2>5. ReadingInv'
    BY <1>1, <1>5, <1>8, <2>2 DEF IInv, ReadingInv, Reading, ProgramOf, v
  <2>6. LoadedInv' /\ VersionInv' /\ TablesInv' /\ DispatchInv'
    BY <1>8 DEF LoadedInv, VersionInv, TablesInv, DispatchInv, Reading
  <2>7. QED
    BY <1>5, <2>3, <2>4, <2>5, <2>6 DEF IInv
<1> QED
  BY <1>7, <1>8 DEF RegisterRoutes, v

(***************************************************************************)
(* A reload that ends well and that no edit disturbed has loaded the       *)
(* version on disk.                                                        *)
(***************************************************************************)
LEMMA RecordMainTimeStep == IInv /\ RecordMainTime => IInv'
<1> SUFFICES ASSUME IInv, RecordMainTime PROVE IInv'
  OBVIOUS
<1> USE DEF diskVars, loadedVars, reloadVars
<1> DEFINE v == [main |-> source, libs |-> libsRead]
<1>1. /\ pc = "mtime" /\ pc' = "clear"
      /\ mainSeen' = diskMain.at /\ lastEval' = "ok" /\ source' = None /\ libsRead' = <<>>
      /\ UNCHANGED <<clock, diskMain, diskLib, imported, registry, raced, asyncRoutes, queue, client>>
  BY DEF RecordMainTime
<1>2. /\ source \in MainSources /\ registry = ProgramOf(v)
      /\ HeadSteady => ~raced
      /\ DOMAIN libsRead = Libs /\ DOMAIN imported = Libs
      /\ libsRead \in [Libs -> Times] /\ imported \in [Libs -> Times]
      /\ ~raced => /\ source = diskMain
                   /\ \A f \in Libs : libsRead[f] = diskLib[f].at /\ imported[f] = diskLib[f].at
  BY <1>1 DEF IInv, ReadingInv, ImportsInv, TimeInv, Reading
<1>3. v \in Versions /\ v.main = source /\ v.libs = libsRead
  BY <1>2 DEF Versions
<1>4. ASSUME ~raced
      PROVE  v = DiskVersion /\ v.main = diskMain /\ v.libs = imported
  <2>1. libsRead = [f \in Libs |-> diskLib[f].at] /\ imported = [f \in Libs |-> diskLib[f].at]
    BY <1>2, <1>4
  <2>2. QED
    BY <1>2, <1>4, <2>1 DEF DiskVersion
<1> HIDE DEF v
<1>5. QueueInv' /\ AnsweredInv' /\ HeadSteady' = HeadSteady
  BY <1>1, InterpreterAtWork
<1>6. DOMAIN <<>> = {} /\ <<>> \in [{} -> Times]
  OBVIOUS
<1>7. diskMain.at \in Times /\ diskMain.at \in Nat
  BY DEF IInv, TypeOK, MainSources, Times
<1>8. TypeOK'
  BY <1>1, <1>6, <1>7 DEF IInv, TypeOK, Steps
<1>9. TimeInv'
  BY <1>1, <1>6, <1>7 DEF IInv, TimeInv
<1>10. ImportsInv' /\ ReadingInv'
  BY <1>1 DEF ImportsInv, ReadingInv, Reading
<1>11. LoadedInv' /\ VersionInv'
  <2>1. registry' = ProgramOf(v)
    BY <1>1, <1>2
  <2>2. VersionInv'
    BY <1>3, <2>1 DEF VersionInv, ProgramOf
  <2>3. ~raced => /\ v.main.at = mainSeen' /\ v.libs = imported' /\ diskMain' = v.main
    BY <1>1, <1>4
  <2>4. LoadedInv'
    BY <1>1, <1>3, <2>1, <2>3 DEF LoadedInv, ProgramOf
  <2>5. QED
    BY <2>2, <2>4
<1>12. TablesInv'
  BY <1>1 DEF TablesInv
<1>13. DispatchInv'
  BY <1>1, <1>2, <1>4, <1>5 DEF DispatchInv, ProgramOf, DiskVersion
<1> QED
  BY <1>5, <1>8, <1>9, <1>10, <1>11, <1>12, <1>13 DEF IInv

LEMMA CopyingSteps == IInv /\ (ClearAsync \/ CopyRoute \/ CopyDone) => IInv'
<1> SUFFICES ASSUME IInv, ClearAsync \/ CopyRoute \/ CopyDone PROVE IInv'
  OBVIOUS
<1> USE DEF diskVars, loadedVars, reloadVars
<1>1. /\ pc \in {"clear", "copy"} /\ pc' \in {"copy", "dispatch"}
      /\ UNCHANGED <<clock, diskMain, diskLib, mainSeen, imported, registry, lastEval, raced,
                     source, libsRead, queue, client>>
  BY DEF ClearAsync, CopyRoute, CopyDone
<1>2. QueueInv' /\ AnsweredInv' /\ HeadSteady' = HeadSteady
  BY <1>1, InterpreterAtWork
<1>3. DOMAIN registry \subseteq Paths /\ (pc = "copy" => asyncRoutes \subseteq DOMAIN registry)
  BY DEF IInv, TypeOK, TablesInv
<1>4. /\ asyncRoutes' \subseteq DOMAIN registry
      /\ pc' = "dispatch" => asyncRoutes' = DOMAIN registry
  <2>1. CASE ClearAsync
    BY <2>1 DEF ClearAsync
  <2>2. CASE CopyRoute
    BY <1>3, <2>2 DEF CopyRoute
  <2>3. CASE CopyDone
    BY <1>3, <2>3 DEF CopyDone
  <2>4. QED
    BY <2>1, <2>2, <2>3
<1>5. TypeOK'
  BY <1>1, <1>3, <1>4 DEF IInv, TypeOK, Steps
<1>6. TablesInv'
  BY <1>1, <1>4 DEF IInv, TablesInv
<1>7. TimeInv' /\ ImportsInv' /\ ReadingInv'
  BY <1>1 DEF IInv, TimeInv, ImportsInv, ReadingInv, Reading
<1>8. LoadedInv' /\ VersionInv'
  BY <1>1 DEF IInv, LoadedInv, VersionInv, ProgramOf, Reading
<1>9. DispatchInv'
  BY <1>1, <1>2 DEF IInv, DispatchInv, ProgramOf, DiskVersion, Current, Excused, LostTrack
<1> QED
  BY <1>2, <1>5, <1>6, <1>7, <1>8, <1>9 DEF IInv

(***************************************************************************)
(* The answer.                                                             *)
(***************************************************************************)
LEMMA DispatchStep == IInv /\ Dispatch => IInv'
<1> SUFFICES ASSUME IInv, Dispatch PROVE IInv'
  OBVIOUS
<1> USE DEF diskVars, loadedVars, reloadVars
<1> DEFINE c == Head(queue)
           answer == IF client[c].path \in DOMAIN registry THEN registry[client[c].path] ELSE NotFound
<1>1. /\ pc = "dispatch" /\ pc' = "recv" /\ queue' = Tail(queue)
      /\ client' = [client EXCEPT ![c].state = "answered", ![c].answer = answer]
      /\ UNCHANGED <<clock, diskMain, diskLib, mainSeen, imported, registry, lastEval, raced,
                     asyncRoutes, source, libsRead>>
  BY DEF Dispatch
<1>2. queue # <<>> /\ TypeOK
  BY <1>1 DEF IInv, QueueInv
<1>3. /\ c \in Clients /\ c = queue[1] /\ 1 \in DOMAIN queue
      /\ queue' \in Seq(Clients) /\ (\A i \in DOMAIN queue' : queue'[i] = queue[i + 1] /\ i + 1 \in DOMAIN queue /\ i + 1 # 1)
      /\ DOMAIN queue' = 1..(Len(queue) - 1) /\ Len(queue) \in Nat
  BY <1>1, <1>2, HeadOfLine
<1>4. client \in [Clients -> ClientStates] /\ client[c].state = "queued" /\ client[c].forwarded
  BY <1>2, <1>3 DEF IInv, TypeOK, QueueInv
<1>5. answer \in Versions \cup {NotFound}
  BY <1>2 DEF TypeOK
<1> HIDE DEF c, answer
<1>6. /\ client' \in [Clients -> ClientStates]
      /\ client'[c] = [client[c] EXCEPT !.state = "answered", !.answer = answer]
      /\ \A d \in Clients : d # c => client'[d] = client[d]
  <2>1. client[c] \in ClientStates
    BY <1>3, <1>4
  <2>2. [client[c] EXCEPT !.state = "answered", !.answer = answer] \in ClientStates
    BY <1>5, <2>1 DEF ClientStates
  <2>3. client' = [client EXCEPT ![c] = [client[c] EXCEPT !.state = "answered", !.answer = answer]]
    BY <1>1
  <2>4. QED
    BY <1>3, <1>4, <2>2, <2>3
<1>7. /\ client'[c].state = "answered" /\ client'[c].answer = answer /\ client'[c].steady = client[c].steady
      /\ client'[c].forwarded /\ client'[c].path = client[c].path
  BY <1>3, <1>4, <1>6 DEF ClientStates
<1>8. TypeOK'
  BY <1>1, <1>3, <1>6 DEF IInv, TypeOK, Steps
<1>9. QueueInv'
  <2>1. \A i \in DOMAIN queue' : queue'[i] \in Clients /\ queue'[i] # c /\ client[queue'[i]].state = "queued"
    BY <1>3 DEF IInv, TypeOK, QueueInv
  <2>2. ASSUME NEW i \in DOMAIN queue', NEW j \in DOMAIN queue', queue'[i] = queue'[j]
        PROVE  i = j
    <3>1. i + 1 = j + 1
      BY <1>3, <2>2 DEF IInv, QueueInv
    <3>2. QED
      BY <1>3, <3>1
  <2>3. DiskOk' = DiskOk
    BY <1>1 DEF DiskOk
  <2>4. QED
    BY <1>1, <1>6, <1>7, <2>1, <2>2, <2>3 DEF IInv, QueueInv
<1>10. TimeInv' /\ ImportsInv' /\ ReadingInv' /\ LoadedInv' /\ VersionInv' /\ TablesInv' /\ DispatchInv'
  BY <1>1 DEF IInv, TimeInv, ImportsInv, ReadingInv, LoadedInv, VersionInv, TablesInv, DispatchInv,
              ProgramOf, Reading
<1>11. AnsweredInv'
  <2> SUFFICES ASSUME NEW d \in Clients, client'[d].forwarded, RanOtherCode(d)' \/ MissedItsRoute(d)'
               PROVE  Current /\ (raced \/ (client'[d].answer = NotFound /\ LostTrack))
    BY <1>1 DEF AnsweredInv, Current, LostTrack
  <2>1. CASE d # c
    BY <1>1, <1>6, <2>1 DEF IInv, AnsweredInv, RanOtherCode, MissedItsRoute, DiskVersion
  <2>2. CASE d = c
    <3>1. HeadSteady
      BY <1>2, <1>7, <2>2 DEF c, HeadSteady, RanOtherCode, MissedItsRoute
    <3>2. registry # ProgramOf(DiskVersion)
      <4> SUFFICES ASSUME registry = ProgramOf(DiskVersion) PROVE FALSE
        OBVIOUS
      <4>1. DiskVersion \in Versions
        BY <1>2 DEF DiskVersion, Versions, TypeOK, LibSources
      <4>2. registry = [p \in diskMain.paths |-> DiskVersion]
        BY DEF ProgramOf, DiskVersion
      <4>3. answer = IF client[c].path \in diskMain.paths THEN DiskVersion ELSE NotFound
        BY <4>2 DEF answer
      <4>4. ~RanOtherCode(d)'
        BY <1>1, <1>7, <2>2, <4>3 DEF RanOtherCode, DiskVersion
      <4>5. ~MissedItsRoute(d)'
        BY <1>1, <1>7, <2>2, <4>1, <4>3, NotFoundAssumption DEF MissedItsRoute
      <4>6. QED
        BY <4>4, <4>5
    <3>3. Current /\ Excused
      BY <1>1, <3>1, <3>2 DEF IInv, DispatchInv
    <3>4. registry = <<>> => answer = NotFound
      BY DEF answer
    <3>5. QED
      BY <1>7, <2>2, <3>3, <3>4 DEF Excused
  <2>3. QED
    BY <2>1, <2>2
<1> QED
  BY <1>8, <1>9, <1>10, <1>11 DEF IInv

(***************************************************************************)
(* The theorems.                                                           *)
(***************************************************************************)
LEMMA NextStep == IInv /\ [Next]_vars => IInv'
<1> SUFFICES ASSUME IInv, [Next]_vars PROVE IInv'
  OBVIOUS
<1>1. CASE EditMain
  BY <1>1, EditMainStep
<1>2. CASE \E f \in Libs : EditImport(f)
  BY <1>2, EditImportStep
<1>3. CASE \E c \in Clients, p \in Paths : Arrive(c, p)
  BY <1>3, ArriveStep
<1>4. CASE \E c \in Clients : Leave(c)
  BY <1>4, LeaveStep
<1>5. CASE InterpStep
  BY <1>5, ReceiveStep, StatStep, ReloadBlockedStep, StartReloadStep, ImportFileStep, TrackImportStep,
     RegisterRoutesStep, RecordMainTimeStep, CopyingSteps, DispatchStep DEF InterpStep
<1>6. CASE UNCHANGED vars
  <2> USE <1>6 DEF vars, diskVars, loadedVars, reloadVars
  <2>1. TypeOK'
    BY DEF IInv, TypeOK
  <2>2. QueueInv' /\ AnsweredInv'
    <3>1. /\ DiskOk' = DiskOk /\ Current' = Current /\ LostTrack' = LostTrack
          /\ \A c \in Clients : RanOtherCode(c)' = RanOtherCode(c) /\ MissedItsRoute(c)' = MissedItsRoute(c)
      BY DEF DiskOk, Current, LostTrack, RanOtherCode, MissedItsRoute, DiskVersion
    <3>2. QED
      BY <3>1 DEF IInv, QueueInv, AnsweredInv
  <2>3. TimeInv' /\ ImportsInv' /\ LoadedInv' /\ VersionInv' /\ TablesInv'
    BY DEF IInv, TimeInv, ImportsInv, LoadedInv, VersionInv, TablesInv, ProgramOf
  <2>4. ReadingInv' /\ DispatchInv'
    BY DEF IInv, ReadingInv, DispatchInv, HeadSteady, ProgramOf, DiskVersion, Current, Excused, LostTrack
  <2>5. QED
    BY <2>1, <2>2, <2>3, <2>4 DEF IInv
<1>7. QED
  BY <1>1, <1>2, <1>3, <1>4, <1>5, <1>6 DEF Next

\* The inductive invariant holds of every behaviour; its first conjunct is the
\* type invariant.
THEOREM Invariance == Spec => []IInv
<1>1. IInv /\ [Next]_vars => IInv'
  BY NextStep
<1>2. QED
  BY <1>1, InitHolds, PTL DEF Spec

\* Each variable has its type: the tables hold routes of the program, with code
\* of versions that were on disk.
THEOREM TypeCorrect == Spec => []TypeOK
<1>1. IInv => TypeOK
  BY DEF IInv
<1>2. QED
  BY <1>1, Invariance, PTL

\* The server runs one whole version of the program, never the handlers of two.
THEOREM VersionsAreWhole == Spec => []OneWholeVersion
<1>1. ASSUME IInv PROVE OneWholeVersion
  <2> SUFFICES ASSUME pc \notin Reading, lastEval = "ok"
               PROVE  registry = <<>> \/ \E p \in DOMAIN registry : registry = ProgramOf(registry[p])
    BY DEF OneWholeVersion
  <2>1. PICK v \in Versions : registry = ProgramOf(v)
    BY <1>1 DEF IInv, VersionInv
  <2>2. registry = [p \in v.main.paths |-> v]
    BY <2>1 DEF ProgramOf
  <2>3. CASE v.main.paths = {}
    BY <2>2, <2>3
  <2>4. CASE v.main.paths # {}
    <3>1. PICK p \in v.main.paths : TRUE
      BY <2>4
    <3>2. p \in DOMAIN registry /\ registry[p] = v
      BY <2>2
    <3>3. QED
      BY <2>1, <3>2
  <2>5. QED
    BY <2>3, <2>4
<1>2. QED
  BY <1>1, Invariance, PTL

\* Between requests the async server knows exactly the routes the interpreter serves.
THEOREM TablesOfOneMind == Spec => []TablesAgree
<1>1. IInv => TablesAgree
  BY DEF IInv, TablesInv, TablesAgree
<1>2. QED
  BY <1>1, Invariance, PTL

\* A request that no edit disturbs runs the sources on disk, with the named exceptions.
THEOREM RequestsRunTheDisk == Spec => []RunsWhatIsOnDisk
<1>1. ASSUME IInv PROVE RunsWhatIsOnDisk
  <2> SUFFICES ASSUME ~raced, NEW c \in Clients
               PROVE  ~RanOtherCode(c) /\ (client[c].forwarded /\ ~LostTrack => ~MissedItsRoute(c))
    BY DEF RunsWhatIsOnDisk
  <2>1. CASE client[c].forwarded
    <3>1. RanOtherCode(c) \/ MissedItsRoute(c) => client[c].answer = NotFound /\ LostTrack
      BY <1>1, <2>1 DEF IInv, AnsweredInv
    <3>2. QED
      BY <2>1, <3>1 DEF RanOtherCode
  <2>2. CASE ~client[c].forwarded
    <3>1. client[c].state = "answered" => client[c].answer = NotFound
      BY <1>1, <2>2 DEF IInv, QueueInv
    <3>2. QED
      BY <2>2, <3>1 DEF RanOtherCode
  <2>3. QED
    BY <2>1, <2>2
<1>2. QED
  BY <1>1, Invariance, PTL
=============================================================================
