---------------------------- MODULE ModulesProps ----------------------------
(***************************************************************************)
(* Programs of a few files, whose statements are put in one by one, and    *)
(* what the text of the files says they mean.                              *)
(***************************************************************************)
EXTENDS Samples, Modules

CONSTANT MaxChanges   \* statements put into the files of a program

Defines(x) == [do |-> "define", name |-> <<x>>]
Uses(x) == [do |-> "use", name |-> <<x>>]
Imports(source, items, as) == [do |-> "import", source |-> source, items |-> items, as |-> as]
ItemAs(x, as) == [name |-> <<x>>, as |-> <<as>>]
CallsRoutes == [do |-> "routes"]
Garbled == [do |-> "garbled"]

MainFile == FileAt(MainPath)
Beside(x) == <<<<x, "tnt">>>>
InFolder(folder, x) == <<<<folder>>, <<x, "tnt">>>>

\* Two modules beside the main file, or an application with a routes directory.
TwoModules == (MainFile :> <<>>) @@ (Beside("a") :> <<Defines("x")>>) @@ (Beside("b") :> <<Defines("x")>>)
Application ==
    (MainFile :> <<Defines("x"), CallsRoutes>>) @@ (Beside("a") :> <<Defines("x")>>)
    @@ (InFolder("lib", "l") :> <<Defines("x")>>) @@ (InFolder("middleware", "m") :> <<Defines("middleware")>>)
    @@ (InFolder("routes", "r") :> <<Defines("get")>>)

HasRoutes(files) == CallsRoutes \in ToSet(files[MainFile])
Additions(f, files) ==
    LET up == IF Len(f) = 1 THEN <<".">> ELSE <<"..">>
        a == <<up, <<"a">>>>
        other == IF Beside("b") \in DOMAIN files THEN <<up, <<"b">>>> ELSE <<up, <<"lib">>, <<"l">>>>
        x == <<ItemAs("x", "x")>>
    IN {Imports(source, x, <<>>) : source \in {a, other, <<<<"a", "tnt">>>>}}
       \cup {Imports(<<<<"std">>, <<"text">>>>, <<ItemAs("trim", "trim"), ItemAs("x", "x")>>, <<>>), Garbled}
       \cup IF HasRoutes(files) THEN {Imports(a, <<ItemAs("x", "get")>>, <<>>), Imports(a, <<>>, <<"l">>), Uses("l")}
             ELSE {Imports(a, <<>>, <<>>), Uses("x")}

ModulesStarts == {<<"modules", files, 0>> : files \in {TwoModules, Application}}
ModulesGrow ==
    /\ Family = "modules"
    /\ shape[3] < MaxChanges
    /\ \E f \in DOMAIN shape[2] : \E st \in Additions(f, shape[2]), first \in {FALSE, f = MainFile /\ HasRoutes(shape[2])} :
        shape' = <<"modules", [shape[2] EXCEPT ![f] = IF first THEN <<st>> \o @ ELSE Append(@, st)], shape[3] + 1>>

-----------------------------------------------------------------------------
(* The files as a graph of imports *)
Parses(files, f) == Garbled \notin ToSet(files[f])
FromFile(st) == st.do = "import" /\ st.source[1] # <<"std">>
MayFail(st) == st.do \in {"garbled", "use"} \/ (st.do = "import" /\ ~FromFile(st))
LeadsTo(f, st) == FileAt(FilePath(<<AppRoot>> \o f, st.source))
Targets(files, f) == {LeadsTo(f, st) : st \in {t \in ToSet(files[f]) : FromFile(t)}}

RECURSIVE Closed(_, _)
Closed(files, reached) ==
    LET more == reached \cup UNION {Targets(files, f) : f \in reached}
    IN IF more = reached THEN reached ELSE Closed(files, more)
Reached(files, f) == Closed(files, Targets(files, f))

FilesIn(files, folder) == {f \in DOMAIN files : Len(f) = 2 /\ f[1] = <<folder>>}
Helpers(files) == FilesIn(files, "lib") \cup FilesIn(files, "middleware")
Units(files) == {MainFile} \cup Helpers(files) \cup FilesIn(files, "routes")   \* what is not loaded by an import
Cyclic(files) == \E f \in DOMAIN files : f \in Reached(files, f) /\ \E u \in Units(files) : f \in Reached(files, u) \cup {u}

-----------------------------------------------------------------------------
(* What a name means, by the text of the files: none is its own import *)
RECURSIVE NamesAfter(_, _, _, _)
NamesAfter(files, f, n, given) ==   \* of the first n statements
    FoldLeft(LAMBDA names, st :
                CASE st.do = "define" -> (st.name :> <<"of", f, st.name>>) @@ names
                  [] st.do = "import" /\ FromFile(st) ->
                        LET there == NamesAfter(files, LeadsTo(f, st), Len(files[LeadsTo(f, st)]), <<>>)
                        IN IF st.items # <<>> THEN (st.items[1].as :> there[st.items[1].name]) @@ names
                           ELSE ((IF st.as # <<>> THEN st.as ELSE Last(LeadsTo(f, st))) :> <<"names", there>>) @@ names
                  [] OTHER -> names,
             given @@ (<<"print">> :> <<"native", <<"print">>>>), SubSeq(files[f], 1, n))

RECURSIVE SoundFile(_, _, _)
SoundFile(files, f, given) ==
    Parses(files, f) /\ \A i \in DOMAIN files[f] :
        LET st == files[f][i]
        IN /\ st.do = "use" => st.name \in DOMAIN NamesAfter(files, f, i - 1, given)
           /\ st.do = "import" => FromFile(st) /\ SoundFile(files, LeadsTo(f, st), <<>>)

NamesOf(files, f, given) == NamesAfter(files, f, Len(files[f]), given)
OwnNames(names) == [x \in {y \in DOMAIN names : names[y][1] # "native"} |-> names[x]]
GivenTo(files, f) ==
    IF f \notin FilesIn(files, "routes") THEN <<>>
    ELSE LET libs == {g \in FilesIn(files, "lib") : SoundFile(files, g, <<>>)}
         IN [x \in {<<g[2][1]>> : g \in libs} |->
                <<"names", OwnNames(NamesOf(files, InFolder("lib", x[1]), <<>>))>>]
SoundUnit(files, u) == SoundFile(files, u, GivenTo(files, u))

RECURSIVE MeaningOf(_, _)
MeaningOf(s, v) ==   \* the same of a value
    CASE v[1] = "own" -> <<"of", FileAt(s.of[v[2]]), v[3]>>
      [] v[1] = "module" -> <<"names", [x \in DOMAIN v[2] |-> MeaningOf(s, v[2][x])]>>
      [] OTHER -> v
AllMeant(s, values) == [x \in DOMAIN values |-> MeaningOf(s, values[x])]

-----------------------------------------------------------------------------
RECURSIVE TimesImported(_, _, _)   \* how many times f imports g, itself or through others
TimesImported(files, f, g) ==
    FoldLeft(LAMBDA n, st : IF ~FromFile(st) THEN n
                            ELSE n + (IF LeadsTo(f, st) = g THEN 1 ELSE 0) + TimesImported(files, LeadsTo(f, st), g),
             0, files[f])

(* An evaluation failure of one of these is passed over, with the          *)
(* interpreter left in the environment of the file that failed.            *)
Broken(files) == {f \in Helpers(files) : Parses(files, f) /\ ~SoundUnit(files, f)}
\* A source written as the key of loaded_modules: not read again, and not tracked again.
WrittenAsKey(files) == \E f \in DOMAIN files : \E st \in ToSet(files[f]) : FromFile(st) /\ st.source = Beside("a")

LoadsAsWritten(files, s) ==
    LET taken == {u \in Units(files) : SoundUnit(files, u)}
        FilesAt(paths) == {FileAt(path) : path \in paths}
        Evaluated(g) == Cardinality({i \in DOMAIN s.of : FileAt(s.of[i]) = g})
        tracked == UNION {Reached(files, u) : u \in taken \ FilesIn(files, "routes")}
    IN /\ s.env = 1 /\ s.current = MainPath
       /\ \A i \in DOMAIN s.envs : LET f == FileAt(s.of[i])
                                   IN AllMeant(s, s.envs[i]) = NamesOf(files, f, GivenTo(files, f))
       /\ FilesAt(s.imported) \subseteq tracked /\ (WrittenAsKey(files) \/ FilesAt(s.imported) = tracked)
       /\ \A i \in DOMAIN s.routes : \A f \in {FileAt(s.routes[i].file)} :
            /\ FilesAt(s.routes[i].imports) \subseteq Reached(files, f)
            /\ WrittenAsKey(files) \/ FilesAt(s.routes[i].imports) = Reached(files, f)
            /\ AllMeant(s, s.routes[i].handlers)
               = [x \in {y \in DOMAIN NamesOf(files, f, <<>>) : y = <<"get">>} |-> NamesOf(files, f, <<>>)[x]]
       /\ WrittenAsKey(files) \/ \A g \in DOMAIN files :
            Evaluated(g) = (IF g \in taken THEN 1 ELSE 0)
                           + FoldLeft(LAMBDA n, u : n + TimesImported(files, u, g), 0, SetToSeq(taken))

(* A program whose files import each other in no circle loads when every   *)
(* name it uses is there, and is in its main file afterwards: each name    *)
(* means what the text says, each file reached by imports is tracked, by   *)
(* the route that reaches it, and is evaluated anew by every import; one   *)
(* whose files do never loads. Exceptions: Broken, WrittenAsKey.           *)
ModulesLoad ==
    Family = "modules" => \A files \in {shape[2]} : \A r \in {LoadProgram(files)} :
        IF Cyclic(files)
        THEN (\A f \in DOMAIN files : \A st \in ToSet(files[f]) : ~MayFail(st)) => r.end = "endless"
        ELSE /\ Broken(files) = {} => (r.end = "ok") = \A u \in Units(files) \ Helpers(files) : SoundUnit(files, u)
             /\ r.end = "ok" => IF Broken(files) = {} THEN LoadsAsWritten(files, r.s) ELSE r.s.env # 1
=============================================================================
