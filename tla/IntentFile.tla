----------------------------- MODULE IntentFile -----------------------------
(***************************************************************************)
(* How an intent file is read, line by line: which section each line goes  *)
(* to. `intent` is what parse_content has after the lines it read,         *)
(* `glossary` what parse_glossary has after those of its text.             *)
(*                                                                         *)
(* Modelled from IntentFile::parse_content (src/src/intent.rs) and         *)
(* parse_glossary (src/src/ial/standard.rs). A line is its kind, named by  *)
(* what it starts with; "row" is a line of a table ("row ---": with three  *)
(* dashes in a cell), "term" one that ends with a colon and is not         *)
(* indented, "-" an item of a list, "- ?" one that parse_assertion cannot  *)
(* read, "text" anything else. Sections and lines are known by the number  *)
(* of their line: `owner` says into which section a line was put (0:       *)
(* nowhere), `kept` which sections the result has. What a field holds is   *)
(* left out; comments and blank lines too.                                 *)
(***************************************************************************)
EXTENDS Integers, Sequences, FiniteSets, SequencesExt

VARIABLES intent, glossary

Nowhere == 0
Glossary == -1   \* the one glossary, for its rows
Unread ==
    [expecting |-> FALSE, title |-> FALSE,
     glossary |-> FALSE, bindings |-> FALSE,   \* in_glossary, _in_glossary_bindings
     feature |-> Nowhere, component |-> Nowhere, invariant |-> Nowhere, data |-> Nowhere,
     scenario |-> Nowhere, test |-> Nowhere, binding |-> Nowhere,
     assertions |-> FALSE, inherent |-> FALSE, invariantAssertions |-> FALSE,
     columns |-> FALSE, assertList |-> FALSE, setup |-> FALSE,
     owner |-> <<>>, kept |-> <<>>]

Into(st, section) == [st EXCEPT !.owner = Append(@, section)]
Dropped(st) == Into(st, Nowhere)

\* what field `f` is open in closes, and is in the result
Save(st, f) ==
    [st EXCEPT ![f] = Nowhere, !.kept = IF st[f] = Nowhere THEN @ ELSE Append(@, st[f])]

\* scenarios and tests are saved in the feature or component they are in
SaveBinding(st) == Save(st, "binding")
SaveComponent(st) ==
    IF st.component = Nowhere THEN st ELSE Save(Save(st, "component"), "scenario")
SaveFeature(st) ==
    IF st.feature = Nowhere THEN st ELSE Save(Save(Save(st, "feature"), "test"), "scenario")
SaveInvariant(st) == Save(st, "invariant")
SaveData(st) == Save(st, "data")

-----------------------------------------------------------------------------
(* `---` closes a component, its scenario, the scenario of a feature and a *)
(* glossary; the feature stays, and so do an invariant and test data.      *)
Separator(st) ==
    LET inner == IF st.feature = Nowhere THEN st ELSE Save(Save(st, "test"), "scenario")
    IN Dropped([SaveBinding(SaveComponent(inner))
                  EXCEPT !.scenario = Nowhere, !.test = Nowhere, !.glossary = FALSE,
                         !.inherent = FALSE, !.bindings = FALSE, !.assertList = FALSE])

Title(st) == Dropped([st EXCEPT !.expecting = TRUE])
GlossaryHeader(st, n) == Into([st EXCEPT !.glossary = TRUE, !.bindings = FALSE], n)
BindingsHeader(st, n) == Into([st EXCEPT !.bindings = TRUE], n)

(* Within the technical bindings every line is taken, understood or not. *)
BindingFields == {"setup:", "setup: |", "action:", "body:", "precondition:", "path:"}
BindingLine(st, line, n) ==
    CASE line = "term" ->
            Into([SaveBinding(st) EXCEPT !.binding = n, !.assertList = FALSE, !.setup = FALSE], n)
      [] line # "term" /\ st.binding = Nowhere -> Dropped(st)
      [] line \in {"-", "- ?"} /\ st.binding # Nowhere /\ st.assertList -> Into(st, st.binding)
      [] line \in BindingFields /\ st.binding # Nowhere ->
            Into([st EXCEPT !.assertList = FALSE, !.setup = (line = "setup: |") \/ (@ /\ line # "setup:")], st.binding)
      [] line = "assert:" /\ st.binding # Nowhere -> Into([st EXCEPT !.assertList = TRUE], st.binding)
      [] OTHER ->   \* the first line that is nothing else continues `setup: |`
            IF st.setup THEN Into([st EXCEPT !.setup = FALSE], st.binding) ELSE Dropped(st)

-----------------------------------------------------------------------------
Feature(st, n) ==
    Into([SaveFeature(SaveComponent(st))
            EXCEPT !.feature = n, !.test = Nowhere, !.scenario = Nowhere, !.component = Nowhere,
                   !.assertions = FALSE, !.glossary = FALSE, !.inherent = FALSE, !.bindings = FALSE], n)

\* mutant: like a feature, a component leaves an invariant before it open
ComponentKeepingInvariant(st, n) ==
    Into([SaveFeature(SaveComponent(st))
            EXCEPT !.component = n, !.test = Nowhere, !.scenario = Nowhere, !.assertions = FALSE,
                   !.glossary = FALSE, !.inherent = FALSE, !.bindings = FALSE], n)

\* an invariant or test data still open here is not saved
Component(st, n) ==
    Into([SaveFeature(SaveComponent(st))
            EXCEPT !.component = n, !.test = Nowhere, !.scenario = Nowhere, !.invariant = Nowhere,
                   !.data = Nowhere, !.assertions = FALSE, !.glossary = FALSE, !.inherent = FALSE,
                   !.invariantAssertions = FALSE, !.columns = FALSE, !.bindings = FALSE], n)

Invariant(st, n) ==
    Into([SaveData(SaveInvariant(SaveComponent(SaveFeature(st))))
            EXCEPT !.invariant = n, !.scenario = Nowhere, !.test = Nowhere,
                   !.invariantAssertions = FALSE, !.columns = FALSE], n)

TestData(st, n) ==   \* the feature around it stays
    Into([SaveInvariant(SaveData(st))
            EXCEPT !.data = n, !.invariantAssertions = FALSE, !.columns = FALSE], n)

InvariantTakes(st, line) ==
    /\ st.invariant # Nowhere
    /\ \/ line \in {"id:", "description:", "parameters:", "Assertions:"}
       \/ st.invariantAssertions /\ line \in {"->", "-", "- ?", "- request:"}
InvariantLine(st, line) ==
    Into([st EXCEPT !.invariantAssertions = @ \/ line = "Assertions:"], st.invariant)

DataTakes(st, line) == st.data # Nowhere /\ line \in {"id:", "for:", "scenario:", "row"}
DataLine(st, line) == Into([st EXCEPT !.columns = @ \/ line = "row"], st.data)

ScenarioFields == {"description:", "Given", "When", "->"}
NewScenario(st, n) == Into([Save(st, "scenario") EXCEPT !.scenario = n], n)

ComponentLine(st, line, n) ==
    CASE line \in {"id:", "parameters:"} -> Into(st, st.component)
      [] line = "Inherent Behavior:" -> Into([st EXCEPT !.inherent = TRUE], st.component)
      [] line = "Scenario:" -> NewScenario([st EXCEPT !.inherent = FALSE], n)
      [] line \in ScenarioFields /\ st.scenario # Nowhere -> Into(st, st.scenario)
      [] line = "description:" /\ st.scenario = Nowhere -> Into(st, st.component)
      [] line = "->" /\ st.scenario = Nowhere /\ st.inherent -> Into(st, st.component)
      [] OTHER -> Dropped(st)

FeatureLine(st, line, n) ==
    CASE line = "id:" -> Into(st, st.feature)
      [] line = "description:" /\ st.scenario = Nowhere -> Into(st, st.feature)
      [] line = "Scenario:" ->
            NewScenario([Save(st, "test") EXCEPT !.assertions = FALSE], n)
      [] line \in ScenarioFields /\ st.scenario # Nowhere -> Into(st, st.scenario)
      [] line = "test:" ->
            Into([Save(st, "scenario") EXCEPT !.assertions = FALSE], st.feature)
      [] line = "- request:" ->
            Into([Save(st, "test") EXCEPT !.test = n, !.assertions = FALSE], n)
      [] line = "assert:" -> Into([st EXCEPT !.assertions = TRUE], st.test)
      [] OTHER ->   \* after `assert:` every line is an assertion, or nothing
            IF line \in (IF st.assertions THEN {"-"} ELSE {"body:"}) THEN Into(st, st.test)
            ELSE Dropped(st)

SectionLine(st, line, n) ==
    IF InvariantTakes(st, line) THEN InvariantLine(st, line)
    ELSE IF line = "Test Data:" THEN TestData(st, n)
    ELSE IF DataTakes(st, line) THEN DataLine(st, line)
    ELSE IF st.component # Nowhere THEN ComponentLine(st, line, n)
    ELSE IF st.feature # Nowhere THEN FeatureLine(st, line, n)
    ELSE Dropped(st)

ParseLine(st, line) ==
    LET n == Len(st.owner) + 1
    IN IF line = "---" THEN Separator(st)
       ELSE IF st.expecting /\ ~st.title
       THEN Dropped([st EXCEPT !.title = TRUE, !.expecting = FALSE])
       ELSE IF line = "## Title" THEN Title(st)
       ELSE IF line = "## Glossary" THEN GlossaryHeader(st, n)
       ELSE IF line = "## Glossary [Technical Bindings]" THEN BindingsHeader(st, n)
       ELSE IF st.glossary /\ line = "row" THEN Into(st, Glossary)
       ELSE IF st.bindings THEN BindingLine(st, line, n)
       ELSE CASE line = "Feature:" -> Feature(st, n)
              [] line = "Component:" -> Component(st, n)
              [] line = "Invariant:" -> Invariant(st, n)
              [] OTHER -> SectionLine(st, line, n)

Finish(st) ==
    SaveData(SaveInvariant(SaveBinding(SaveComponent(SaveFeature(st)))))

-----------------------------------------------------------------------------
(* parse_glossary: terms of a text with a glossary, each with the numbers  *)
(* of its definitions.                                                     *)
NoTerms == [n |-> 0, in |-> FALSE, term |-> Nowhere, defs |-> <<>>, terms |-> <<>>]
SaveTerm(g) ==
    IF g.term = Nowhere \/ g.defs = <<>> THEN g
    ELSE [g EXCEPT !.terms = Append(@, <<g.term, g.defs>>), !.term = Nowhere, !.defs = <<>>]
GlossaryLine(g, line) ==
    LET n == g.n + 1
        next == [g EXCEPT !.n = n]
    IN CASE line = "## Glossary" -> [next EXCEPT !.in = TRUE]
         [] line = "##" /\ g.in -> [SaveTerm(next) EXCEPT !.in = FALSE, !.term = Nowhere]
         [] line = "term" /\ g.in -> [SaveTerm(next) EXCEPT !.term = n, !.defs = <<>>]
         [] line = "-" /\ g.in /\ g.term # Nowhere -> [next EXCEPT !.defs = Append(@, n)]
         [] OTHER -> next

-----------------------------------------------------------------------------
(* The two readers, each one line further, and what they return when the    *)
(* lines are over.                                                          *)
NothingRead == intent = Unread /\ glossary = NoTerms
ReadLine(line) == intent' = ParseLine(intent, line) /\ UNCHANGED glossary
ReadGlossaryLine(line) == glossary' = GlossaryLine(glossary, line) /\ UNCHANGED intent

Content == Finish(intent)
Terms == SaveTerm(glossary).terms
=============================================================================
