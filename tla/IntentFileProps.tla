-------------------------- MODULE IntentFileProps --------------------------
(***************************************************************************)
(* Intent files, built line by line as the documentation writes them, and  *)
(* the sections their lines end up in. A shape: <<"intent", line, ...>>.   *)
(***************************************************************************)
EXTENDS Samples, IntentFile

CONSTANT MaxLines   \* lines of an intent file

Heads == {"Feature:", "Component:", "Invariant:", "Test Data:", "## Glossary",
          "## Glossary [Technical Bindings]"}
Parts == {"Scenario:", "- request:", "Assertions:", "Inherent Behavior:", "term", "assert:"}

\* the last line before n+1 that is one of some kinds, 0 for none
LastOf(doc, n, kinds) == Max({0} \cup {i \in 1..n : doc[i] \in kinds})
KindAt(doc, i) == IF i = 0 THEN "" ELSE doc[i]
Section(doc, n) == LastOf(doc, n, Heads)
Part(doc, n) == LET p == LastOf(doc, n, Parts) IN IF p > Section(doc, n) THEN p ELSE 0

(* The lines a section may have, by its kind and by the part of it that was *)
(* opened last.                                                             *)
Within(section, part) ==
    CASE section = "Feature:" ->
            {"id:", "Scenario:", "- request:"} \cup
            (CASE part = "" -> {"description:"} [] part = "Scenario:" -> {"When", "->"}
               [] part = "- request:" -> {"body:", "assert:"} [] part = "assert:" -> {"-", "- ?", "body:"})
      [] section = "Component:" ->
            {"parameters:", "Inherent Behavior:", "Scenario:"} \cup (IF part = "" THEN {} ELSE {"->"})
      [] section = "Invariant:" -> {"id:", "Assertions:"} \cup (IF part = "" THEN {} ELSE {"->", "-"})
      [] section = "Test Data:" -> {"id:", "for:", "row", "row ---"}
      [] section = "## Glossary" -> {"row"}
      [] section = "## Glossary [Technical Bindings]" ->
            {"term"} \cup (CASE part = "" -> {} [] part = "term" -> {"action:", "assert:"}
                             [] part = "assert:" -> {"-", "- ?"})
      [] OTHER -> {}

Written(doc) ==   \* what may be written next
    LET n == Len(doc)
        after == IF KindAt(doc, n) = "---" THEN {} ELSE Within(KindAt(doc, Section(doc, n)), KindAt(doc, Part(doc, n)))
    IN Heads \cup after \cup (IF KindAt(doc, n) \in {"---", ""} THEN {} ELSE {"---"})

\* the section a line is written in
WrittenIn(doc, n) ==
    LET section == Section(doc, n)
    IN CASE doc[n] = "---" -> Nowhere
         [] doc[n] \in Heads \cup {"Scenario:", "- request:", "term"} -> n
         [] doc[n] = "row" /\ KindAt(doc, section) = "## Glossary" -> Glossary
         [] doc[n] \in {"When", "body:", "-", "- ?", "action:", "assert:"}
               /\ KindAt(doc, section) # "Invariant:" -> LastOf(doc, n, {"Scenario:", "- request:", "term"})
         [] doc[n] = "->" /\ KindAt(doc, Part(doc, n)) = "Scenario:" -> Part(doc, n)
         [] OTHER -> section

\* lines known to go elsewhere: the section before is not closed, or the line is not recognised
Unclosed(doc, n) == LastOf(doc, n, {"Invariant:", "Test Data:", "Component:"})
Mislaid(doc, n) ==
    LET open == Unclosed(doc, n)
        asserting == LastOf(doc, n, {"Assertions:"}) > open
        swallowing == LastOf(doc, n - 1, {"## Glossary [Technical Bindings]"})
    IN \/ /\ KindAt(doc, Section(doc, n)) = "Feature:"
          /\ \/ KindAt(doc, open) = "Invariant:" /\ doc[n] \in {"id:", "description:"}
             \/ KindAt(doc, open) = "Invariant:" /\ asserting /\ doc[n] \in {"->", "-", "- ?", "- request:"}
             \/ KindAt(doc, open) = "Test Data:" /\ doc[n] = "id:"
             \/ KindAt(doc, Part(doc, n)) = "assert:" /\ doc[n] = "body:"
             \/ doc[n] = "- ?"
       \/ KindAt(doc, Part(doc, n)) = "Inherent Behavior:" /\ doc[n] = "->"
          /\ LastOf(doc, n, {"Scenario:"}) > Section(doc, n)
       \/ doc[n] = "row ---"
       \/ KindAt(doc, Section(doc, n)) = "Test Data:" /\ doc[n] = "row"
          /\ KindAt(doc, LastOf(doc, n, {"## Glossary", "---", "Feature:", "Component:"})) = "## Glossary"
       \/ doc[n] \in {"Feature:", "Component:", "Invariant:", "Test Data:"} /\ swallowing # 0
          /\ LastOf(doc, n - 1, {"---", "## Glossary"}) < swallowing

Sound(doc, n) == \A m \in 1..n : ~Mislaid(doc, m)

SectionHeads == {"Feature:", "Component:", "Invariant:", "Test Data:", "Scenario:", "- request:", "term"}
Sections(doc) == {n \in DOMAIN doc : doc[n] \in SectionHeads}
\* what a component after it drops
Lost(doc) ==
    {n \in Sections(doc) : /\ doc[n] \in {"Invariant:", "Test Data:"}
                           /\ \E c \in (n + 1)..Len(doc) : doc[c] = "Component:" /\ Unclosed(doc, c - 1) = n}

(* Every line of an intent file goes to the section it is written in, and   *)
(* every section is in the result once; except the lines Mislaid names, and *)
(* that a component drops the invariant or the test data before it.         *)
(* (parse_content.)                                                         *)
LinesLandInTheirSection ==
    Family = "intent" =>
    LET doc == Tail(shape)
    IN /\ \A n \in DOMAIN doc :
             Sound(doc, n - 1) => (Content.owner[n] = WrittenIn(doc, n) <=> ~Mislaid(doc, n))
       /\ Sound(doc, Len(doc)) =>
             /\ ToSet(Content.kept) = Sections(doc) \ Lost(doc)
             /\ IsInjective(Content.kept)

-----------------------------------------------------------------------------
(* Glossaries of their own: <<"terms", line, ...>> *)
InGlossary(lines, n) == KindAt(lines, LastOf(lines, n, {"## Glossary", "##"})) = "## Glossary"
DefsOf(lines, t) ==
    {n \in DOMAIN lines : lines[n] = "-" /\ InGlossary(lines, n) /\ LastOf(lines, n, {"term", "##"}) = t}
TermsOf(lines) ==
    {t \in DOMAIN lines : lines[t] = "term" /\ InGlossary(lines, t) /\ DefsOf(lines, t) # {}}

(* Each term with a definition is kept once, with the definitions written   *)
(* under it; one without is no term. (parse_glossary.)                      *)
TermsKeepTheirDefinitions ==
    Family = "terms" =>
    LET lines == Tail(shape)
    IN /\ {Terms[i][1] : i \in DOMAIN Terms} = TermsOf(lines) /\ IsInjective(Terms)
       /\ \A i \in DOMAIN Terms : ToSet(Terms[i][2]) = DefsOf(lines, Terms[i][1])

(* What is written in an intent file or a glossary is found in what is read *)
(* of it, where it was written, but for the exceptions above.               *)
IntentFilesKeepLines == LinesLandInTheirSection /\ TermsKeepTheirDefinitions

\* a line more is written, and read
IntentFileGrows ==
    \/ /\ Family = "intent" /\ Len(shape) <= MaxLines
       /\ \E line \in Written(Tail(shape)) : Piece(line) /\ ReadLine(line)
    \/ /\ Family = "terms" /\ Len(shape) <= MaxLines
       /\ \E line \in {"## Glossary", "##", "term", "-"} : Piece(line) /\ ReadGlossaryLine(line)

IntentFileStarts == {<<"intent">>, <<"terms">>}
IntentFileSpec ==
    /\ shape \in IntentFileStarts /\ NothingRead
    /\ [][IntentFileGrows]_<<shape, intent, glossary>>
=============================================================================
