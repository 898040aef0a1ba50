------------------------- MODULE IntentFile_proofs -------------------------
(***************************************************************************)
(* Proofs about how an intent file and a glossary are read.                *)
(*                                                                         *)
(* FilesRead, the inductive invariant, says where the reader of an intent  *)
(* file stands after the lines of `doc`: which head is open (Outside), what *)
(* of the section and of its part is open (InSection, InPart), what the    *)
(* result and the open sections hold together (Keeps) -- as long as no line *)
(* was mislaid; and that each line up to the first mislaid one is owned by  *)
(* the section it is written in (OwnersAre). ReadOn takes it one line       *)
(* further: a lemma for each kind of line, by the section and the part it   *)
(* is written in. TermsReadOn does so for a glossary, whose reader has the  *)
(* terms of the text but for the one that is open (TermsRead).              *)
(*                                                                         *)
(* A step with a text of several words in sight is beyond the SMT solver:   *)
(* such a text is a constant that a PICK names where arithmetic is needed.  *)
(***************************************************************************)
EXTENDS IntentFileProps, WellFoundedInduction, SequenceTheorems, TLAPS

Lines == [expecting : {FALSE}, title : {FALSE}, glossary : BOOLEAN, bindings : BOOLEAN,
          feature : Nat, component : Nat, invariant : Nat, data : Nat, scenario : Nat, test : Nat, binding : Nat,
          assertions : BOOLEAN, inherent : BOOLEAN, invariantAssertions : BOOLEAN,
          columns : BOOLEAN, assertList : BOOLEAN, setup : {FALSE},
          owner : Seq(Int), kept : Seq(Nat)]
OpenFields == {"feature", "component", "invariant", "data", "scenario", "test", "binding"}
Flags == {"glossary", "bindings", "assertions", "inherent", "invariantAssertions", "columns", "assertList"}
Fields == OpenFields \cup Flags \cup {"expecting", "title", "setup", "owner", "kept"}

\* What the fields hold, and that a record is known by them.
LEMMA FieldsAre ==
    ASSUME NEW st \in Lines
    PROVE  /\ DOMAIN st = Fields
           /\ \A f \in OpenFields : st[f] \in Nat
           /\ \A f \in Flags : st[f] \in BOOLEAN
           /\ st.owner \in Seq(Int) /\ st.kept \in Seq(Nat)
           /\ ~st.expecting /\ ~st.title /\ ~st.setup
<1>1. DOMAIN st = Fields
  BY DEF Lines, Fields, OpenFields, Flags
<1>2. \A f \in OpenFields : st[f] \in Nat
  <2>1. /\ st.feature \in Nat /\ st.component \in Nat /\ st.invariant \in Nat /\ st.data \in Nat
        /\ st.scenario \in Nat /\ st.test \in Nat /\ st.binding \in Nat
    BY DEF Lines
  <2>2. QED
    BY <2>1 DEF OpenFields
<1>3. \A f \in Flags : st[f] \in BOOLEAN
  <2>1. /\ st.glossary \in BOOLEAN /\ st.bindings \in BOOLEAN /\ st.assertions \in BOOLEAN
        /\ st.inherent \in BOOLEAN /\ st.invariantAssertions \in BOOLEAN /\ st.columns \in BOOLEAN
        /\ st.assertList \in BOOLEAN
    BY DEF Lines
  <2>2. QED
    BY <2>1 DEF Flags
<1>4. st.owner \in Seq(Int) /\ st.kept \in Seq(Nat) /\ ~st.expecting /\ ~st.title /\ ~st.setup
  BY DEF Lines
<1>5. QED
  BY <1>1, <1>2, <1>3, <1>4

\* One field more of the result.
LEMMA OpenFieldSet ==
    ASSUME NEW st \in Lines, NEW f \in OpenFields, NEW n \in Nat
    PROVE  [st EXCEPT ![f] = n] \in Lines
<1>1. CASE f = "feature"
  BY <1>1 DEF Lines
<1>2. CASE f = "component"
  BY <1>2 DEF Lines
<1>3. CASE f = "invariant"
  BY <1>3 DEF Lines
<1>4. CASE f = "data"
  BY <1>4 DEF Lines
<1>5. CASE f = "scenario"
  BY <1>5 DEF Lines
<1>6. CASE f = "test"
  BY <1>6 DEF Lines
<1>7. CASE f = "binding"
  BY <1>7 DEF Lines
<1>8. QED
  BY <1>1, <1>2, <1>3, <1>4, <1>5, <1>6, <1>7 DEF OpenFields

LEMMA KeptSet ==
    ASSUME NEW st \in Lines, NEW k \in Seq(Nat)
    PROVE  [st EXCEPT !.kept = k] \in Lines
BY DEF Lines

LEMMA IntoIs ==
    ASSUME NEW st \in Lines, NEW section \in Int
    PROVE  /\ Into(st, section) \in Lines
           /\ Into(st, section).owner = Append(st.owner, section)
           /\ \A f \in Fields \ {"owner"} : Into(st, section)[f] = st[f]
<1>1. Append(st.owner, section) \in Seq(Int)
  BY FieldsAre
<1>2. Into(st, section) \in Lines
  BY <1>1 DEF Into, Lines
<1>3. QED
  BY <1>2, FieldsAre DEF Into, Fields

LEMMA SaveIs ==
    ASSUME NEW st \in Lines, NEW f \in OpenFields
    PROVE  /\ Save(st, f) \in Lines
           /\ Save(st, f)[f] = 0
           /\ Save(st, f).kept = IF st[f] = 0 THEN st.kept ELSE Append(st.kept, st[f])
           /\ \A g \in Fields \ {f, "kept"} : Save(st, f)[g] = st[g]
<1> DEFINE k == IF st[f] = 0 THEN st.kept ELSE Append(st.kept, st[f])
<1>1. st[f] \in Nat /\ st.kept \in Seq(Nat)
  BY FieldsAre
<1>2. k \in Seq(Nat)
  BY <1>1
<1>3. f # "kept" /\ f \in DOMAIN st /\ "kept" \in DOMAIN st
  BY FieldsAre DEF OpenFields, Fields
<1>4. Save(st, f) = [[st EXCEPT ![f] = 0] EXCEPT !.kept = k]
  BY <1>3 DEF Save, Nowhere
<1> HIDE DEF k
<1>5. [st EXCEPT ![f] = 0] \in Lines
  BY OpenFieldSet
<1>6. Save(st, f) \in Lines
  BY <1>2, <1>4, <1>5, KeptSet
<1>7. Save(st, f)[f] = 0 /\ Save(st, f).kept = k
  BY <1>3, <1>4
<1>8. \A g \in Fields \ {f, "kept"} : Save(st, f)[g] = st[g]
  BY <1>3, <1>4, FieldsAre
<1>9. QED
  BY <1>6, <1>7, <1>8 DEF k

-----------------------------------------------------------------------------
(* What is open and what is in the result *)
OpenOf(st) == {st[f] : f \in OpenFields} \ {0}
Holds(st, all) ==
    /\ IsInjective(st.kept)
    /\ \A f \in OpenFields : st[f] # 0 => st[f] \notin ToSet(st.kept)
    /\ \A f, g \in OpenFields : st[f] = st[g] /\ st[f] # 0 => f = g
    /\ ToSet(st.kept) \cup OpenOf(st) = all

LEMMA OneMoreKept ==
    ASSUME NEW s \in Seq(Nat), NEW x \in Nat, IsInjective(s), x \notin ToSet(s)
    PROVE  IsInjective(Append(s, x)) /\ ToSet(Append(s, x)) = ToSet(s) \cup {x}
<1> DEFINE t == Append(s, x)
<1>1. Len(t) = Len(s) + 1 /\ Len(s) \in Nat /\ DOMAIN t = 1..(Len(s) + 1) /\ DOMAIN s = 1..Len(s)
  OBVIOUS
<1>2. t[Len(s) + 1] = x /\ \A i \in 1..Len(s) : t[i] = s[i]
  OBVIOUS
<1>3. \A i \in 1..Len(s) : s[i] \in ToSet(s)
  BY <1>1 DEF ToSet
<1> HIDE DEF t
<1>4. \A a, b \in DOMAIN t : t[a] = t[b] => a = b
  <2> TAKE a, b \in DOMAIN t
  <2> HAVE t[a] = t[b]
  <2>1. CASE a \in 1..Len(s) /\ b \in 1..Len(s)
    BY <1>1, <1>2, <2>1 DEF IsInjective
  <2>2. CASE ~(a \in 1..Len(s) /\ b \in 1..Len(s))
    BY <1>1, <1>2, <1>3, <2>2
  <2>3. QED
    BY <2>1, <2>2
<1>5. ToSet(t) = ToSet(s) \cup {x}
  <2>1. \A y \in ToSet(t) : y \in ToSet(s) \cup {x}
    BY <1>1, <1>2, <1>3 DEF ToSet
  <2>2. \A i \in DOMAIN s : i \in DOMAIN t /\ t[i] = s[i]
    BY <1>1, <1>2
  <2>3. ToSet(s) \subseteq ToSet(t) /\ x \in ToSet(t)
    BY <1>1, <1>2, <2>2 DEF ToSet
  <2>4. QED
    BY <2>1, <2>3
<1>6. QED
  BY <1>4, <1>5 DEF t, IsInjective

\* Reading that changes no section and keeps none.
LEMMA HoldsStill ==
    ASSUME NEW st, NEW t, NEW all, Holds(st, all), t.kept = st.kept, \A f \in OpenFields : t[f] = st[f]
    PROVE  Holds(t, all)
<1>1. OpenOf(t) = OpenOf(st)
  BY DEF OpenOf
<1>2. QED
  BY <1>1 DEF Holds

\* Saving moves a section from its field to the result.
LEMMA HoldsSave ==
    ASSUME NEW st \in Lines, NEW f \in OpenFields, NEW all, Holds(st, all)
    PROVE  Holds(Save(st, f), all)
<1> DEFINE t == Save(st, f)
<1>0. OpenFields \subseteq Fields /\ "kept" \notin OpenFields
  BY DEF Fields, OpenFields
<1>1. /\ t[f] = 0 /\ \A g \in OpenFields \ {f} : t[g] = st[g]
      /\ st[f] # 0 => t.kept = Append(st.kept, st[f])
      /\ st[f] = 0 => t.kept = st.kept
      /\ st.kept \in Seq(Nat) /\ \A g \in OpenFields : st[g] \in Nat
  BY <1>0, SaveIs, FieldsAre
<1> HIDE DEF t
<1>2. CASE st[f] = 0
  <2>1. \A g \in OpenFields : t[g] = st[g]
    BY <1>1, <1>2
  <2>2. QED
    BY <1>1, <1>2, <2>1, HoldsStill DEF t
<1>3. CASE st[f] # 0
  <2>1. st[f] \notin ToSet(st.kept) /\ IsInjective(st.kept)
    BY <1>3 DEF Holds
  <2>2. IsInjective(t.kept) /\ ToSet(t.kept) = ToSet(st.kept) \cup {st[f]}
    BY <1>1, <1>3, <2>1, OneMoreKept
  <2>3. OpenOf(t) = OpenOf(st) \ {st[f]}
    <3>1. \A g \in OpenFields \ {f} : st[g] # st[f]
      BY <1>3 DEF Holds
    <3>2. QED
      BY <1>1, <3>1 DEF OpenOf
  <2>4. \A g \in OpenFields : t[g] # 0 => t[g] \notin ToSet(t.kept)
    <3>1. \A g \in OpenFields \ {f} : st[g] # st[f] /\ (st[g] # 0 => st[g] \notin ToSet(st.kept))
      BY <1>3 DEF Holds
    <3>2. QED
      BY <1>1, <2>2, <3>1
  <2>5. \A g, h \in OpenFields : t[g] = t[h] /\ t[g] # 0 => g = h
    BY <1>1 DEF Holds
  <2>6. ToSet(t.kept) \cup OpenOf(t) = all
    <3>1. st[f] \in OpenOf(st)
      BY <1>3 DEF OpenOf
    <3>2. QED
      BY <2>2, <2>3, <3>1 DEF Holds
  <2>7. QED
    BY <2>2, <2>4, <2>5, <2>6 DEF Holds, t
<1>4. QED
  BY <1>2, <1>3

\* Opening a section.
LEMMA HoldsOpen ==
    ASSUME NEW st, NEW t, NEW f \in OpenFields, NEW all, NEW n, Holds(st, all), n # 0, n \notin all,
           st[f] = 0, t[f] = n, t.kept = st.kept, \A g \in OpenFields \ {f} : t[g] = st[g]
    PROVE  Holds(t, all \cup {n})
<1>1. OpenOf(t) = OpenOf(st) \cup {n}
  BY DEF OpenOf
<1>2. n \notin ToSet(st.kept) /\ n \notin OpenOf(st)
  BY DEF Holds
<1>3. \A g \in OpenFields \ {f} : t[g] # n
  BY <1>2 DEF OpenOf
<1>4. \A g \in OpenFields : t[g] # 0 => t[g] \notin ToSet(t.kept)
  BY <1>2 DEF Holds
<1>5. \A g, h \in OpenFields : t[g] = t[h] /\ t[g] # 0 => g = h
  BY <1>3 DEF Holds
<1>6. QED
  BY <1>1, <1>4, <1>5 DEF Holds

\* Forgetting one.
LEMMA HoldsForget ==
    ASSUME NEW st, NEW t, NEW f \in OpenFields, NEW all, Holds(st, all),
           t[f] = 0, t.kept = st.kept, \A g \in OpenFields \ {f} : t[g] = st[g]
    PROVE  Holds(t, all \ ({st[f]} \ {0}))
<1>0. 0 \notin OpenOf(st)
  BY DEF OpenOf
<1>1. CASE st[f] = 0
  <2>1. \A g \in OpenFields : t[g] = st[g]
    BY <1>1
  <2>2. Holds(t, all)
    BY <2>1, HoldsStill
  <2>3. all \ ({st[f]} \ {0}) = all
    BY <1>1
  <2>4. QED
    BY <2>2, <2>3
<1>2. CASE st[f] # 0
  <2>1. \A g \in OpenFields \ {f} : st[g] # st[f]
    BY <1>2 DEF Holds
  <2>2. OpenOf(t) = OpenOf(st) \ {st[f]}
    BY <2>1 DEF OpenOf
  <2>3. st[f] \notin ToSet(st.kept)
    BY <1>2 DEF Holds
  <2>4. ToSet(t.kept) \cup OpenOf(t) = all \ {st[f]}
    BY <2>2, <2>3 DEF Holds
  <2>5. {st[f]} \ {0} = {st[f]}
    BY <1>2
  <2>6. \A g \in OpenFields : t[g] # 0 => t[g] \notin ToSet(t.kept)
    BY DEF Holds
  <2>7. \A g, h \in OpenFields : t[g] = t[h] /\ t[g] # 0 => g = h
    BY DEF Holds
  <2>8. QED
    BY <2>4, <2>5, <2>6, <2>7 DEF Holds
<1>3. QED
  BY <1>1, <1>2

LEMMA SaveComponentIs ==
    ASSUME NEW st \in Lines
    PROVE  /\ SaveComponent(st) \in Lines
           /\ SaveComponent(st).component = 0
           /\ SaveComponent(st).scenario = IF st.component = 0 THEN st.scenario ELSE 0
           /\ \A f \in Fields \ {"component", "scenario", "kept"} : SaveComponent(st)[f] = st[f]
           /\ \A all : Holds(st, all) => Holds(SaveComponent(st), all)
<1>1. CASE st.component = 0
  BY <1>1 DEF SaveComponent, Nowhere
<1>2. CASE st.component # 0
  <2> DEFINE t == Save(st, "component")
  <2>0. "component" \in OpenFields /\ "scenario" \in OpenFields
    BY DEF OpenFields
  <2>1. /\ t \in Lines /\ t.component = 0 /\ \A f \in Fields \ {"component", "kept"} : t[f] = st[f]
        /\ \A all : Holds(st, all) => Holds(t, all)
    BY <2>0, SaveIs, HoldsSave
  <2> HIDE DEF t
  <2>2. /\ Save(t, "scenario") \in Lines /\ Save(t, "scenario").scenario = 0
        /\ \A f \in Fields \ {"scenario", "kept"} : Save(t, "scenario")[f] = t[f]
        /\ \A all : Holds(t, all) => Holds(Save(t, "scenario"), all)
    BY <2>0, <2>1, SaveIs, HoldsSave
  <2>3. Save(t, "scenario").component = 0
    BY <2>1, <2>2 DEF Fields, OpenFields
  <2>4. SaveComponent(st) = Save(t, "scenario")
    BY <1>2 DEF SaveComponent, t, Nowhere
  <2>5. QED
    BY <1>2, <2>1, <2>2, <2>3, <2>4
<1>3. QED
  BY <1>1, <1>2

LEMMA SaveFeatureIs ==
    ASSUME NEW st \in Lines
    PROVE  /\ SaveFeature(st) \in Lines
           /\ SaveFeature(st).feature = 0
           /\ SaveFeature(st).scenario = IF st.feature = 0 THEN st.scenario ELSE 0
           /\ SaveFeature(st).test = IF st.feature = 0 THEN st.test ELSE 0
           /\ \A f \in Fields \ {"feature", "test", "scenario", "kept"} : SaveFeature(st)[f] = st[f]
           /\ \A all : Holds(st, all) => Holds(SaveFeature(st), all)
<1>1. CASE st.feature = 0
  BY <1>1 DEF SaveFeature, Nowhere
<1>2. CASE st.feature # 0
  <2> DEFINE t == Save(st, "feature")
             u == Save(t, "test")
             v == Save(u, "scenario")
  <2>0. /\ "feature" \in OpenFields /\ "test" \in OpenFields /\ "scenario" \in OpenFields
        /\ {"feature", "test"} \subseteq Fields
    BY DEF OpenFields, Fields
  <2>1. /\ t \in Lines /\ t.feature = 0 /\ \A f \in Fields \ {"feature", "kept"} : t[f] = st[f]
        /\ \A all : Holds(st, all) => Holds(t, all)
    BY <2>0, SaveIs, HoldsSave
  <2> HIDE DEF t
  <2>2. /\ u \in Lines /\ u.test = 0 /\ \A f \in Fields \ {"test", "kept"} : u[f] = t[f]
        /\ \A all : Holds(t, all) => Holds(u, all)
    BY <2>0, <2>1, SaveIs, HoldsSave
  <2> HIDE DEF u
  <2>3. /\ v \in Lines /\ v.scenario = 0 /\ \A f \in Fields \ {"scenario", "kept"} : v[f] = u[f]
        /\ \A all : Holds(u, all) => Holds(v, all)
    BY <2>0, <2>2, SaveIs, HoldsSave
  <2>4. v.feature = 0 /\ v.test = 0
    BY <2>0, <2>1, <2>2, <2>3
  <2>5. SaveFeature(st) = v
    BY <1>2 DEF SaveFeature, t, u, Nowhere
  <2> HIDE DEF v
  <2>6. QED
    BY <1>2, <2>1, <2>2, <2>3, <2>4, <2>5
<1>3. QED
  BY <1>1, <1>2

-----------------------------------------------------------------------------
(* The lines that open or close sections. Scenarios and tests are in a     *)
(* feature or a component, and only one of these is open.                  *)
Nested(st) ==
    /\ st.feature = 0 \/ st.component = 0
    /\ st.scenario # 0 => st.feature # 0 \/ st.component # 0
    /\ st.test # 0 => st.feature # 0

LEMMA FeatureIs ==
    ASSUME NEW st \in Lines, NEW n \in Nat, n # 0
    PROVE  /\ Feature(st, n) \in Lines
           /\ Feature(st, n).owner = Append(st.owner, n)
           /\ Feature(st, n).feature = n
           /\ \A f \in {"component", "test", "scenario"} : Feature(st, n)[f] = 0
           /\ \A f \in {"assertions", "glossary", "inherent", "bindings"} : Feature(st, n)[f] = FALSE
           /\ \A f \in {"invariant", "data", "binding", "invariantAssertions", "assertList"} : Feature(st, n)[f] = st[f]
           /\ \A all : Holds(st, all) /\ Nested(st) /\ n \notin all => Holds(Feature(st, n), all \cup {n})
<1> DEFINE u == SaveFeature(SaveComponent(st))
           v == [u EXCEPT !.feature = n, !.test = 0, !.scenario = 0, !.component = 0,
                          !.assertions = FALSE, !.glossary = FALSE, !.inherent = FALSE, !.bindings = FALSE]
           t == Into(v, n)
<1>0. n \in Int
  OBVIOUS
<1>1. /\ u \in Lines /\ u.feature = 0 /\ u.component = 0
      /\ \A f \in Fields \ {"feature", "test", "scenario", "component", "kept"} : u[f] = st[f]
      /\ Nested(st) => u.scenario = 0 /\ u.test = 0
      /\ \A all : Holds(st, all) => Holds(u, all)
  BY SaveComponentIs, SaveFeatureIs DEF Nested, Fields, OpenFields
<1> HIDE DEF u
<1>2. v \in Lines
  BY <1>1 DEF Lines
<1>3. /\ v.feature = n /\ v.test = 0 /\ v.scenario = 0 /\ v.component = 0
      /\ ~v.assertions /\ ~v.glossary /\ ~v.inherent /\ ~v.bindings
      /\ \A f \in {"invariant", "data", "binding", "invariantAssertions", "assertList", "owner"} : v[f] = st[f]
      /\ v.kept = u.kept
      /\ v.invariant = u.invariant /\ v.data = u.data /\ v.binding = u.binding
  BY <1>1, FieldsAre DEF Fields, OpenFields, Flags
<1> HIDE DEF v
<1>4. /\ t \in Lines /\ t.owner = Append(v.owner, n) /\ \A f \in Fields \ {"owner"} : t[f] = v[f]
  BY <1>0, <1>2, IntoIs
<1>5. Feature(st, n) = t
  BY DEF Feature, t, u, v, Nowhere
<1> HIDE DEF t
<1>6. ASSUME NEW all, Holds(st, all), Nested(st), n \notin all
      PROVE  Holds(t, all \cup {n})
  <2>1. Holds(u, all) /\ u.feature = 0 /\ "feature" \in OpenFields
    BY <1>1, <1>6 DEF OpenFields
  <2>2. t.feature = n /\ t.kept = u.kept /\ \A f \in OpenFields \ {"feature"} : t[f] = u[f]
    BY <1>1, <1>3, <1>4, <1>6 DEF Fields, OpenFields
  <2>3. QED
    BY <2>1, <2>2, <1>6, HoldsOpen
<1>7. QED
  BY <1>3, <1>4, <1>5, <1>6 DEF Fields, OpenFields, Flags

\* A component forgets an invariant or test data before it.
LEMMA ComponentIs ==
    ASSUME NEW st \in Lines, NEW n \in Nat, n # 0
    PROVE  /\ Component(st, n) \in Lines
           /\ Component(st, n).owner = Append(st.owner, n)
           /\ Component(st, n).component = n
           /\ \A f \in {"feature", "test", "scenario", "invariant", "data"} : Component(st, n)[f] = 0
           /\ \A f \in {"glossary", "inherent", "bindings", "invariantAssertions"} : Component(st, n)[f] = FALSE
           /\ \A f \in {"binding", "assertList"} : Component(st, n)[f] = st[f]
           /\ \A all : Holds(st, all) /\ Nested(st) /\ n \notin all =>
                  Holds(Component(st, n), (all \ ({st.invariant, st.data} \ {0})) \cup {n})
<1> DEFINE u == SaveFeature(SaveComponent(st))
           v == [u EXCEPT !.component = n, !.test = 0, !.scenario = 0, !.invariant = 0,
                          !.data = 0, !.assertions = FALSE, !.glossary = FALSE, !.inherent = FALSE,
                          !.invariantAssertions = FALSE, !.columns = FALSE, !.bindings = FALSE]
           t == Into(v, n)
<1>0. n \in Int
  OBVIOUS
<1>1. /\ u \in Lines /\ u.feature = 0 /\ u.component = 0
      /\ \A f \in Fields \ {"feature", "test", "scenario", "component", "kept"} : u[f] = st[f]
      /\ Nested(st) => u.scenario = 0 /\ u.test = 0
      /\ \A all : Holds(st, all) => Holds(u, all)
  BY SaveComponentIs, SaveFeatureIs DEF Nested, Fields, OpenFields
<1> HIDE DEF u
<1>2. v \in Lines
  BY <1>1 DEF Lines
<1>3. /\ v.component = n /\ v.test = 0 /\ v.scenario = 0 /\ v.invariant = 0 /\ v.data = 0 /\ v.feature = 0
      /\ ~v.glossary /\ ~v.inherent /\ ~v.bindings /\ ~v.invariantAssertions
      /\ \A f \in {"binding", "assertList", "owner"} : v[f] = st[f]
      /\ v.kept = u.kept /\ v.binding = u.binding
  BY <1>1, FieldsAre DEF Fields, OpenFields, Flags
<1> HIDE DEF v
<1>4. /\ t \in Lines /\ t.owner = Append(v.owner, n) /\ \A f \in Fields \ {"owner"} : t[f] = v[f]
  BY <1>0, <1>2, IntoIs
<1>5. Component(st, n) = t
  BY DEF Component, t, u, v, Nowhere
<1> HIDE DEF t
<1>6. ASSUME NEW all, Holds(st, all), Nested(st), n \notin all
      PROVE  Holds(t, (all \ ({st.invariant, st.data} \ {0})) \cup {n})
  <2> DEFINE w == [u EXCEPT !.invariant = 0]
             x == [w EXCEPT !.data = 0]
             none == ({st.invariant, st.data} \ {0})
  <2>0. {"invariant", "data", "component"} \subseteq OpenFields /\ OpenFields \subseteq DOMAIN u /\ "kept" \in DOMAIN u
        /\ "kept" \notin OpenFields
    BY <1>1, FieldsAre DEF OpenFields, Fields
  <2>1. Holds(u, all) /\ u.invariant = st.invariant /\ u.data = st.data
    BY <1>1, <1>6 DEF Fields, OpenFields
  <2>2. w.invariant = 0 /\ w.kept = u.kept /\ \A f \in OpenFields \ {"invariant"} : w[f] = u[f]
    BY <2>0
  <2>3. x.data = 0 /\ x.kept = w.kept /\ (\A f \in OpenFields \ {"data"} : x[f] = w[f]) /\ w.data = u.data
    BY <2>0, <2>2
  <2> HIDE DEF w
  <2>4. Holds(w, all \ ({st.invariant} \ {0}))
    BY <2>0, <2>1, <2>2, HoldsForget
  <2> HIDE DEF x
  <2>5. Holds(x, (all \ ({st.invariant} \ {0})) \ ({st.data} \ {0}))
    BY <2>0, <2>1, <2>3, <2>4, HoldsForget
  <2>6. (all \ ({st.invariant} \ {0})) \ ({st.data} \ {0}) = all \ none
    OBVIOUS
  <2>7. x.component = 0
    BY <2>0, <2>2, <2>3, <1>1
  <2>8. \A f \in OpenFields \ {"component"} : t[f] = x[f]
    BY <2>2, <2>3, <1>1, <1>3, <1>4, <1>6 DEF OpenFields, Fields
  <2>9. t.component = n /\ t.kept = x.kept
    BY <2>2, <2>3, <1>3, <1>4 DEF OpenFields, Fields
  <2> HIDE DEF none
  <2>10. Holds(x, all \ none) /\ n \notin all \ none
    BY <2>5, <2>6, <1>6
  <2>11. Holds(t, (all \ none) \cup {n})
    BY <2>0, <2>7, <2>8, <2>9, <2>10, HoldsOpen
  <2>12. QED
    BY <2>11 DEF none
<1>7. QED
  BY <1>3, <1>4, <1>5, <1>6 DEF Fields, OpenFields, Flags

LEMMA InvariantIs ==
    ASSUME NEW st \in Lines, NEW n \in Nat, n # 0
    PROVE  /\ Invariant(st, n) \in Lines
           /\ Invariant(st, n).owner = Append(st.owner, n)
           /\ Invariant(st, n).invariant = n
           /\ \A f \in {"feature", "component", "test", "scenario", "data"} : Invariant(st, n)[f] = 0
           /\ Invariant(st, n).invariantAssertions = FALSE
           /\ \A f \in {"binding", "glossary", "bindings", "assertList"} : Invariant(st, n)[f] = st[f]
           /\ \A all : Holds(st, all) /\ Nested(st) /\ n \notin all => Holds(Invariant(st, n), all \cup {n})
<1> DEFINE u == SaveComponent(SaveFeature(st))
           w == SaveInvariant(u)
           x == SaveData(w)
           v == [x EXCEPT !.invariant = n, !.scenario = 0, !.test = 0,
                          !.invariantAssertions = FALSE, !.columns = FALSE]
           t == Into(v, n)
<1>0. n \in Int /\ {"invariant", "data"} \subseteq OpenFields
  BY DEF OpenFields
<1>1. /\ u \in Lines /\ u.feature = 0 /\ u.component = 0
      /\ \A f \in Fields \ {"feature", "test", "scenario", "component", "kept"} : u[f] = st[f]
      /\ Nested(st) => u.scenario = 0 /\ u.test = 0
      /\ \A all : Holds(st, all) => Holds(u, all)
  BY SaveComponentIs, SaveFeatureIs DEF Nested, Fields, OpenFields
<1> HIDE DEF u
<1>2. /\ w \in Lines /\ w.invariant = 0 /\ \A f \in Fields \ {"invariant", "kept"} : w[f] = u[f]
      /\ \A all : Holds(u, all) => Holds(w, all)
  BY <1>0, <1>1, SaveIs, HoldsSave DEF SaveInvariant
<1> HIDE DEF w
<1>3. /\ x \in Lines /\ x.data = 0 /\ \A f \in Fields \ {"data", "kept"} : x[f] = w[f]
      /\ \A all : Holds(w, all) => Holds(x, all)
  BY <1>0, <1>2, SaveIs, HoldsSave DEF SaveData
<1> HIDE DEF x
<1>4. v \in Lines
  BY <1>3 DEF Lines
<1>5. /\ v.invariant = n /\ v.test = 0 /\ v.scenario = 0 /\ v.data = 0 /\ v.feature = 0 /\ v.component = 0
      /\ ~v.invariantAssertions
      /\ \A f \in {"binding", "glossary", "bindings", "assertList", "owner"} : v[f] = st[f]
      /\ v.kept = x.kept /\ v.binding = x.binding
  BY <1>1, <1>2, <1>3, FieldsAre DEF Fields, OpenFields, Flags
<1> HIDE DEF v
<1>6. /\ t \in Lines /\ t.owner = Append(v.owner, n) /\ \A f \in Fields \ {"owner"} : t[f] = v[f]
  BY <1>0, <1>4, IntoIs
<1>7. Invariant(st, n) = t
  BY DEF Invariant, t, u, v, w, x, Nowhere
<1> HIDE DEF t
<1>8. ASSUME NEW all, Holds(st, all), Nested(st), n \notin all
      PROVE  Holds(t, all \cup {n})
  <2>1. Holds(x, all) /\ x.invariant = 0 /\ "invariant" \in OpenFields
    BY <1>0, <1>1, <1>2, <1>3, <1>8 DEF Fields, OpenFields
  <2>2. t.invariant = n /\ t.kept = x.kept /\ \A f \in OpenFields \ {"invariant"} : t[f] = x[f]
    BY <1>1, <1>2, <1>3, <1>5, <1>6, <1>8 DEF Fields, OpenFields
  <2>3. QED
    BY <2>1, <2>2, <1>8, HoldsOpen
<1>9. QED
  BY <1>5, <1>6, <1>7, <1>8 DEF Fields, OpenFields, Flags

LEMMA TestDataIs ==
    ASSUME NEW st \in Lines, NEW n \in Nat, n # 0
    PROVE  /\ TestData(st, n) \in Lines
           /\ TestData(st, n).owner = Append(st.owner, n)
           /\ TestData(st, n).data = n
           /\ TestData(st, n).invariant = 0
           /\ TestData(st, n).invariantAssertions = FALSE
           /\ \A f \in {"feature", "component", "scenario", "test", "binding", "glossary", "bindings", "assertList"} :
                 TestData(st, n)[f] = st[f]
           /\ \A all : Holds(st, all) /\ n \notin all => Holds(TestData(st, n), all \cup {n})
<1> DEFINE w == SaveData(st)
           x == SaveInvariant(w)
           v == [x EXCEPT !.data = n, !.invariantAssertions = FALSE, !.columns = FALSE]
           t == Into(v, n)
<1>0. n \in Int /\ {"invariant", "data"} \subseteq OpenFields
  BY DEF OpenFields
<1>2. /\ w \in Lines /\ w.data = 0 /\ \A f \in Fields \ {"data", "kept"} : w[f] = st[f]
      /\ \A all : Holds(st, all) => Holds(w, all)
  BY <1>0, SaveIs, HoldsSave DEF SaveData
<1> HIDE DEF w
<1>3. /\ x \in Lines /\ x.invariant = 0 /\ \A f \in Fields \ {"invariant", "kept"} : x[f] = w[f]
      /\ \A all : Holds(w, all) => Holds(x, all)
  BY <1>0, <1>2, SaveIs, HoldsSave DEF SaveInvariant
<1> HIDE DEF x
<1>4. v \in Lines
  BY <1>3 DEF Lines
<1>5. /\ v.data = n /\ v.invariant = 0 /\ ~v.invariantAssertions
      /\ \A f \in {"feature", "component", "scenario", "test", "binding", "glossary", "bindings", "assertList", "owner"} :
             v[f] = st[f]
      /\ v.kept = x.kept /\ \A f \in OpenFields \ {"data"} : v[f] = x[f]
  BY <1>2, <1>3, FieldsAre DEF Fields, OpenFields, Flags
<1> HIDE DEF v
<1>6. /\ t \in Lines /\ t.owner = Append(v.owner, n) /\ \A f \in Fields \ {"owner"} : t[f] = v[f]
  BY <1>0, <1>4, IntoIs
<1>7. TestData(st, n) = t
  BY DEF TestData, t, v, w, x, Nowhere
<1> HIDE DEF t
<1>8. ASSUME NEW all, Holds(st, all), n \notin all
      PROVE  Holds(t, all \cup {n})
  <2>1. Holds(x, all) /\ x.data = 0 /\ "data" \in OpenFields
    BY <1>0, <1>2, <1>3, <1>8 DEF Fields, OpenFields
  <2>2. t.data = n /\ t.kept = x.kept /\ \A f \in OpenFields \ {"data"} : t[f] = x[f]
    BY <1>5, <1>6 DEF Fields, OpenFields
  <2>3. QED
    BY <2>1, <2>2, <1>8, HoldsOpen
<1>9. QED
  BY <1>5, <1>6, <1>7, <1>8 DEF Fields, OpenFields, Flags

-----------------------------------------------------------------------------
(* The last line of some kinds *)
LEMMA LeastNumber ==
    ASSUME NEW T \in SUBSET Nat, T # {}
    PROVE  \E x \in T : \A y \in T : x <= y
<1>1. IsWellFoundedOn(OpToRel(<, Nat), Nat)
  BY NatLessThanWellFounded
<1>2. PICK x \in T : \A y \in T : ~(<<y, x>> \in OpToRel(<, Nat))
  BY <1>1, WFMin
<1>3. \A y \in T : ~(y < x)
  BY <1>2 DEF OpToRel
<1>4. QED
  BY <1>3

LEMMA LastOfIs ==
    ASSUME NEW doc, NEW n \in Nat, NEW kinds
    PROVE  /\ LastOf(doc, n, kinds) \in 0..n
           /\ LastOf(doc, n, kinds) # 0 => doc[LastOf(doc, n, kinds)] \in kinds
           /\ \A i \in 1..n : doc[i] \in kinds => i <= LastOf(doc, n, kinds)
<1> DEFINE T == {0} \cup {i \in 1..n : doc[i] \in kinds}
           D == {i \in Nat : \E x \in T : i = n - x}
<1>1. \A x \in T : x \in 0..n /\ n - x \in Nat /\ n - x \in D
  OBVIOUS
<1>2. D \in SUBSET Nat /\ D # {}
  BY <1>1
<1>3. PICK d \in D : \A e \in D : d <= e
  BY <1>2, LeastNumber
<1>4. PICK x \in T : d = n - x
  OBVIOUS
<1>5. ASSUME NEW y \in T PROVE x >= y
  <2>1. n - x <= n - y /\ x \in 0..n /\ y \in 0..n
    BY <1>1, <1>3, <1>4
  <2>2. QED
    BY <2>1
<1>6. \E m \in T : \A y \in T : m >= y
  BY <1>5
<1>7. Max(T) \in T /\ \A y \in T : Max(T) >= y
  BY <1>6 DEF Max
<1>8. LastOf(doc, n, kinds) = Max(T)
  BY DEF LastOf
<1> DEFINE m == Max(T)
<1>9. m \in 0..n /\ (m # 0 => doc[m] \in kinds) /\ \A i \in 1..n : doc[i] \in kinds => i <= m
  <2>1. m \in T /\ \A y \in T : y \in Nat /\ m \in Nat /\ m >= y
    BY <1>1, <1>7
  <2> HIDE DEF m
  <2>2. QED
    BY <2>1
<1>10. QED
  BY <1>8, <1>9

LEMMA LastOfUnique ==
    ASSUME NEW doc, NEW n \in Nat, NEW kinds, NEW q \in 0..n, q # 0 => doc[q] \in kinds,
           \A i \in 1..n : doc[i] \in kinds => i <= q
    PROVE  LastOf(doc, n, kinds) = q
<1> DEFINE p == LastOf(doc, n, kinds)
<1>1. p \in 0..n /\ (p # 0 => doc[p] \in kinds) /\ \A i \in 1..n : doc[i] \in kinds => i <= p
  BY LastOfIs
<1> HIDE DEF p
<1>2. p # 0 => p <= q
  BY <1>1
<1>3. q # 0 => q <= p
  BY <1>1
<1>4. p = q
  BY <1>1, <1>2, <1>3
<1>5. QED
  BY <1>4 DEF p

LEMMA KindIs ==
    ASSUME NEW doc
    PROVE  KindAt(doc, 0) = "" /\ \A i : i # 0 => KindAt(doc, i) = doc[i]
<1>1. KindAt(doc, 0) = ""
  BY DEF KindAt
<1>2. ASSUME NEW i, i # 0
      PROVE  KindAt(doc, i) = doc[i]
  BY <1>2, Zenon DEF KindAt
<1>3. QED
  BY <1>1, <1>2

\* A line more: before it nothing changes.
LEMMA LinesBefore ==
    ASSUME NEW L, NEW doc \in Seq(L), NEW x \in L
    PROVE  /\ Append(doc, x) \in Seq(L)
           /\ Len(Append(doc, x)) = Len(doc) + 1 /\ Len(doc) \in Nat
           /\ DOMAIN Append(doc, x) = 1..(Len(doc) + 1) /\ DOMAIN doc = 1..Len(doc)
           /\ Append(doc, x)[Len(doc) + 1] = x
           /\ \A i \in 1..Len(doc) : Append(doc, x)[i] = doc[i]
           /\ KindAt(Append(doc, x), Len(doc) + 1) = x
           /\ \A i \in 0..Len(doc) : KindAt(Append(doc, x), i) = KindAt(doc, i)
<1>1. /\ Append(doc, x) \in Seq(L)
      /\ Len(Append(doc, x)) = Len(doc) + 1 /\ Len(doc) \in Nat
      /\ DOMAIN Append(doc, x) = 1..(Len(doc) + 1) /\ DOMAIN doc = 1..Len(doc)
      /\ Append(doc, x)[Len(doc) + 1] = x
      /\ \A i \in 1..Len(doc) : Append(doc, x)[i] = doc[i]
  OBVIOUS
<1> DEFINE e == Append(doc, x)
           n == Len(doc)
<1>2. n \in Nat /\ e[n + 1] = x /\ \A i \in 1..n : e[i] = doc[i]
  BY <1>1
<1> HIDE DEF e, n
<1>3. ASSUME NEW i \in 0..n
      PROVE  KindAt(e, i) = KindAt(doc, i)
  <2>1. CASE i = 0
    BY <2>1, KindIs
  <2>2. CASE i # 0
    <3>1. i \in 1..n
      BY <1>2, <2>2
    <3>2. KindAt(e, i) = e[i] /\ KindAt(doc, i) = doc[i]
      BY <2>2, KindIs
    <3>3. QED
      BY <1>2, <3>1, <3>2
  <2>3. QED
    BY <2>1, <2>2
<1>4. KindAt(e, n + 1) = x
  <2>1. n + 1 # 0
    BY <1>2
  <2>2. QED
    BY <1>2, <2>1, KindIs
<1>5. QED
  BY <1>1, <1>3, <1>4 DEF e, n

LEMMA LastOfBefore ==
    ASSUME NEW L, NEW doc \in Seq(L), NEW x \in L, NEW n \in 0..Len(doc), NEW kinds
    PROVE  /\ LastOf(Append(doc, x), n, kinds) = LastOf(doc, n, kinds)
           /\ LastOf(doc, n, kinds) \in 0..Len(doc)
<1> DEFINE p == LastOf(doc, n, kinds)
           e == Append(doc, x)
<1>1. n \in Nat /\ Len(doc) \in Nat /\ \A i \in 1..n : i \in 1..Len(doc)
  OBVIOUS
<1>2. \A i \in 1..n : e[i] = doc[i]
  BY <1>1, LinesBefore
<1>3. p \in 0..n /\ (p # 0 => doc[p] \in kinds) /\ \A i \in 1..n : doc[i] \in kinds => i <= p
  BY <1>1, LastOfIs
<1> HIDE DEF p, e
<1>4. (p # 0 => e[p] \in kinds) /\ \A i \in 1..n : e[i] \in kinds => i <= p
  BY <1>1, <1>2, <1>3
<1>5. LastOf(e, n, kinds) = p
  BY <1>1, <1>3, <1>4, LastOfUnique
<1>6. QED
  BY <1>1, <1>3, <1>5 DEF p, e

Latest(doc, kinds) == LastOf(doc, Len(doc), kinds)

\* The line itself is the last of its kinds.
LEMMA LatestNext ==
    ASSUME NEW L, NEW doc \in Seq(L), NEW x \in L, NEW kinds
    PROVE  /\ Latest(doc, kinds) \in 0..Len(doc)
           /\ Latest(doc, kinds) # 0 => doc[Latest(doc, kinds)] \in kinds
           /\ Latest(Append(doc, x), kinds) = IF x \in kinds THEN Len(doc) + 1 ELSE Latest(doc, kinds)
           /\ KindAt(Append(doc, x), Latest(Append(doc, x), kinds)) =
                IF x \in kinds THEN x ELSE KindAt(doc, Latest(doc, kinds))
<1> DEFINE p == Latest(doc, kinds)
           e == Append(doc, x)
           n == Len(doc)
           q == IF x \in kinds THEN n + 1 ELSE p
<1>1. /\ n \in Nat /\ Len(e) = n + 1 /\ e[n + 1] = x /\ \A i \in 1..n : e[i] = doc[i]
      /\ KindAt(e, n + 1) = x /\ \A i \in 0..n : KindAt(e, i) = KindAt(doc, i)
  BY LinesBefore
<1>2. p \in 0..n /\ (p # 0 => doc[p] \in kinds) /\ \A i \in 1..n : doc[i] \in kinds => i <= p
  BY <1>1, LastOfIs DEF Latest
<1> HIDE DEF p, e, n
<1>3. (x \in kinds => q = n + 1) /\ (x \notin kinds => q = p)
  OBVIOUS
<1> HIDE DEF q
<1>4. n + 1 \in Nat /\ q \in 0..(n + 1) /\ (q # 0 => e[q] \in kinds)
  BY <1>1, <1>2, <1>3
<1>5. \A i \in 1..(n + 1) : e[i] \in kinds => i <= q
  <2>1. \A i \in 1..(n + 1) : i \in 1..n \/ i = n + 1
    BY <1>1
  <2>2. QED
    BY <1>1, <1>2, <1>3, <2>1
<1>6. LastOf(e, n + 1, kinds) = q
  BY <1>4, <1>5, LastOfUnique
<1>7. Latest(e, kinds) = q
  BY <1>1, <1>6 DEF Latest
<1>8. KindAt(e, q) = IF x \in kinds THEN x ELSE KindAt(doc, p)
  BY <1>1, <1>2, <1>3
<1>9. QED
  BY <1>2, <1>7, <1>8 DEF p, e, n, q

\* Where the lines before it are written, and whether they are mislaid, stays.
LEMMA PlacesBefore ==
    ASSUME NEW L, NEW doc \in Seq(L), NEW x \in L, NEW m \in 1..Len(doc)
    PROVE  /\ WrittenIn(Append(doc, x), m) = WrittenIn(doc, m)
           /\ Mislaid(Append(doc, x), m) <=> Mislaid(doc, m)
<1> DEFINE e == Append(doc, x)
<1>1. /\ m \in 0..Len(doc) /\ m - 1 \in 0..Len(doc)
      /\ e[m] = doc[m] /\ \A i \in 0..Len(doc) : KindAt(e, i) = KindAt(doc, i)
  BY LinesBefore
<1>2. ASSUME NEW n \in 0..Len(doc), NEW kinds
      PROVE  /\ LastOf(e, n, kinds) = LastOf(doc, n, kinds)
             /\ KindAt(e, LastOf(e, n, kinds)) = KindAt(doc, LastOf(doc, n, kinds))
  <2>1. LastOf(e, n, kinds) = LastOf(doc, n, kinds) /\ LastOf(doc, n, kinds) \in 0..Len(doc)
    BY LastOfBefore
  <2>2. QED
    BY <1>1, <2>1
<1> HIDE DEF e
<1>3. Section(e, m) = Section(doc, m) /\ KindAt(e, Section(e, m)) = KindAt(doc, Section(doc, m))
  BY <1>1, <1>2 DEF Section
<1>4. LastOf(doc, m, Parts) \in 0..Len(doc) /\ 0 \in 0..Len(doc)
  BY <1>1, LastOfBefore
<1>5. Part(e, m) = Part(doc, m) /\ KindAt(e, Part(e, m)) = KindAt(doc, Part(doc, m))
  <2>1. Part(e, m) = Part(doc, m)
    BY <1>1, <1>2, <1>3 DEF Part
  <2>2. Part(doc, m) \in 0..Len(doc)
    BY <1>4 DEF Part
  <2>3. QED
    BY <1>1, <2>1, <2>2
<1>6. Unclosed(e, m) = Unclosed(doc, m) /\ KindAt(e, Unclosed(e, m)) = KindAt(doc, Unclosed(doc, m))
  BY <1>1, <1>2 DEF Unclosed
<1>7. WrittenIn(e, m) = WrittenIn(doc, m)
  <2>1. LastOf(e, m, {"Scenario:", "- request:", "term"}) = LastOf(doc, m, {"Scenario:", "- request:", "term"})
    BY <1>1, <1>2
  <2>2. QED
    BY <1>1, <1>3, <1>5, <2>1 DEF WrittenIn
<1>8. Mislaid(e, m) <=> Mislaid(doc, m)
  <2>1. /\ LastOf(e, m, {"Assertions:"}) = LastOf(doc, m, {"Assertions:"})
        /\ LastOf(e, m, {"Scenario:"}) = LastOf(doc, m, {"Scenario:"})
        /\ KindAt(e, LastOf(e, m, {"## Glossary", "---", "Feature:", "Component:"}))
             = KindAt(doc, LastOf(doc, m, {"## Glossary", "---", "Feature:", "Component:"}))
        /\ LastOf(e, m - 1, {"## Glossary [Technical Bindings]"}) = LastOf(doc, m - 1, {"## Glossary [Technical Bindings]"})
        /\ LastOf(e, m - 1, {"---", "## Glossary"}) = LastOf(doc, m - 1, {"---", "## Glossary"})
    BY <1>1, <1>2
  <2>2. QED
    BY <1>1, <1>3, <1>5, <1>6, <2>1 DEF Mislaid
<1>9. QED
  BY <1>7, <1>8 DEF e

LEMMA SoundBefore ==
    ASSUME NEW L, NEW doc \in Seq(L), NEW x \in L
    PROVE  /\ \A m \in 0..Len(doc) : Sound(Append(doc, x), m) <=> Sound(doc, m)
           /\ Sound(Append(doc, x), Len(doc) + 1) <=>
                Sound(doc, Len(doc)) /\ ~Mislaid(Append(doc, x), Len(doc) + 1)
<1> DEFINE e == Append(doc, x)
           n == Len(doc)
<1>1. n \in Nat /\ \A m \in 1..n : Mislaid(e, m) <=> Mislaid(doc, m)
  BY LinesBefore, PlacesBefore
<1> HIDE DEF e, n
<1>2. \A m \in 0..n : Sound(e, m) <=> Sound(doc, m)
  BY <1>1 DEF Sound
<1>3. Sound(e, n + 1) <=> Sound(e, n) /\ ~Mislaid(e, n + 1)
  <2>1. \A m : m \in 1..(n + 1) <=> m \in 1..n \/ m = n + 1
    BY <1>1
  <2>2. QED
    BY <2>1 DEF Sound
<1>4. n \in 0..n
  BY <1>1
<1>5. QED
  BY <1>2, <1>3, <1>4 DEF e, n

-----------------------------------------------------------------------------
(* Where a text has come to: the section and the part that its next line is *)
(* written in, and what is not closed.                                      *)
At(doc) == Section(doc, Len(doc))
In(doc) == KindAt(doc, At(doc))
PartAt(doc) == Part(doc, Len(doc))
PartIn(doc) == KindAt(doc, PartAt(doc))
OpenAt(doc) == Unclosed(doc, Len(doc))
OpenIn(doc) == KindAt(doc, OpenAt(doc))
Of(doc) == Latest(doc, {"Scenario:", "- request:", "term"})
Assertion(doc) == Latest(doc, {"Assertions:"})
Scenario(doc) == Latest(doc, {"Scenario:"})
RowsIn(doc) == KindAt(doc, Latest(doc, {"## Glossary", "---", "Feature:", "Component:"}))
Swallower(doc) == Latest(doc, {"## Glossary [Technical Bindings]"})
Ended(doc) == Latest(doc, {"---", "## Glossary"})

LEMMA Positions ==
    ASSUME NEW L, NEW doc \in Seq(L)
    PROVE  /\ At(doc) \in 0..Len(doc) /\ PartAt(doc) \in 0..Len(doc) /\ OpenAt(doc) \in 0..Len(doc)
           /\ Of(doc) \in 0..Len(doc) /\ Assertion(doc) \in 0..Len(doc) /\ Scenario(doc) \in 0..Len(doc)
           /\ Swallower(doc) \in 0..Len(doc) /\ Ended(doc) \in 0..Len(doc)
           /\ Len(doc) \in Nat
           /\ At(doc) # 0 => In(doc) = doc[At(doc)] /\ In(doc) \in Heads
           /\ PartAt(doc) # 0 => PartIn(doc) = doc[PartAt(doc)] /\ PartIn(doc) \in Parts
           /\ At(doc) = 0 => In(doc) = ""
           /\ PartAt(doc) = 0 => PartIn(doc) = ""
           /\ OpenAt(doc) = 0 => OpenIn(doc) = ""
           /\ OpenAt(doc) # 0 => OpenIn(doc) = doc[OpenAt(doc)]
           /\ Of(doc) # 0 => doc[Of(doc)] \in {"Scenario:", "- request:", "term"}
           /\ Scenario(doc) # 0 => doc[Scenario(doc)] = "Scenario:"
           /\ Assertion(doc) # 0 => doc[Assertion(doc)] = "Assertions:"
           /\ PartAt(doc) # 0 => PartAt(doc) = Latest(doc, Parts) /\ PartAt(doc) > At(doc)
           /\ PartAt(doc) = 0 => Latest(doc, Parts) <= At(doc)
<1>1. Len(doc) \in Nat
  OBVIOUS
<1>2. ASSUME NEW kinds
      PROVE  /\ Latest(doc, kinds) \in 0..Len(doc)
             /\ Latest(doc, kinds) # 0 => doc[Latest(doc, kinds)] \in kinds
             /\ Latest(doc, kinds) # 0 => KindAt(doc, Latest(doc, kinds)) = doc[Latest(doc, kinds)]
             /\ Latest(doc, kinds) = 0 => KindAt(doc, Latest(doc, kinds)) = ""
  BY <1>1, LastOfIs, KindIs DEF Latest
<1>3. At(doc) = Latest(doc, Heads) /\ OpenAt(doc) = Latest(doc, {"Invariant:", "Test Data:", "Component:"})
  BY DEF At, Section, OpenAt, Unclosed, Latest
<1>4. PartAt(doc) = IF Latest(doc, Parts) > At(doc) THEN Latest(doc, Parts) ELSE 0
  BY DEF At, PartAt, Part, Latest
<1>5. {At(doc), OpenAt(doc), Of(doc), Assertion(doc), Scenario(doc), Swallower(doc), Ended(doc), Latest(doc, Parts)}
        \subseteq 0..Len(doc)
  BY <1>2, <1>3 DEF Of, Assertion, Scenario, Swallower, Ended
<1>6. PartAt(doc) \in 0..Len(doc)
  BY <1>1, <1>4, <1>5
<1>7. /\ At(doc) # 0 => In(doc) = doc[At(doc)] /\ In(doc) \in Heads
      /\ At(doc) = 0 => In(doc) = ""
  BY <1>2, <1>3 DEF In
<1>8. /\ OpenAt(doc) # 0 => OpenIn(doc) = doc[OpenAt(doc)]
      /\ OpenAt(doc) = 0 => OpenIn(doc) = ""
  BY <1>2, <1>3 DEF OpenIn
<1>9. /\ Of(doc) # 0 => doc[Of(doc)] \in {"Scenario:", "- request:", "term"}
      /\ Scenario(doc) # 0 => doc[Scenario(doc)] \in {"Scenario:"}
      /\ Assertion(doc) # 0 => doc[Assertion(doc)] \in {"Assertions:"}
  BY <1>2 DEF Of, Scenario, Assertion
<1>10. PartAt(doc) # 0 => PartAt(doc) = Latest(doc, Parts) /\ PartAt(doc) > At(doc)
  BY <1>4
<1>11. PartAt(doc) = 0 => Latest(doc, Parts) <= At(doc)
  <2>1. At(doc) \in Nat /\ Latest(doc, Parts) \in Nat
    BY <1>1, <1>5
  <2>2. Latest(doc, Parts) > At(doc) => PartAt(doc) # 0
    BY <1>4, <2>1
  <2>3. QED
    BY <2>1, <2>2
<1>12. PartAt(doc) # 0 => PartIn(doc) = doc[PartAt(doc)] /\ PartIn(doc) \in Parts
  <2> SUFFICES ASSUME PartAt(doc) # 0 PROVE PartIn(doc) = doc[PartAt(doc)] /\ PartIn(doc) \in Parts
    OBVIOUS
  <2>1. PICK p : p = PartAt(doc)
    OBVIOUS
  <2>2. p = Latest(doc, Parts) /\ p # 0
    BY <1>10, <2>1
  <2>3. KindAt(doc, p) = doc[p] /\ doc[p] \in Parts
    BY <1>2, <2>2
  <2>4. QED
    BY <2>1, <2>3 DEF PartIn
<1>13. PartAt(doc) = 0 => PartIn(doc) = ""
  <2>1. KindAt(doc, 0) = ""
    BY KindIs
  <2>2. QED
    BY <2>1 DEF PartIn
<1>14. QED
  BY <1>1, <1>5, <1>6, <1>7, <1>8, <1>9, <1>10, <1>11, <1>12, <1>13

Inner == {"id:", "description:", "When", "->", "body:", "-", "- ?", "parameters:", "for:", "row", "row ---", "action:"}
Writable == Heads \cup Parts \cup Inner \cup {"---"}

\* `e` is the text with one line more.
OneMore(doc, x, e) == doc \in Seq(Writable) /\ x \in Writable /\ e = Append(doc, x)

\* What a line more does to the places a text has come to.
Places(doc, x, e) ==
    /\ e \in Seq(Writable) /\ Len(e) = Len(doc) + 1 /\ KindAt(e, Len(e)) = x
    /\ At(e) = IF x \in Heads THEN Len(e) ELSE At(doc)
    /\ In(e) = IF x \in Heads THEN x ELSE In(doc)
    /\ PartAt(e) = IF x \in Parts THEN Len(e) ELSE IF x \in Heads THEN 0 ELSE PartAt(doc)
    /\ PartIn(e) = IF x \in Parts THEN x ELSE IF x \in Heads THEN "" ELSE PartIn(doc)
    /\ OpenAt(e) = IF x \in {"Invariant:", "Test Data:", "Component:"} THEN Len(e) ELSE OpenAt(doc)
    /\ OpenIn(e) = IF x \in {"Invariant:", "Test Data:", "Component:"} THEN x ELSE OpenIn(doc)
    /\ Of(e) = IF x \in {"Scenario:", "- request:", "term"} THEN Len(e) ELSE Of(doc)
    /\ Assertion(e) = IF x = "Assertions:" THEN Len(e) ELSE Assertion(doc)
    /\ Scenario(e) = IF x = "Scenario:" THEN Len(e) ELSE Scenario(doc)
    /\ RowsIn(e) = IF x \in {"## Glossary", "---", "Feature:", "Component:"} THEN x ELSE RowsIn(doc)
    /\ Swallower(e) = IF x = "## Glossary [Technical Bindings]" THEN Len(e) ELSE Swallower(doc)
    /\ Ended(e) = IF x \in {"---", "## Glossary"} THEN Len(e) ELSE Ended(doc)

LEMMA NextPlaces ==
    ASSUME NEW doc, NEW x, NEW e, OneMore(doc, x, e)
    PROVE  Places(doc, x, e)
<1>1. /\ e \in Seq(Writable) /\ Len(e) = Len(doc) + 1 /\ Len(doc) \in Nat /\ KindAt(e, Len(e)) = x
      /\ \A i \in 0..Len(doc) : KindAt(e, i) = KindAt(doc, i)
  BY LinesBefore DEF OneMore
<1>2. ASSUME NEW kinds
      PROVE  /\ Latest(e, kinds) = IF x \in kinds THEN Len(e) ELSE Latest(doc, kinds)
             /\ KindAt(e, Latest(e, kinds)) = IF x \in kinds THEN x ELSE KindAt(doc, Latest(doc, kinds))
             /\ Latest(doc, kinds) \in 0..Len(doc)
  BY <1>1, LatestNext DEF OneMore
<1>3. At(e) = Latest(e, Heads) /\ At(doc) = Latest(doc, Heads)
  BY DEF At, Section, Latest
<1>4. /\ At(e) = IF x \in Heads THEN Len(e) ELSE At(doc)
      /\ In(e) = IF x \in Heads THEN x ELSE In(doc)
  BY <1>2, <1>3 DEF In
<1>5. /\ OpenAt(e) = IF x \in {"Invariant:", "Test Data:", "Component:"} THEN Len(e) ELSE OpenAt(doc)
      /\ OpenIn(e) = IF x \in {"Invariant:", "Test Data:", "Component:"} THEN x ELSE OpenIn(doc)
  <2>1. /\ OpenAt(e) = Latest(e, {"Invariant:", "Test Data:", "Component:"})
        /\ OpenAt(doc) = Latest(doc, {"Invariant:", "Test Data:", "Component:"})
    BY DEF OpenAt, Unclosed, Latest
  <2>2. QED
    BY <1>2, <2>1 DEF OpenIn
<1>6. /\ Of(e) = IF x \in {"Scenario:", "- request:", "term"} THEN Len(e) ELSE Of(doc)
      /\ Assertion(e) = IF x \in {"Assertions:"} THEN Len(e) ELSE Assertion(doc)
      /\ Scenario(e) = IF x \in {"Scenario:"} THEN Len(e) ELSE Scenario(doc)
      /\ RowsIn(e) = IF x \in {"## Glossary", "---", "Feature:", "Component:"} THEN x ELSE RowsIn(doc)
      /\ Swallower(e) = IF x \in {"## Glossary [Technical Bindings]"} THEN Len(e) ELSE Swallower(doc)
      /\ Ended(e) = IF x \in {"---", "## Glossary"} THEN Len(e) ELSE Ended(doc)
  BY <1>2 DEF Of, Assertion, Scenario, RowsIn, Swallower, Ended
<1>7. /\ PartAt(e) = IF Latest(e, Parts) > At(e) THEN Latest(e, Parts) ELSE 0
      /\ PartAt(doc) = IF Latest(doc, Parts) > At(doc) THEN Latest(doc, Parts) ELSE 0
  BY DEF At, PartAt, Part, Latest
<1>8. /\ Latest(doc, Parts) \in 0..Len(doc) /\ At(doc) \in 0..Len(doc)
      /\ x \in Parts => Latest(e, Parts) = Len(e) /\ KindAt(e, Len(e)) = x
      /\ x \notin Parts => Latest(e, Parts) = Latest(doc, Parts)
  BY <1>1, <1>2, <1>3
<1>9. x \in Parts => x \notin Heads
  BY DEF Parts, Heads
<1>10. /\ x \in Parts => PartAt(e) = Len(e)
       /\ x \in Heads => PartAt(e) = 0
       /\ x \notin Parts /\ x \notin Heads => PartAt(e) = PartAt(doc)
  <2>1. CASE x \in Parts
    <3>1. Len(e) > At(doc) /\ At(e) = At(doc) /\ Latest(e, Parts) = Len(e)
      BY <1>1, <1>4, <1>8, <1>9, <2>1
    <3>2. QED
      BY <1>7, <1>9, <2>1, <3>1
  <2>2. CASE x \in Heads
    <3>1. At(e) = Len(e) /\ Latest(e, Parts) = Latest(doc, Parts)
      BY <1>4, <1>8, <1>9, <2>2
    <3>2. ~(Latest(e, Parts) > At(e))
      BY <1>1, <1>8, <3>1
    <3>3. QED
      BY <1>7, <1>9, <2>2, <3>2
  <2>3. CASE x \notin Parts /\ x \notin Heads
    BY <1>4, <1>7, <1>8, <2>3
  <2>4. QED
    BY <2>1, <2>2, <2>3
<1>11. PartAt(doc) \in 0..Len(doc) /\ KindAt(e, 0) = ""
  <2>1. KindAt(e, 0) = ""
    BY KindIs
  <2>2. 0 \in 0..Len(doc)
    BY <1>1
  <2>3. QED
    BY <1>7, <1>8, <2>1, <2>2
<1>12. /\ x \in Parts => PartIn(e) = x
       /\ x \in Heads => PartIn(e) = ""
       /\ x \notin Parts /\ x \notin Heads => PartIn(e) = PartIn(doc)
  BY <1>1, <1>10, <1>11 DEF PartIn
<1>13. /\ PartAt(e) = IF x \in Parts THEN Len(e) ELSE IF x \in Heads THEN 0 ELSE PartAt(doc)
       /\ PartIn(e) = IF x \in Parts THEN x ELSE IF x \in Heads THEN "" ELSE PartIn(doc)
  BY <1>9, <1>10, <1>12
<1>14. QED
  BY <1>1, <1>4, <1>5, <1>6, <1>13 DEF Places

\* The section the next line is written in.
LEMMA WrittenNext ==
    ASSUME NEW doc, NEW x, NEW e, OneMore(doc, x, e)
    PROVE  /\ x = "---" => WrittenIn(e, Len(e)) = 0
           /\ x \in Heads \cup {"Scenario:", "- request:", "term"} => WrittenIn(e, Len(e)) = Len(e)
           /\ x = "row" => WrittenIn(e, Len(e)) = IF In(doc) = "## Glossary" THEN Glossary ELSE At(doc)
           /\ x \in {"When", "body:", "-", "- ?", "action:", "assert:"} =>
                WrittenIn(e, Len(e)) = IF In(doc) = "Invariant:" THEN At(doc) ELSE Of(doc)
           /\ x = "->" => WrittenIn(e, Len(e)) = IF PartIn(doc) = "Scenario:" THEN PartAt(doc) ELSE At(doc)
           /\ x \in {"id:", "description:", "parameters:", "for:", "row ---", "Assertions:", "Inherent Behavior:"} =>
                WrittenIn(e, Len(e)) = At(doc)
<1> DEFINE n == Len(e)
<1>1. e[n] = x
  BY LinesBefore DEF OneMore
<1>2. /\ Section(e, n) = At(e) /\ Part(e, n) = PartAt(e)
      /\ LastOf(e, n, {"Scenario:", "- request:", "term"}) = Of(e)
      /\ KindAt(e, At(e)) = In(e) /\ KindAt(e, PartAt(e)) = PartIn(e)
  BY DEF At, PartAt, Of, Latest, In, PartIn
<1> HIDE DEF n
<1>3. /\ x = "---" => WrittenIn(e, n) = 0
      /\ x \in Heads \cup {"Scenario:", "- request:", "term"} => WrittenIn(e, n) = n
      /\ x = "row" => WrittenIn(e, n) = IF In(e) = "## Glossary" THEN Glossary ELSE At(e)
      /\ x \in {"When", "body:", "-", "- ?", "action:", "assert:"} =>
           WrittenIn(e, n) = IF In(e) = "Invariant:" THEN At(e) ELSE Of(e)
      /\ x = "->" => WrittenIn(e, n) = IF PartIn(e) = "Scenario:" THEN PartAt(e) ELSE At(e)
      /\ x \in {"id:", "description:", "parameters:", "for:", "row ---", "Assertions:", "Inherent Behavior:"} =>
           WrittenIn(e, n) = At(e)
  BY <1>1, <1>2 DEF WrittenIn, Nowhere, Heads
<1>4. x \notin Heads => At(e) = At(doc) /\ In(e) = In(doc)
  BY NextPlaces DEF Places
<1>5. x \notin {"Scenario:", "- request:", "term"} => Of(e) = Of(doc)
  BY NextPlaces DEF Places
<1>6. x \notin Heads /\ x \notin Parts => PartAt(e) = PartAt(doc) /\ PartIn(e) = PartIn(doc)
  BY NextPlaces DEF Places
<1>7. QED
  BY <1>3, <1>4, <1>5, <1>6 DEF n, Heads, Parts

\* Whether it is one of those that go elsewhere.
Swallowed(doc) == Swallower(doc) > Ended(doc)
Asserting(doc) == OpenIn(doc) = "Invariant:" /\ Assertion(doc) > OpenAt(doc)

LEMMA MislaidNext ==
    ASSUME NEW doc, NEW x, NEW e, OneMore(doc, x, e)
    PROVE  /\ x \in {"Feature:", "Component:", "Invariant:", "Test Data:"} => (Mislaid(e, Len(e)) <=> Swallowed(doc))
           /\ x = "- request:" => (Mislaid(e, Len(e)) <=> In(doc) = "Feature:" /\ Asserting(doc))
           /\ x \in {"---", "## Glossary", "## Glossary [Technical Bindings]", "Scenario:", "Assertions:",
                     "Inherent Behavior:", "term", "assert:"} => ~Mislaid(e, Len(e))
           /\ x \in Inner =>
                (Mislaid(e, Len(e)) <=>
                   \/ /\ In(doc) = "Feature:"
                      /\ \/ OpenIn(doc) = "Invariant:" /\ x \in {"id:", "description:"}
                         \/ Asserting(doc) /\ x \in {"->", "-", "- ?"}
                         \/ OpenIn(doc) = "Test Data:" /\ x = "id:"
                         \/ PartIn(doc) = "assert:" /\ x = "body:"
                         \/ x = "- ?"
                   \/ PartIn(doc) = "Inherent Behavior:" /\ x = "->" /\ Scenario(doc) > At(doc)
                   \/ x = "row ---"
                   \/ In(doc) = "Test Data:" /\ x = "row" /\ RowsIn(doc) = "## Glossary")
<1> DEFINE n == Len(e)
<1>1. e[n] = x /\ n \in Nat /\ n - 1 = Len(doc) /\ n - 1 \in 0..Len(doc)
  BY LinesBefore DEF OneMore
<1>2. /\ Section(e, n) = At(e) /\ Part(e, n) = PartAt(e) /\ Unclosed(e, n) = OpenAt(e)
      /\ LastOf(e, n, {"Assertions:"}) = Assertion(e) /\ LastOf(e, n, {"Scenario:"}) = Scenario(e)
      /\ KindAt(e, At(e)) = In(e) /\ KindAt(e, PartAt(e)) = PartIn(e) /\ KindAt(e, OpenAt(e)) = OpenIn(e)
      /\ KindAt(e, LastOf(e, n, {"## Glossary", "---", "Feature:", "Component:"})) = RowsIn(e)
  BY DEF At, PartAt, OpenAt, Assertion, Scenario, Latest, In, PartIn, OpenIn, RowsIn
<1>3. /\ LastOf(e, n - 1, {"## Glossary [Technical Bindings]"}) = Swallower(doc)
      /\ LastOf(e, n - 1, {"---", "## Glossary"}) = Ended(doc)
      /\ Swallower(doc) \in Nat /\ Ended(doc) \in Nat
  <2>1. /\ LastOf(e, n - 1, {"## Glossary [Technical Bindings]"}) = LastOf(doc, n - 1, {"## Glossary [Technical Bindings]"})
        /\ LastOf(e, n - 1, {"---", "## Glossary"}) = LastOf(doc, n - 1, {"---", "## Glossary"})
    <3>1. ASSUME NEW kinds, NEW i \in 0..Len(doc)
          PROVE  LastOf(e, i, kinds) = LastOf(doc, i, kinds)
      BY LastOfBefore DEF OneMore
    <3>2. QED
      BY <1>1, <3>1
  <2>2. Swallower(doc) \in Nat /\ Ended(doc) \in Nat
    <3>1. doc \in Seq(Writable)
      BY DEF OneMore
    <3>2. Swallower(doc) \in 0..Len(doc) /\ Ended(doc) \in 0..Len(doc) /\ Len(doc) \in Nat
      BY <3>1, Positions
    <3>3. QED
      BY <3>2
  <2>3. QED
    BY <1>1, <2>1, <2>2 DEF Swallower, Ended, Latest
<1> HIDE DEF n
<1>4. Mislaid(e, n) <=>
       \/ /\ In(e) = "Feature:"
          /\ \/ OpenIn(e) = "Invariant:" /\ x \in {"id:", "description:"}
             \/ OpenIn(e) = "Invariant:" /\ Assertion(e) > OpenAt(e) /\ x \in {"->", "-", "- ?", "- request:"}
             \/ OpenIn(e) = "Test Data:" /\ x = "id:"
             \/ PartIn(e) = "assert:" /\ x = "body:"
             \/ x = "- ?"
       \/ PartIn(e) = "Inherent Behavior:" /\ x = "->" /\ Scenario(e) > At(e)
       \/ x = "row ---"
       \/ In(e) = "Test Data:" /\ x = "row" /\ RowsIn(e) = "## Glossary"
       \/ /\ x \in {"Feature:", "Component:", "Invariant:", "Test Data:"}
          /\ Swallower(doc) # 0 /\ Ended(doc) < Swallower(doc)
  BY <1>1, <1>2, <1>3 DEF Mislaid
<1>5. Swallowed(doc) <=> Swallower(doc) # 0 /\ Ended(doc) < Swallower(doc)
  <2>1. ASSUME NEW s \in Nat, NEW t \in Nat
        PROVE  s > t <=> s # 0 /\ t < s
    OBVIOUS
  <2>2. QED
    BY <1>3, <2>1 DEF Swallowed
<1>6. x \in Heads => In(e) = x /\ PartIn(e) = ""
  <2>1. x \in Heads => x \notin Parts
    BY DEF Heads, Parts
  <2>2. Places(doc, x, e)
    BY NextPlaces
  <2>3. QED
    BY <2>1, <2>2 DEF Places
<1>7. x \in Inner => x \notin Heads /\ x \notin Parts
  BY DEF Inner, Heads, Parts
<1> DEFINE Quiet == Inner \cup {"- request:"}
<1>8. x \in Quiet => /\ In(e) = In(doc) /\ OpenAt(e) = OpenAt(doc) /\ OpenIn(e) = OpenIn(doc)
                                        /\ Assertion(e) = Assertion(doc) /\ Scenario(e) = Scenario(doc)
                                        /\ At(e) = At(doc) /\ RowsIn(e) = RowsIn(doc)
  <2>1. x \in Quiet => x \notin Heads /\ x # "Assertions:" /\ x # "Scenario:"
          /\ x \notin {"## Glossary", "---", "Feature:", "Component:"}
          /\ x \notin {"Invariant:", "Test Data:", "Component:"}
    BY DEF Inner, Heads, Quiet
  <2> HIDE DEF Quiet
  <2>2. x \in Quiet => In(e) = In(doc) /\ At(e) = At(doc)
    BY <2>1, NextPlaces DEF Places
  <2>3. x \in Quiet => OpenAt(e) = OpenAt(doc) /\ OpenIn(e) = OpenIn(doc)
    BY <2>1, NextPlaces DEF Places
  <2>4. x \in Quiet => Assertion(e) = Assertion(doc) /\ Scenario(e) = Scenario(doc)
    BY <2>1, NextPlaces DEF Places
  <2>5. x \in Quiet => RowsIn(e) = RowsIn(doc)
    BY <2>1, NextPlaces DEF Places
  <2>6. QED
    BY <2>2, <2>3, <2>4, <2>5
<1>9. x \in Inner => PartIn(e) = PartIn(doc)
  BY <1>7, NextPlaces DEF Places
<1>10. x \in {"Feature:", "Component:", "Invariant:", "Test Data:"} => (Mislaid(e, n) <=> Swallowed(doc))
  BY <1>4, <1>5, <1>6 DEF Heads
<1>11. x = "- request:" => (Mislaid(e, n) <=> In(doc) = "Feature:" /\ Asserting(doc))
  BY <1>4, <1>8 DEF Asserting
<1>12. x \in {"---", "## Glossary", "## Glossary [Technical Bindings]", "Scenario:", "Assertions:",
              "Inherent Behavior:", "term", "assert:"} => ~Mislaid(e, n)
  BY <1>4
<1>13. x \in Inner =>
         (Mislaid(e, n) <=>
             \/ /\ In(doc) = "Feature:"
                /\ \/ OpenIn(doc) = "Invariant:" /\ x \in {"id:", "description:"}
                   \/ Asserting(doc) /\ x \in {"->", "-", "- ?"}
                   \/ OpenIn(doc) = "Test Data:" /\ x = "id:"
                   \/ PartIn(doc) = "assert:" /\ x = "body:"
                   \/ x = "- ?"
             \/ PartIn(doc) = "Inherent Behavior:" /\ x = "->" /\ Scenario(doc) > At(doc)
             \/ x = "row ---"
             \/ In(doc) = "Test Data:" /\ x = "row" /\ RowsIn(doc) = "## Glossary")
  <2>1. x \in Inner => x \notin {"- request:", "Feature:", "Component:", "Invariant:", "Test Data:"}
    BY DEF Inner
  <2>2. QED
    BY <1>4, <1>8, <1>9, <2>1 DEF Asserting
<1>14. QED
  BY <1>10, <1>11, <1>12, <1>13 DEF n

-----------------------------------------------------------------------------
(* The other handlers. `Puts`: one line more is put somewhere.             *)
Puts(st, t, section) == t \in Lines /\ t.owner = Append(st.owner, section)
Same(st, t, changed) == \A f \in Fields \ changed : t[f] = st[f]

LEMMA IntoPuts ==
    ASSUME NEW st \in Lines, NEW section \in Int
    PROVE  /\ Puts(st, Into(st, section), section)
           /\ Same(st, Into(st, section), {"owner"})
           /\ \A all : Holds(st, all) => Holds(Into(st, section), all)
<1> DEFINE t == Into(st, section)
<1>1. t \in Lines /\ t.owner = Append(st.owner, section) /\ \A f \in Fields \ {"owner"} : t[f] = st[f]
  BY IntoIs
<1> HIDE DEF t
<1>2. t.kept = st.kept /\ \A f \in OpenFields : t[f] = st[f]
  BY <1>1 DEF Fields, OpenFields
<1>3. \A all : Holds(st, all) => Holds(t, all)
  BY <1>2, HoldsStill
<1>4. QED
  BY <1>1, <1>3 DEF Puts, Same, t

LEMMA FlagPuts ==
    ASSUME NEW st \in Lines, NEW f \in Flags, NEW b \in BOOLEAN, NEW section \in Int
    PROVE  /\ Puts(st, Into([st EXCEPT ![f] = b], section), section)
           /\ Into([st EXCEPT ![f] = b], section)[f] = b
           /\ Same(st, Into([st EXCEPT ![f] = b], section), {"owner", f})
           /\ \A all : Holds(st, all) => Holds(Into([st EXCEPT ![f] = b], section), all)
<1> DEFINE u == [st EXCEPT ![f] = b]
           t == Into(u, section)
<1>1. u \in Lines
  <2>1. CASE f = "glossary"
    BY <2>1 DEF Lines
  <2>2. CASE f = "bindings"
    BY <2>2 DEF Lines
  <2>3. CASE f = "assertions"
    BY <2>3 DEF Lines
  <2>4. CASE f = "inherent"
    BY <2>4 DEF Lines
  <2>5. CASE f = "invariantAssertions"
    BY <2>5 DEF Lines
  <2>6. CASE f = "columns"
    BY <2>6 DEF Lines
  <2>7. CASE f = "assertList"
    BY <2>7 DEF Lines
  <2>8. QED
    BY <2>1, <2>2, <2>3, <2>4, <2>5, <2>6, <2>7 DEF Flags
<1>2. f \in Fields /\ f \notin OpenFields /\ f # "kept" /\ f # "owner" /\ OpenFields \subseteq Fields
      /\ "kept" \in Fields /\ "owner" \in Fields /\ "kept" \notin OpenFields /\ "owner" \notin OpenFields
  BY DEF Fields, OpenFields, Flags
<1>3. u[f] = b /\ \A g \in Fields \ {f} : u[g] = st[g]
  BY <1>2, FieldsAre
<1> HIDE DEF u
<1>4. t \in Lines /\ t.owner = Append(u.owner, section) /\ \A g \in Fields \ {"owner"} : t[g] = u[g]
  BY <1>1, IntoIs
<1> HIDE DEF t
<1>5. t.kept = st.kept /\ (\A g \in OpenFields : t[g] = st[g]) /\ u.owner = st.owner
  BY <1>2, <1>3, <1>4
<1>6. \A all : Holds(st, all) => Holds(t, all)
  BY <1>5, HoldsStill
<1>7. t[f] = b /\ \A g \in Fields \ {"owner", f} : t[g] = st[g]
  BY <1>2, <1>3, <1>4
<1>8. QED
  BY <1>4, <1>5, <1>6, <1>7 DEF Puts, Same, t, u

\* What is open in a field is saved and another section opened in it.
LEMMA Reopens ==
    ASSUME NEW st \in Lines, NEW f \in OpenFields, NEW n \in Nat, n # 0, NEW t \in Lines,
           t[f] = n, t.kept = Save(st, f).kept, \A g \in OpenFields \ {f} : t[g] = st[g]
    PROVE  \A all : Holds(st, all) /\ n \notin all => Holds(t, all \cup {n})
<1> DEFINE u == Save(st, f)
<1>1. u[f] = 0 /\ \A g \in Fields \ {f, "kept"} : u[g] = st[g]
  BY SaveIs
<1>2. OpenFields \subseteq Fields /\ "kept" \notin OpenFields
  BY DEF Fields, OpenFields
<1>3. \A all : Holds(st, all) => Holds(u, all)
  BY HoldsSave
<1> HIDE DEF u
<1>4. \A g \in OpenFields \ {f} : t[g] = u[g]
  BY <1>1, <1>2
<1>5. t.kept = u.kept
  BY DEF u
<1>6. QED
  BY <1>1, <1>3, <1>4, <1>5, HoldsOpen

LEMMA NewScenarioPuts ==
    ASSUME NEW st \in Lines, NEW n \in Nat, n # 0
    PROVE  /\ Puts(st, NewScenario(st, n), n)
           /\ NewScenario(st, n).scenario = n
           /\ Same(st, NewScenario(st, n), {"owner", "scenario", "kept"})
           /\ \A all : Holds(st, all) /\ n \notin all => Holds(NewScenario(st, n), all \cup {n})
<1> DEFINE u == Save(st, "scenario")
           v == [u EXCEPT !.scenario = n]
           t == Into(v, n)
<1>0. n \in Int /\ "scenario" \in OpenFields /\ OpenFields \subseteq Fields /\ "kept" \notin OpenFields /\ "owner" \notin OpenFields
      /\ "kept" \in Fields /\ "owner" \in Fields
  BY DEF OpenFields, Fields
<1>1. u \in Lines /\ \A g \in Fields \ {"scenario", "kept"} : u[g] = st[g]
  BY <1>0, SaveIs
<1>2. v \in Lines /\ v.scenario = n /\ \A g \in Fields \ {"scenario"} : v[g] = u[g]
  BY <1>0, <1>1, OpenFieldSet, FieldsAre
<1>3. NewScenario(st, n) = t
  BY DEF NewScenario
<1> HIDE DEF u, v
<1>4. t \in Lines /\ t.owner = Append(v.owner, n) /\ \A g \in Fields \ {"owner"} : t[g] = v[g]
  BY <1>0, <1>2, IntoIs
<1> HIDE DEF t
<1>5. t.scenario = n /\ v.owner = st.owner /\ t.kept = u.kept
  BY <1>0, <1>1, <1>2, <1>4
<1>6. \A g \in Fields \ {"owner", "scenario", "kept"} : t[g] = st[g]
  BY <1>1, <1>2, <1>4
<1>7. \A g \in OpenFields \ {"scenario"} : t[g] = st[g]
  BY <1>0, <1>6
<1>8. \A all : Holds(st, all) /\ n \notin all => Holds(t, all \cup {n})
  BY <1>0, <1>4, <1>5, <1>7, Reopens DEF u
<1>9. QED
  BY <1>3, <1>4, <1>5, <1>6, <1>8 DEF Puts, Same

LEMMA RequestPuts ==
    ASSUME NEW st \in Lines, NEW n \in Nat, n # 0
    PROVE  /\ Puts(st, FeatureLine(st, "- request:", n), n)
           /\ FeatureLine(st, "- request:", n).test = n
           /\ FeatureLine(st, "- request:", n).assertions = FALSE
           /\ Same(st, FeatureLine(st, "- request:", n), {"owner", "test", "kept", "assertions"})
           /\ \A all : Holds(st, all) /\ n \notin all => Holds(FeatureLine(st, "- request:", n), all \cup {n})
<1> DEFINE u == Save(st, "test")
           v == [u EXCEPT !.test = n, !.assertions = FALSE]
           t == Into(v, n)
<1>0. n \in Int /\ "test" \in OpenFields /\ OpenFields \subseteq Fields /\ "kept" \notin OpenFields /\ "owner" \notin OpenFields
      /\ "kept" \in Fields /\ "owner" \in Fields /\ "assertions" \in Fields /\ "assertions" \notin OpenFields
  BY DEF OpenFields, Fields, Flags
<1>1. u \in Lines /\ \A g \in Fields \ {"test", "kept"} : u[g] = st[g]
  BY <1>0, SaveIs
<1>2. FeatureLine(st, "- request:", n) = t
  BY DEF FeatureLine, ScenarioFields
<1> HIDE DEF u
<1>3. v \in Lines
  BY <1>1 DEF Lines
<1>4. v.test = n /\ v.assertions = FALSE /\ \A g \in Fields \ {"test", "assertions"} : v[g] = u[g]
  BY <1>0, <1>1, FieldsAre
<1> HIDE DEF v
<1>5. t \in Lines /\ t.owner = Append(v.owner, n) /\ \A g \in Fields \ {"owner"} : t[g] = v[g]
  BY <1>0, <1>3, IntoIs
<1> HIDE DEF t
<1>6. t.test = n /\ t.assertions = FALSE /\ v.owner = st.owner /\ t.kept = u.kept
  BY <1>0, <1>1, <1>4, <1>5
<1>7. \A g \in Fields \ {"owner", "test", "kept", "assertions"} : t[g] = st[g]
  BY <1>1, <1>4, <1>5
<1>8. \A g \in OpenFields \ {"test"} : t[g] = st[g]
  BY <1>0, <1>7
<1>9. \A all : Holds(st, all) /\ n \notin all => Holds(t, all \cup {n})
  BY <1>0, <1>5, <1>6, <1>8, Reopens DEF u
<1>10. QED
  BY <1>2, <1>5, <1>6, <1>7, <1>9 DEF Puts, Same

LEMMA ScenarioOfFeaturePuts ==
    ASSUME NEW st \in Lines, NEW n \in Nat, n # 0
    PROVE  /\ Puts(st, FeatureLine(st, "Scenario:", n), n)
           /\ FeatureLine(st, "Scenario:", n).scenario = n
           /\ Same(st, FeatureLine(st, "Scenario:", n), {"owner", "test", "scenario", "kept", "assertions"})
           /\ FeatureLine(st, "Scenario:", n).test = 0
           /\ \A all : Holds(st, all) /\ n \notin all => Holds(FeatureLine(st, "Scenario:", n), all \cup {n})
<1> DEFINE u == Save(st, "test")
           v == [u EXCEPT !.assertions = FALSE]
           t == NewScenario(v, n)
<1>0. "test" \in OpenFields /\ OpenFields \subseteq Fields /\ "kept" \notin OpenFields /\ "owner" \notin OpenFields
      /\ "kept" \in Fields /\ "owner" \in Fields /\ "assertions" \in Fields /\ "assertions" \notin OpenFields
      /\ "scenario" \in OpenFields
  BY DEF OpenFields, Fields, Flags
<1>1. /\ u \in Lines /\ u.test = 0 /\ \A g \in Fields \ {"test", "kept"} : u[g] = st[g]
      /\ \A all : Holds(st, all) => Holds(u, all)
  BY <1>0, SaveIs, HoldsSave
<1>2. FeatureLine(st, "Scenario:", n) = t
  BY DEF FeatureLine, ScenarioFields
<1> HIDE DEF u
<1>3. v \in Lines
  BY <1>1 DEF Lines
<1>4. \A g \in Fields \ {"assertions"} : v[g] = u[g]
  BY <1>0, <1>1, FieldsAre
<1> HIDE DEF v
<1>5. \A all : Holds(u, all) => Holds(v, all)
  <2>1. v.kept = u.kept /\ \A g \in OpenFields : v[g] = u[g]
    BY <1>0, <1>4
  <2>2. QED
    BY <2>1, HoldsStill
<1>6. /\ t \in Lines /\ t.owner = Append(v.owner, n) /\ t.scenario = n
      /\ \A g \in Fields \ {"owner", "scenario", "kept"} : t[g] = v[g]
      /\ \A all : Holds(v, all) /\ n \notin all => Holds(t, all \cup {n})
  BY <1>3, NewScenarioPuts DEF Puts, Same
<1> HIDE DEF t
<1>7. v.owner = st.owner /\ t.test = 0
  BY <1>0, <1>1, <1>4, <1>6
<1>8. \A g \in Fields \ {"owner", "test", "scenario", "kept", "assertions"} : t[g] = st[g]
  BY <1>1, <1>4, <1>6
<1>9. QED
  BY <1>1, <1>2, <1>5, <1>6, <1>7, <1>8 DEF Puts, Same

LEMMA ScenarioOfComponentPuts ==
    ASSUME NEW st \in Lines, NEW n \in Nat, n # 0
    PROVE  /\ Puts(st, ComponentLine(st, "Scenario:", n), n)
           /\ ComponentLine(st, "Scenario:", n).scenario = n
           /\ Same(st, ComponentLine(st, "Scenario:", n), {"owner", "scenario", "kept", "inherent"})
           /\ \A all : Holds(st, all) /\ n \notin all => Holds(ComponentLine(st, "Scenario:", n), all \cup {n})
<1> DEFINE v == [st EXCEPT !.inherent = FALSE]
           t == NewScenario(v, n)
<1>0. OpenFields \subseteq Fields /\ "kept" \notin OpenFields /\ "owner" \notin OpenFields
      /\ "kept" \in Fields /\ "owner" \in Fields /\ "inherent" \in Fields /\ "inherent" \notin OpenFields
  BY DEF OpenFields, Fields, Flags
<1>1. ComponentLine(st, "Scenario:", n) = t
  BY DEF ComponentLine, ScenarioFields
<1>2. v \in Lines
  BY DEF Lines
<1>3. \A g \in Fields \ {"inherent"} : v[g] = st[g]
  BY <1>0, FieldsAre
<1> HIDE DEF v
<1>4. \A all : Holds(st, all) => Holds(v, all)
  <2>1. v.kept = st.kept /\ \A g \in OpenFields : v[g] = st[g]
    BY <1>0, <1>3
  <2>2. QED
    BY <2>1, HoldsStill
<1>5. /\ t \in Lines /\ t.owner = Append(v.owner, n) /\ t.scenario = n
      /\ \A g \in Fields \ {"owner", "scenario", "kept"} : t[g] = v[g]
      /\ \A all : Holds(v, all) /\ n \notin all => Holds(t, all \cup {n})
  BY <1>2, NewScenarioPuts DEF Puts, Same
<1> HIDE DEF t
<1>6. v.owner = st.owner
  BY <1>0, <1>3
<1>7. \A g \in Fields \ {"owner", "scenario", "kept", "inherent"} : t[g] = st[g]
  BY <1>3, <1>5
<1>8. QED
  BY <1>1, <1>4, <1>5, <1>6, <1>7 DEF Puts, Same

LEMMA TermPuts ==
    ASSUME NEW st \in Lines, NEW n \in Nat, n # 0
    PROVE  /\ Puts(st, BindingLine(st, "term", n), n)
           /\ BindingLine(st, "term", n).binding = n
           /\ Same(st, BindingLine(st, "term", n), {"owner", "binding", "kept", "assertList"})
           /\ \A all : Holds(st, all) /\ n \notin all => Holds(BindingLine(st, "term", n), all \cup {n})
<1> DEFINE u == Save(st, "binding")
           v == [u EXCEPT !.binding = n, !.assertList = FALSE, !.setup = FALSE]
           t == Into(v, n)
<1>0. n \in Int /\ "binding" \in OpenFields /\ OpenFields \subseteq Fields /\ "kept" \notin OpenFields /\ "owner" \notin OpenFields
      /\ "kept" \in Fields /\ "owner" \in Fields /\ "assertList" \in Fields /\ "assertList" \notin OpenFields
      /\ "setup" \in Fields /\ "setup" \notin OpenFields
  BY DEF OpenFields, Fields, Flags
<1>1. u \in Lines /\ \A g \in Fields \ {"binding", "kept"} : u[g] = st[g]
  BY <1>0, SaveIs
<1>2. BindingLine(st, "term", n) = t
  BY DEF BindingLine, SaveBinding, BindingFields
<1> HIDE DEF u
<1>3. v \in Lines
  BY <1>1 DEF Lines
<1>4. /\ v.binding = n /\ v.assertList = FALSE /\ v.setup = FALSE
      /\ \A g \in Fields \ {"binding", "assertList", "setup"} : v[g] = u[g]
  BY <1>0, <1>1, FieldsAre
<1> HIDE DEF v
<1>5. t \in Lines /\ t.owner = Append(v.owner, n) /\ \A g \in Fields \ {"owner"} : t[g] = v[g]
  BY <1>0, <1>3, IntoIs
<1>6. u.setup = FALSE /\ st.setup = FALSE
  BY <1>1, FieldsAre DEF Lines
<1> HIDE DEF t
<1>7. t.binding = n /\ v.owner = st.owner /\ t.kept = u.kept /\ t.setup = st.setup
  BY <1>0, <1>1, <1>4, <1>5, <1>6
<1>8. \A g \in Fields \ {"owner", "binding", "kept", "assertList"} : t[g] = st[g]
  BY <1>1, <1>4, <1>5, <1>7
<1>9. \A g \in OpenFields \ {"binding"} : t[g] = st[g]
  BY <1>0, <1>8
<1>10. \A all : Holds(st, all) /\ n \notin all => Holds(t, all \cup {n})
  BY <1>0, <1>5, <1>7, <1>9, Reopens DEF u
<1>11. QED
  BY <1>2, <1>5, <1>7, <1>8, <1>10 DEF Puts, Same

\* A field of a binding other than `setup: |` ends its list of assertions.
LEMMA BindingFieldPuts ==
    ASSUME NEW st \in Lines, NEW line \in {"action:", "body:"}, NEW n, st.binding # 0
    PROVE  /\ Puts(st, BindingLine(st, line, n), st.binding)
           /\ Same(st, BindingLine(st, line, n), {"owner", "assertList"})
           /\ \A all : Holds(st, all) => Holds(BindingLine(st, line, n), all)
<1> DEFINE v == [st EXCEPT !.assertList = FALSE]
           t == Into(v, st.binding)
<1>0. /\ "owner" \in Fields /\ "setup" \in Fields /\ "assertList" \in Flags /\ "binding" \in OpenFields
  BY DEF OpenFields, Fields, Flags
<1>1. st.setup = FALSE /\ st.binding \in Int /\ DOMAIN st = Fields
  <2>1. st.binding \in Nat /\ DOMAIN st = Fields
    BY <1>0, FieldsAre
  <2>2. st.setup = FALSE
    BY DEF Lines
  <2>3. QED
    BY <2>1, <2>2
<1>2. [st EXCEPT !.assertList = FALSE, !.setup = FALSE] = v
  BY <1>0, <1>1
<1>3. BindingLine(st, line, n) = Into([st EXCEPT !.assertList = FALSE, !.setup = FALSE], st.binding)
  <2>1. line \notin {"term", "-", "- ?", "assert:", "setup:", "setup: |"} /\ line \in BindingFields
    BY DEF BindingFields
  <2>2. /\ line # "term" /\ line # "assert:" /\ ~(line \in {"-", "- ?"}) /\ line # "setup: |" /\ line # "setup:"
        /\ line \in BindingFields
    BY <2>1
  <2>3. ((line = "setup: |") \/ (st.setup /\ line # "setup:")) = FALSE
    BY <1>1, <2>2
  <2> HIDE DEF BindingFields
  <2>4. QED
    BY <2>2, <2>3 DEF BindingLine, Nowhere
<1>4. PICK f \in Flags : f = "assertList"
  BY <1>0
<1>5. PICK b \in BOOLEAN : b = FALSE
  OBVIOUS
<1> DEFINE w == Into([st EXCEPT ![f] = b], st.binding)
<1>6. BindingLine(st, line, n) = w
  BY <1>2, <1>3, <1>4, <1>5
<1>7. Puts(st, w, st.binding) /\ Same(st, w, {"owner", f}) /\ \A all : Holds(st, all) => Holds(w, all)
  BY <1>1, FlagPuts
<1> HIDE DEF w
<1>8. QED
  BY <1>4, <1>6, <1>7

LEMMA InherentPuts ==
    ASSUME NEW st \in Lines, NEW n
    PROVE  /\ Puts(st, ComponentLine(st, "Inherent Behavior:", n), st.component)
           /\ ComponentLine(st, "Inherent Behavior:", n).inherent = (TRUE)
           /\ Same(st, ComponentLine(st, "Inherent Behavior:", n), {"owner", "inherent"})
           /\ \A all : Holds(st, all) => Holds(ComponentLine(st, "Inherent Behavior:", n), all)
<1>1. "inherent" \in Flags /\ "component" \in OpenFields
  BY DEF Flags, OpenFields
<1>2. PICK s \in Int : s = st.component
  <2>1. st.component \in Nat
    BY <1>1, FieldsAre
  <2>2. QED
    BY <2>1
<1>3. PICK f \in Flags : f = "inherent"
  BY <1>1
<1>4. PICK b \in BOOLEAN : b = (TRUE)
  BY <1>1, FieldsAre
<1> DEFINE w == Into([st EXCEPT ![f] = b], s)
<1>5. ComponentLine(st, "Inherent Behavior:", n) = w
  BY <1>2, <1>3, <1>4 DEF ComponentLine, ScenarioFields
<1>6. Puts(st, w, s) /\ w[f] = b /\ Same(st, w, {"owner", f}) /\ \A all : Holds(st, all) => Holds(w, all)
  BY FlagPuts
<1> HIDE DEF w
<1>7. QED
  BY <1>2, <1>3, <1>4, <1>5, <1>6

LEMMA AssertPuts ==
    ASSUME NEW st \in Lines, NEW n
    PROVE  /\ Puts(st, FeatureLine(st, "assert:", n), st.test)
           /\ FeatureLine(st, "assert:", n).assertions = (TRUE)
           /\ Same(st, FeatureLine(st, "assert:", n), {"owner", "assertions"})
           /\ \A all : Holds(st, all) => Holds(FeatureLine(st, "assert:", n), all)
<1>1. "assertions" \in Flags /\ "test" \in OpenFields
  BY DEF Flags, OpenFields
<1>2. PICK s \in Int : s = st.test
  <2>1. st.test \in Nat
    BY <1>1, FieldsAre
  <2>2. QED
    BY <2>1
<1>3. PICK f \in Flags : f = "assertions"
  BY <1>1
<1>4. PICK b \in BOOLEAN : b = (TRUE)
  BY <1>1, FieldsAre
<1> DEFINE w == Into([st EXCEPT ![f] = b], s)
<1>5. FeatureLine(st, "assert:", n) = w
  BY <1>2, <1>3, <1>4 DEF FeatureLine, ScenarioFields
<1>6. Puts(st, w, s) /\ w[f] = b /\ Same(st, w, {"owner", f}) /\ \A all : Holds(st, all) => Holds(w, all)
  BY FlagPuts
<1> HIDE DEF w
<1>7. QED
  BY <1>2, <1>3, <1>4, <1>5, <1>6

LEMMA AssertListPuts ==
    ASSUME NEW st \in Lines, NEW n, st.binding # 0
    PROVE  /\ Puts(st, BindingLine(st, "assert:", n), st.binding)
           /\ BindingLine(st, "assert:", n).assertList = (TRUE)
           /\ Same(st, BindingLine(st, "assert:", n), {"owner", "assertList"})
           /\ \A all : Holds(st, all) => Holds(BindingLine(st, "assert:", n), all)
<1>1. "assertList" \in Flags /\ "binding" \in OpenFields
  BY DEF Flags, OpenFields
<1>2. PICK s \in Int : s = st.binding
  <2>1. st.binding \in Nat
    BY <1>1, FieldsAre
  <2>2. QED
    BY <2>1
<1>3. PICK f \in Flags : f = "assertList"
  BY <1>1
<1>4. PICK b \in BOOLEAN : b = (TRUE)
  BY <1>1, FieldsAre
<1> DEFINE w == Into([st EXCEPT ![f] = b], s)
<1>5. BindingLine(st, "assert:", n) = w
  BY <1>2, <1>3, <1>4 DEF BindingLine, BindingFields, Nowhere
<1>6. Puts(st, w, s) /\ w[f] = b /\ Same(st, w, {"owner", f}) /\ \A all : Holds(st, all) => Holds(w, all)
  BY FlagPuts
<1> HIDE DEF w
<1>7. QED
  BY <1>2, <1>3, <1>4, <1>5, <1>6

LEMMA InvariantLinePuts ==
    ASSUME NEW st \in Lines, NEW line
    PROVE  /\ Puts(st, InvariantLine(st, line), st.invariant)
           /\ InvariantLine(st, line).invariantAssertions = (st.invariantAssertions \/ line = "Assertions:")
           /\ Same(st, InvariantLine(st, line), {"owner", "invariantAssertions"})
           /\ \A all : Holds(st, all) => Holds(InvariantLine(st, line), all)
<1>1. "invariantAssertions" \in Flags /\ "invariant" \in OpenFields
  BY DEF Flags, OpenFields
<1>2. PICK s \in Int : s = st.invariant
  <2>1. st.invariant \in Nat
    BY <1>1, FieldsAre
  <2>2. QED
    BY <2>1
<1>3. PICK f \in Flags : f = "invariantAssertions"
  BY <1>1
<1>4. PICK b \in BOOLEAN : b = (st.invariantAssertions \/ line = "Assertions:")
  BY <1>1, FieldsAre
<1> DEFINE w == Into([st EXCEPT ![f] = b], s)
<1>5. InvariantLine(st, line) = w
  BY <1>2, <1>3, <1>4 DEF InvariantLine
<1>6. Puts(st, w, s) /\ w[f] = b /\ Same(st, w, {"owner", f}) /\ \A all : Holds(st, all) => Holds(w, all)
  BY FlagPuts
<1> HIDE DEF w
<1>7. QED
  BY <1>2, <1>3, <1>4, <1>5, <1>6

LEMMA DataLinePuts ==
    ASSUME NEW st \in Lines, NEW line
    PROVE  /\ Puts(st, DataLine(st, line), st.data)
           /\ DataLine(st, line).columns = (st.columns \/ line = "row")
           /\ Same(st, DataLine(st, line), {"owner", "columns"})
           /\ \A all : Holds(st, all) => Holds(DataLine(st, line), all)
<1>1. "columns" \in Flags /\ "data" \in OpenFields
  BY DEF Flags, OpenFields
<1>2. PICK s \in Int : s = st.data
  <2>1. st.data \in Nat
    BY <1>1, FieldsAre
  <2>2. QED
    BY <2>1
<1>3. PICK f \in Flags : f = "columns"
  BY <1>1
<1>4. PICK b \in BOOLEAN : b = (st.columns \/ line = "row")
  BY <1>1, FieldsAre
<1> DEFINE w == Into([st EXCEPT ![f] = b], s)
<1>5. DataLine(st, line) = w
  BY <1>2, <1>3, <1>4 DEF DataLine
<1>6. Puts(st, w, s) /\ w[f] = b /\ Same(st, w, {"owner", f}) /\ \A all : Holds(st, all) => Holds(w, all)
  BY FlagPuts
<1> HIDE DEF w
<1>7. QED
  BY <1>2, <1>3, <1>4, <1>5, <1>6

LEMMA BindingsHeaderPuts ==
    ASSUME NEW st \in Lines, NEW n \in Nat
    PROVE  /\ Puts(st, BindingsHeader(st, n), n)
           /\ BindingsHeader(st, n).bindings = TRUE
           /\ Same(st, BindingsHeader(st, n), {"owner", "bindings"})
           /\ \A all : Holds(st, all) => Holds(BindingsHeader(st, n), all)
<1>1. "bindings" \in Flags /\ n \in Int
  BY DEF Flags
<1>2. PICK f \in Flags : f = "bindings"
  BY <1>1
<1>3. PICK b \in BOOLEAN : b = TRUE
  OBVIOUS
<1> DEFINE w == Into([st EXCEPT ![f] = b], n)
<1>4. BindingsHeader(st, n) = w
  BY <1>2, <1>3 DEF BindingsHeader
<1>5. Puts(st, w, n) /\ w[f] = b /\ Same(st, w, {"owner", f}) /\ \A all : Holds(st, all) => Holds(w, all)
  BY <1>1, FlagPuts
<1> HIDE DEF w
<1>6. QED
  BY <1>2, <1>3, <1>4, <1>5

LEMMA GlossaryHeaderPuts ==
    ASSUME NEW st \in Lines, NEW n \in Nat
    PROVE  /\ Puts(st, GlossaryHeader(st, n), n)
           /\ GlossaryHeader(st, n).glossary = TRUE
           /\ GlossaryHeader(st, n).bindings = FALSE
           /\ Same(st, GlossaryHeader(st, n), {"owner", "glossary", "bindings"})
           /\ \A all : Holds(st, all) => Holds(GlossaryHeader(st, n), all)
<1> DEFINE v == [st EXCEPT !.glossary = TRUE, !.bindings = FALSE]
           t == Into(v, n)
<1>1. /\ n \in Int /\ OpenFields \subseteq Fields /\ {"kept", "owner", "glossary", "bindings"} \subseteq Fields
      /\ OpenFields \cap {"kept", "owner", "glossary", "bindings"} = {}
  BY DEF Flags, Fields, OpenFields
<1>2. GlossaryHeader(st, n) = t
  BY DEF GlossaryHeader
<1>3. v \in Lines
  BY DEF Lines
<1>4. v.glossary = TRUE /\ v.bindings = FALSE /\ \A g \in Fields \ {"glossary", "bindings"} : v[g] = st[g]
  BY <1>1, FieldsAre
<1> HIDE DEF v
<1>5. t \in Lines /\ t.owner = Append(v.owner, n) /\ \A g \in Fields \ {"owner"} : t[g] = v[g]
  BY <1>1, <1>3, IntoIs
<1> HIDE DEF t
<1>6. v.owner = st.owner /\ t.glossary = TRUE /\ t.bindings = FALSE
  BY <1>1, <1>4, <1>5
<1>7. \A g \in Fields \ {"owner", "glossary", "bindings"} : t[g] = st[g]
  BY <1>4, <1>5
<1>8. t.kept = st.kept /\ \A g \in OpenFields : t[g] = st[g]
  BY <1>1, <1>7
<1>9. \A all : Holds(st, all) => Holds(t, all)
  BY <1>8, HoldsStill
<1>10. QED
  BY <1>2, <1>5, <1>6, <1>7, <1>9 DEF Puts, Same

\* `---` ends a component, tests, scenarios and bindings; the rest stays open.
LEMMA SeparatorPuts ==
    ASSUME NEW st \in Lines
    PROVE  /\ Puts(st, Separator(st), 0)
           /\ \A f \in {"component", "scenario", "test", "binding"} : Separator(st)[f] = 0
           /\ Separator(st).glossary = FALSE /\ Separator(st).bindings = FALSE
           /\ \A f \in {"feature", "invariant", "data", "invariantAssertions"} : Separator(st)[f] = st[f]
           /\ \A all : Holds(st, all) /\ Nested(st) => Holds(Separator(st), all)
<1> DEFINE i == IF st.feature = 0 THEN st ELSE Save(Save(st, "test"), "scenario")
           c == SaveComponent(i)
           u == Save(c, "binding")
           v == [u EXCEPT !.scenario = 0, !.test = 0, !.glossary = FALSE,
                          !.inherent = FALSE, !.bindings = FALSE, !.assertList = FALSE]
           t == Into(v, 0)
<1>0. /\ {"test", "scenario", "binding"} \subseteq OpenFields /\ OpenFields \subseteq Fields
      /\ "kept" \notin OpenFields /\ "owner" \notin OpenFields
  BY DEF OpenFields, Fields
<1>1. /\ i \in Lines
      /\ st.feature # 0 => i.test = 0 /\ i.scenario = 0
      /\ st.feature = 0 => i.test = st.test /\ i.scenario = st.scenario
      /\ \A f \in Fields \ {"test", "scenario", "kept"} : i[f] = st[f]
      /\ \A all : Holds(st, all) => Holds(i, all)
  <2>1. CASE st.feature = 0
    BY <2>1
  <2>2. CASE st.feature # 0
    <3> DEFINE a == Save(st, "test")
               b == Save(a, "scenario")
    <3>1. /\ a \in Lines /\ a.test = 0 /\ \A f \in Fields \ {"test", "kept"} : a[f] = st[f]
          /\ \A all : Holds(st, all) => Holds(a, all)
      BY <1>0, SaveIs, HoldsSave
    <3> HIDE DEF a
    <3>2. /\ b \in Lines /\ b.scenario = 0 /\ \A f \in Fields \ {"scenario", "kept"} : b[f] = a[f]
          /\ \A all : Holds(a, all) => Holds(b, all)
      BY <1>0, <3>1, SaveIs, HoldsSave
    <3>3. i = b
      BY <2>2 DEF a
    <3> HIDE DEF b, i
    <3>4. b.test = 0
      BY <1>0, <3>1, <3>2
    <3>5. QED
      BY <2>2, <3>1, <3>2, <3>3, <3>4
  <2>3. QED
    BY <2>1, <2>2
<1> HIDE DEF i
<1>2. /\ c \in Lines /\ c.component = 0
      /\ c.scenario = IF i.component = 0 THEN i.scenario ELSE 0
      /\ \A f \in Fields \ {"component", "scenario", "kept"} : c[f] = i[f]
      /\ \A all : Holds(i, all) => Holds(c, all)
  BY <1>1, SaveComponentIs
<1> HIDE DEF c
<1>3. /\ u \in Lines /\ u.binding = 0
      /\ \A f \in Fields \ {"binding", "kept"} : u[f] = c[f]
      /\ \A all : Holds(c, all) => Holds(u, all)
  BY <1>0, <1>2, SaveIs, HoldsSave
<1> HIDE DEF u
<1>4. v \in Lines
  BY <1>3 DEF Lines
<1>5. /\ v.scenario = 0 /\ v.test = 0 /\ v.glossary = FALSE /\ v.bindings = FALSE /\ v.component = 0 /\ v.binding = 0
      /\ \A f \in {"feature", "invariant", "data", "invariantAssertions", "owner"} : v[f] = st[f]
      /\ v.kept = u.kept /\ \A f \in OpenFields \ {"scenario", "test"} : v[f] = u[f]
  BY <1>1, <1>2, <1>3, FieldsAre DEF Fields, OpenFields, Flags
<1>6. Separator(st) = t
  BY DEF Separator, Dropped, SaveBinding, Nowhere, t, v, u, c, i
<1> HIDE DEF v
<1>7. t \in Lines /\ t.owner = Append(v.owner, 0) /\ \A f \in Fields \ {"owner"} : t[f] = v[f]
  <2>1. PICK z \in Int : z = 0
    OBVIOUS
  <2>2. /\ Into(v, z) \in Lines /\ Into(v, z).owner = Append(v.owner, z)
        /\ \A f \in Fields \ {"owner"} : Into(v, z)[f] = v[f]
    BY <1>4, IntoIs
  <2>3. QED
    BY <2>1, <2>2
<1> HIDE DEF t
<1>8. ASSUME NEW all, Holds(st, all), Nested(st)
      PROVE  Holds(t, all)
  <2>1. u.scenario = 0 /\ u.test = 0
    BY <1>1, <1>2, <1>3, <1>8 DEF Nested, Fields, OpenFields
  <2>2. t.kept = u.kept /\ \A f \in OpenFields : t[f] = u[f]
    BY <1>5, <1>7, <2>1 DEF Fields, OpenFields
  <2>3. Holds(u, all)
    BY <1>1, <1>2, <1>3, <1>8
  <2>4. QED
    BY <2>2, <2>3, HoldsStill
<1>9. QED
  BY <1>5, <1>6, <1>7, <1>8 DEF Puts, Fields, OpenFields, Flags

-----------------------------------------------------------------------------
(* Any line is put somewhere, once, whatever was read before.              *)
LEMMA SomewhereInto ==
    ASSUME NEW st \in Lines, NEW f \in OpenFields
    PROVE  \E s \in Int : Puts(st, Into(st, st[f]), s)
<1>1. PICK s \in Int : s = st[f]
  <2>1. st[f] \in Nat
    BY FieldsAre
  <2>2. QED
    BY <2>1
<1>2. Puts(st, Into(st, s), s)
  BY IntoPuts
<1>3. QED
  BY <1>1, <1>2

LEMMA SomewhereDropped ==
    ASSUME NEW st \in Lines
    PROVE  Puts(st, Dropped(st), 0) /\ Same(st, Dropped(st), {"owner"})
           /\ \A all : Holds(st, all) => Holds(Dropped(st), all)
<1>1. PICK s \in Int : s = 0
  OBVIOUS
<1>2. Puts(st, Into(st, s), s) /\ Same(st, Into(st, s), {"owner"}) /\ \A all : Holds(st, all) => Holds(Into(st, s), all)
  BY IntoPuts
<1>3. QED
  BY <1>1, <1>2 DEF Dropped, Nowhere

LEMMA BindingLineSomewhere ==
    ASSUME NEW st \in Lines, NEW x \in Writable, NEW n \in Nat, n # 0
    PROVE  \E s \in Int : Puts(st, BindingLine(st, x, n), s)
<1>0. n \in Int /\ 0 \in Int /\ "binding" \in OpenFields /\ st.binding \in Int
  <2>1. "binding" \in OpenFields
    BY DEF OpenFields
  <2>2. st.binding \in Nat
    BY <2>1, FieldsAre
  <2>3. QED
    BY <2>1, <2>2
<1>1. \E s \in Int : Puts(st, Dropped(st), s)
  BY <1>0, SomewhereDropped
<1>2. \E s \in Int : Puts(st, Into(st, st.binding), s)
  BY <1>0, SomewhereInto
<1>3. CASE x = "term"
  BY <1>0, <1>3, TermPuts
<1>4. CASE x # "term" /\ st.binding = 0
  <2>1. BindingLine(st, x, n) = Dropped(st)
    BY <1>4 DEF BindingLine, BindingFields, Nowhere
  <2>2. QED
    BY <1>1, <2>1
<1>5. CASE st.binding # 0 /\ x = "assert:"
  <2>1. Puts(st, BindingLine(st, "assert:", n), st.binding)
    BY <1>5, AssertListPuts
  <2>2. QED
    BY <1>0, <1>5, <2>1
<1>6. CASE st.binding # 0 /\ x \in {"action:", "body:"}
  <2>1. Puts(st, BindingLine(st, x, n), st.binding)
    BY <1>6, BindingFieldPuts
  <2>2. QED
    BY <1>0, <2>1
<1>7. CASE st.binding # 0 /\ x \notin {"term", "assert:", "action:", "body:"}
  <2>1. x \notin BindingFields
    BY <1>7 DEF BindingFields, Writable, Heads, Parts, Inner
  <2>2. st.setup = FALSE
    BY DEF Lines
  <2>3. BindingLine(st, x, n) = Into(st, st.binding) \/ BindingLine(st, x, n) = Dropped(st)
    BY <1>7, <2>1, <2>2 DEF BindingLine, Nowhere
  <2>4. QED
    BY <1>1, <1>2, <2>3
<1>8. QED
  BY <1>3, <1>4, <1>5, <1>6, <1>7

LEMMA ComponentLineSomewhere ==
    ASSUME NEW st \in Lines, NEW x \in Writable, NEW n \in Nat, n # 0
    PROVE  \E s \in Int : Puts(st, ComponentLine(st, x, n), s)
<1>0. n \in Int /\ 0 \in Int /\ {"component", "scenario"} \subseteq OpenFields
  BY DEF OpenFields
<1>1. CASE x = "Scenario:"
  BY <1>0, <1>1, ScenarioOfComponentPuts
<1>2. CASE x = "Inherent Behavior:"
  <2>1. st.component \in Int
    BY <1>0, FieldsAre
  <2>2. Puts(st, ComponentLine(st, "Inherent Behavior:", n), st.component)
    BY InherentPuts
  <2>3. QED
    BY <1>2, <2>1, <2>2
<1>3. CASE x \notin {"Scenario:", "Inherent Behavior:"}
  <2>1. \/ ComponentLine(st, x, n) = Into(st, st.component)
        \/ ComponentLine(st, x, n) = Into(st, st.scenario)
        \/ ComponentLine(st, x, n) = Dropped(st)
    BY <1>3 DEF ComponentLine, ScenarioFields, Nowhere
  <2>2. \E s \in Int : Puts(st, Dropped(st), s)
    BY <1>0, SomewhereDropped
  <2>3. (\E s \in Int : Puts(st, Into(st, st.component), s)) /\ (\E s \in Int : Puts(st, Into(st, st.scenario), s))
    BY <1>0, SomewhereInto
  <2>4. QED
    BY <2>1, <2>2, <2>3
<1>4. QED
  BY <1>1, <1>2, <1>3

LEMMA FeatureLineSomewhere ==
    ASSUME NEW st \in Lines, NEW x \in Writable, NEW n \in Nat, n # 0
    PROVE  \E s \in Int : Puts(st, FeatureLine(st, x, n), s)
<1>0. n \in Int /\ 0 \in Int /\ {"feature", "scenario", "test"} \subseteq OpenFields /\ x # "test:"
  <2>1. x # "test:"
    BY DEF Writable, Heads, Parts, Inner
  <2>2. {"feature", "scenario", "test"} \subseteq OpenFields
    BY DEF OpenFields
  <2>3. QED
    BY <2>1, <2>2
<1>1. CASE x = "Scenario:"
  BY <1>0, <1>1, ScenarioOfFeaturePuts
<1>2. CASE x = "- request:"
  BY <1>0, <1>2, RequestPuts
<1>3. CASE x = "assert:"
  <2>1. st.test \in Int
    BY <1>0, FieldsAre
  <2>2. Puts(st, FeatureLine(st, "assert:", n), st.test)
    BY AssertPuts
  <2>3. QED
    BY <1>3, <2>1, <2>2
<1>4. CASE x \notin {"Scenario:", "- request:", "assert:"}
  <2>1. \/ FeatureLine(st, x, n) = Into(st, st.feature)
        \/ FeatureLine(st, x, n) = Into(st, st.scenario)
        \/ FeatureLine(st, x, n) = Into(st, st.test)
        \/ FeatureLine(st, x, n) = Dropped(st)
    BY <1>0, <1>4 DEF FeatureLine, ScenarioFields, Nowhere
  <2>2. \E s \in Int : Puts(st, Dropped(st), s)
    BY <1>0, SomewhereDropped
  <2>3. /\ \E s \in Int : Puts(st, Into(st, st.feature), s)
        /\ \E s \in Int : Puts(st, Into(st, st.scenario), s)
        /\ \E s \in Int : Puts(st, Into(st, st.test), s)
    BY <1>0, SomewhereInto
  <2>4. QED
    BY <2>1, <2>2, <2>3
<1>5. QED
  BY <1>1, <1>2, <1>3, <1>4

LEMMA SectionLineSomewhere ==
    ASSUME NEW st \in Lines, NEW x \in Writable, NEW n \in Nat, n # 0
    PROVE  \E s \in Int : Puts(st, SectionLine(st, x, n), s)
<1>0. n \in Int /\ 0 \in Int /\ {"invariant", "data"} \subseteq OpenFields
  BY DEF OpenFields
<1>1. \/ SectionLine(st, x, n) \in {InvariantLine(st, x), TestData(st, n), DataLine(st, x)}
      \/ SectionLine(st, x, n) \in {ComponentLine(st, x, n), FeatureLine(st, x, n), Dropped(st)}
  BY DEF SectionLine
<1>2. st.invariant \in Int /\ st.data \in Int
  BY <1>0, FieldsAre
<1>3. \E s \in Int : Puts(st, InvariantLine(st, x), s)
  BY <1>2, InvariantLinePuts
<1>4. \E s \in Int : Puts(st, DataLine(st, x), s)
  BY <1>2, DataLinePuts
<1>5. \E s \in Int : Puts(st, TestData(st, n), s)
  BY <1>0, TestDataIs DEF Puts
<1>6. \E s \in Int : Puts(st, Dropped(st), s)
  BY <1>0, SomewhereDropped
<1>7. QED
  BY <1>1, <1>3, <1>4, <1>5, <1>6, ComponentLineSomewhere, FeatureLineSomewhere

\* What parse_content does with a line.
LEMMA ParseLineIs ==
    ASSUME NEW st \in Lines, NEW x \in Writable, NEW n, n = Len(st.owner) + 1
    PROVE  /\ n \in Nat /\ n # 0
           /\ x = "---" => ParseLine(st, x) = Separator(st)
           /\ x = "## Glossary" => ParseLine(st, x) = GlossaryHeader(st, n)
           /\ x = "## Glossary [Technical Bindings]" => ParseLine(st, x) = BindingsHeader(st, n)
           /\ x = "row" /\ st.glossary => ParseLine(st, x) = Into(st, Glossary)
           /\ x \notin {"---", "## Glossary", "## Glossary [Technical Bindings]"} /\ ~(x = "row" /\ st.glossary) =>
                /\ st.bindings => ParseLine(st, x) = BindingLine(st, x, n)
                /\ ~st.bindings =>
                     /\ x = "Feature:" => ParseLine(st, x) = Feature(st, n)
                     /\ x = "Component:" => ParseLine(st, x) = Component(st, n)
                     /\ x = "Invariant:" => ParseLine(st, x) = Invariant(st, n)
                     /\ x \notin {"Feature:", "Component:", "Invariant:"} => ParseLine(st, x) = SectionLine(st, x, n)
<1>1. ~st.expecting /\ st.owner \in Seq(Int)
  BY FieldsAre
<1>2. n \in Nat /\ n # 0
  <2>1. Len(st.owner) \in Nat
    BY <1>1
  <2>2. QED
    BY <2>1
<1>3. x # "## Title"
  BY DEF Writable, Heads, Parts, Inner
<1>4. QED
  BY <1>1, <1>2, <1>3 DEF ParseLine

LEMMA LineSomewhere ==
    ASSUME NEW st \in Lines, NEW x \in Writable
    PROVE  \E s \in Int : Puts(st, ParseLine(st, x), s)
<1>1. PICK n : n = Len(st.owner) + 1
  OBVIOUS
<1>2. n \in Nat /\ n # 0 /\ n \in Int /\ 0 \in Int /\ Glossary \in Int
  <2>1. n \in Nat /\ n # 0
    BY <1>1, ParseLineIs
  <2>2. QED
    BY <2>1 DEF Glossary
<1>3. \/ ParseLine(st, x) \in {Separator(st), GlossaryHeader(st, n), BindingsHeader(st, n), Into(st, Glossary)}
      \/ ParseLine(st, x) \in {BindingLine(st, x, n), SectionLine(st, x, n)}
      \/ ParseLine(st, x) \in {Feature(st, n), Component(st, n), Invariant(st, n)}
  BY <1>1, ParseLineIs
<1>4. \E s \in Int : Puts(st, Into(st, Glossary), s)
  BY <1>2, IntoPuts
<1>5. /\ \E s \in Int : Puts(st, Separator(st), s)
      /\ \E s \in Int : Puts(st, GlossaryHeader(st, n), s)
      /\ \E s \in Int : Puts(st, BindingsHeader(st, n), s)
  BY <1>2, SeparatorPuts, GlossaryHeaderPuts, BindingsHeaderPuts
<1>6. /\ \E s \in Int : Puts(st, Feature(st, n), s)
      /\ \E s \in Int : Puts(st, Component(st, n), s)
      /\ \E s \in Int : Puts(st, Invariant(st, n), s)
  <2>1. Puts(st, Feature(st, n), n)
    BY <1>2, FeatureIs DEF Puts
  <2>2. Puts(st, Component(st, n), n)
    BY <1>2, ComponentIs DEF Puts
  <2>3. Puts(st, Invariant(st, n), n)
    BY <1>2, InvariantIs DEF Puts
  <2>4. QED
    BY <1>2, <2>1, <2>2, <2>3
<1>7. QED
  BY <1>2, <1>3, <1>4, <1>5, <1>6, BindingLineSomewhere, SectionLineSomewhere

-----------------------------------------------------------------------------
(* What the text says of the places it has come to.                        *)
Fits(doc) ==
    /\ In(doc) = "" => PartIn(doc) = ""
    /\ In(doc) = "Feature:" => PartIn(doc) \in {"", "Scenario:", "- request:", "assert:"}
    /\ In(doc) = "Component:" => PartIn(doc) \in {"", "Inherent Behavior:", "Scenario:"}
    /\ In(doc) = "Invariant:" => PartIn(doc) \in {"", "Assertions:"}
    /\ In(doc) \in {"Test Data:", "## Glossary"} => PartIn(doc) = ""
    /\ In(doc) = "## Glossary [Technical Bindings]" => PartIn(doc) \in {"", "term", "assert:"}
    /\ In(doc) \in {"Invariant:", "Test Data:", "Component:"} => OpenAt(doc) = At(doc)
    /\ PartIn(doc) = "Scenario:" => Of(doc) = PartAt(doc) /\ Scenario(doc) = PartAt(doc)
    /\ PartIn(doc) = "" => Scenario(doc) <= At(doc)
    /\ PartIn(doc) \in {"- request:", "term", "assert:"} => Of(doc) # 0
    /\ PartIn(doc) = "Assertions:" => Assertion(doc) > At(doc)

\* The lines `Written` allows, by where the text has come to.
Closed(doc) == KindAt(doc, Len(doc)) = "---"
Allowed(doc, x) ==
    \/ x \in Heads
    \/ x = "---"
    \/ ~Closed(doc) /\ In(doc) = "Feature:" /\ x \in {"id:", "Scenario:", "- request:"}
    \/ ~Closed(doc) /\ In(doc) = "Feature:" /\ PartIn(doc) = "" /\ x = "description:"
    \/ ~Closed(doc) /\ In(doc) = "Feature:" /\ PartIn(doc) = "Scenario:" /\ x \in {"When", "->"}
    \/ ~Closed(doc) /\ In(doc) = "Feature:" /\ PartIn(doc) = "- request:" /\ x \in {"body:", "assert:"}
    \/ ~Closed(doc) /\ In(doc) = "Feature:" /\ PartIn(doc) = "assert:" /\ x \in {"-", "- ?", "body:"}
    \/ ~Closed(doc) /\ In(doc) = "Component:" /\ x \in {"parameters:", "Inherent Behavior:", "Scenario:"}
    \/ ~Closed(doc) /\ In(doc) = "Component:" /\ PartIn(doc) # "" /\ x = "->"
    \/ ~Closed(doc) /\ In(doc) = "Invariant:" /\ x \in {"id:", "Assertions:"}
    \/ ~Closed(doc) /\ In(doc) = "Invariant:" /\ PartIn(doc) # "" /\ x \in {"->", "-"}
    \/ ~Closed(doc) /\ In(doc) = "Test Data:" /\ x \in {"id:", "for:", "row", "row ---"}
    \/ ~Closed(doc) /\ In(doc) = "## Glossary" /\ x = "row"
    \/ ~Closed(doc) /\ In(doc) = "## Glossary [Technical Bindings]" /\ x = "term"
    \/ ~Closed(doc) /\ In(doc) = "## Glossary [Technical Bindings]" /\ PartIn(doc) = "term" /\ x \in {"action:", "assert:"}
    \/ ~Closed(doc) /\ In(doc) = "## Glossary [Technical Bindings]" /\ PartIn(doc) = "assert:" /\ x \in {"-", "- ?"}

LEMMA WrittenAllowed ==
    ASSUME NEW doc, Fits(doc), NEW x \in Written(doc)
    PROVE  Allowed(doc, x) /\ x \in Writable
<1>1. \/ x \in Heads
      \/ x = "---"
      \/ ~Closed(doc) /\ x \in Within(In(doc), PartIn(doc))
  BY DEF Written, Closed, In, PartIn, At, PartAt
<1>2. CASE x \in Heads
  BY <1>2 DEF Allowed, Writable
<1>3. CASE x = "---"
  BY <1>3 DEF Allowed, Writable
<1>4. CASE ~Closed(doc) /\ x \in Within(In(doc), PartIn(doc))
  <2>1. CASE In(doc) = "Feature:"
    <3>1. Within(In(doc), PartIn(doc)) = {"id:", "Scenario:", "- request:"} \cup
            (CASE PartIn(doc) = "" -> {"description:"} [] PartIn(doc) = "Scenario:" -> {"When", "->"}
               [] PartIn(doc) = "- request:" -> {"body:", "assert:"} [] PartIn(doc) = "assert:" -> {"-", "- ?", "body:"})
      BY <2>1 DEF Within
    <3>2. CASE PartIn(doc) = ""
      BY <1>4, <2>1, <3>1, <3>2 DEF Allowed, Writable, Parts, Inner
    <3>3. CASE PartIn(doc) = "Scenario:"
      BY <1>4, <2>1, <3>1, <3>3 DEF Allowed, Writable, Parts, Inner
    <3>4. CASE PartIn(doc) = "- request:"
      BY <1>4, <2>1, <3>1, <3>4 DEF Allowed, Writable, Parts, Inner
    <3>5. CASE PartIn(doc) = "assert:"
      BY <1>4, <2>1, <3>1, <3>5 DEF Allowed, Writable, Parts, Inner
    <3>6. QED
      BY <2>1, <3>2, <3>3, <3>4, <3>5 DEF Fits
  <2>2. CASE In(doc) = "Component:"
    BY <1>4, <2>2 DEF Within, Allowed, Writable, Parts, Inner
  <2>3. CASE In(doc) = "Invariant:"
    BY <1>4, <2>3 DEF Within, Allowed, Writable, Parts, Inner
  <2>4. CASE In(doc) \in {"Test Data:", "## Glossary"}
    BY <1>4, <2>4 DEF Within, Allowed, Writable, Inner
  <2>5. CASE In(doc) = "## Glossary [Technical Bindings]"
    <3>1. Within(In(doc), PartIn(doc)) = {"term"} \cup
            (CASE PartIn(doc) = "" -> {} [] PartIn(doc) = "term" -> {"action:", "assert:"}
               [] PartIn(doc) = "assert:" -> {"-", "- ?"})
      BY <2>5 DEF Within
    <3>2. CASE PartIn(doc) = ""
      BY <1>4, <2>5, <3>1, <3>2 DEF Allowed, Writable, Parts
    <3>3. CASE PartIn(doc) = "term"
      BY <1>4, <2>5, <3>1, <3>3 DEF Allowed, Writable, Parts, Inner
    <3>4. CASE PartIn(doc) = "assert:"
      <4>1. x \in {"term", "-", "- ?"}
        BY <1>4, <3>1, <3>4
      <4>2. QED
        BY <1>4, <2>5, <3>4, <4>1 DEF Allowed, Writable, Parts, Inner
    <3>5. QED
      BY <2>5, <3>2, <3>3, <3>4 DEF Fits
  <2>6. CASE In(doc) \notin Heads
    BY <1>4, <2>6 DEF Within, Heads
  <2>7. QED
    BY <2>1, <2>2, <2>3, <2>4, <2>5, <2>6 DEF Heads
<1>5. QED
  BY <1>1, <1>2, <1>3, <1>4

\* It goes on saying so.
LEMMA FitsOn ==
    ASSUME NEW doc, NEW x, NEW e, OneMore(doc, x, e), Fits(doc), Allowed(doc, x)
    PROVE  Fits(e)
<1>0. Places(doc, x, e)
  BY NextPlaces
<1>1. /\ At(doc) \in Nat /\ PartAt(doc) \in Nat /\ Scenario(doc) \in Nat /\ Assertion(doc) \in Nat /\ Of(doc) \in Nat
      /\ Len(e) \in Nat /\ At(doc) < Len(e) /\ Scenario(doc) < Len(e) /\ Len(e) # 0
  <2>1. doc \in Seq(Writable) /\ Len(e) = Len(doc) + 1
    BY <1>0 DEF OneMore, Places
  <2>2. /\ At(doc) \in 0..Len(doc) /\ PartAt(doc) \in 0..Len(doc) /\ Scenario(doc) \in 0..Len(doc)
        /\ Assertion(doc) \in 0..Len(doc) /\ Of(doc) \in 0..Len(doc) /\ Len(doc) \in Nat
    BY <2>1, Positions
  <2>3. QED
    BY <2>1, <2>2
<1>2. CASE x \in Heads
  <2>0. x \notin Parts /\ x # "Scenario:"
    BY <1>2 DEF Heads, Parts
  <2>1. In(e) = x /\ PartIn(e) = "" /\ At(e) = Len(e) /\ Scenario(e) = Scenario(doc)
    BY <1>2, <2>0, <1>0 DEF Places
  <2>2. x \in {"Invariant:", "Test Data:", "Component:"} => OpenAt(e) = Len(e)
    BY <1>0 DEF Places
  <2>3. Scenario(e) <= At(e)
    <3>1. Scenario(doc) <= Len(e)
      BY <1>1
    <3>2. QED
      BY <2>1, <3>1
  <2>4. QED
    <3>1. In(e) \in {"Invariant:", "Test Data:", "Component:"} => OpenAt(e) = At(e)
      BY <2>1, <2>2
    <3>2. QED
      BY <2>1, <2>3, <3>1 DEF Fits
<1>3. CASE x \in Parts
  <2>0. x \notin Heads /\ x \notin {"Invariant:", "Test Data:", "Component:"}
    BY <1>3 DEF Parts, Heads
  <2>1. In(e) = In(doc) /\ PartIn(e) = x /\ At(e) = At(doc) /\ PartAt(e) = Len(e) /\ OpenAt(e) = OpenAt(doc)
    BY <1>3, <2>0, <1>0 DEF Places
  <2>2. x = "Scenario:" => Of(e) = Len(e) /\ Scenario(e) = Len(e)
    BY <1>0 DEF Places
  <2>3. x \in {"- request:", "term"} => Of(e) # 0
    BY <1>1, <1>0 DEF Places
  <2>4. x = "assert:" => Of(e) # 0
    <3>1. x = "assert:" => Of(e) = Of(doc)
      BY <1>0 DEF Places
    <3>2. x = "assert:" => PartIn(doc) \in {"- request:", "term"}
      BY <2>0 DEF Allowed
    <3>3. QED
      BY <3>1, <3>2 DEF Fits
  <2>5. x = "Assertions:" => Assertion(e) > At(e)
    BY <1>1, <2>1, <1>0 DEF Places
  <2>6. /\ In(e) # ""
        /\ In(e) = "Feature:" => x \in {"Scenario:", "- request:", "assert:"}
        /\ In(e) = "Component:" => x \in {"Inherent Behavior:", "Scenario:"}
        /\ In(e) = "Invariant:" => x = "Assertions:"
        /\ In(e) \notin {"Test Data:", "## Glossary"}
        /\ In(e) = "## Glossary [Technical Bindings]" => x \in {"term", "assert:"}
    BY <1>3, <2>0, <2>1 DEF Allowed, Parts
  <2>7. In(e) \in {"Invariant:", "Test Data:", "Component:"} => OpenAt(e) = At(e)
    BY <2>1 DEF Fits
  <2>8. QED
    BY <1>3, <2>1, <2>2, <2>3, <2>4, <2>5, <2>6, <2>7 DEF Fits, Parts
<1>4. CASE x \notin Heads /\ x \notin Parts
  <2>1. /\ In(e) = In(doc) /\ PartIn(e) = PartIn(doc) /\ At(e) = At(doc) /\ PartAt(e) = PartAt(doc)
    BY <1>4, <1>0 DEF Places
  <2>2. OpenAt(e) = OpenAt(doc) /\ Of(e) = Of(doc) /\ Scenario(e) = Scenario(doc) /\ Assertion(e) = Assertion(doc)
    BY <1>4, <1>0 DEF Places, Heads, Parts
  <2>3. QED
    BY <2>1, <2>2 DEF Fits
<1>5. QED
  BY <1>2, <1>3, <1>4

-----------------------------------------------------------------------------
(* What was read of a text without mislaid lines: which sections are open,  *)
(* and that these and the ones in the result are the sections of the text.  *)
All(doc) == Sections(doc) \ Lost(doc)

Outside(doc, st) ==
    /\ st.invariant = IF OpenIn(doc) = "Invariant:" THEN OpenAt(doc) ELSE 0
    /\ st.data = IF OpenIn(doc) = "Test Data:" THEN OpenAt(doc) ELSE 0
    /\ st.invariantAssertions <=> Assertion(doc) > OpenAt(doc)
    /\ st.glossary <=> RowsIn(doc) = "## Glossary"
    /\ st.bindings <=> Swallowed(doc)

InSection(doc, st) ==
    ~Closed(doc) =>
       /\ In(doc) = "Feature:" => st.feature = At(doc) /\ st.component = 0
       /\ In(doc) = "Component:" => st.component = At(doc)
       /\ In(doc) = "## Glossary" => st.glossary
       /\ st.bindings <=> In(doc) = "## Glossary [Technical Bindings]"

InPart(doc, st) ==
    ~Closed(doc) =>
       /\ In(doc) \in {"Feature:", "Component:"} => st.scenario = IF Scenario(doc) > At(doc) THEN Scenario(doc) ELSE 0
       /\ In(doc) = "Feature:" /\ PartIn(doc) \in {"- request:", "assert:"} =>
            st.test = Of(doc) /\ (st.assertions <=> PartIn(doc) = "assert:")
       /\ In(doc) = "Component:" /\ PartIn(doc) = "Inherent Behavior:" => st.inherent
       /\ In(doc) = "## Glossary [Technical Bindings]" /\ PartIn(doc) \in {"term", "assert:"} => st.binding = Of(doc)
       /\ In(doc) = "## Glossary [Technical Bindings]" /\ PartIn(doc) = "assert:" => st.assertList

Keeps(doc, st) == Holds(st, All(doc)) /\ Nested(st)

Stands(doc, st) == Outside(doc, st) /\ InSection(doc, st) /\ InPart(doc, st) /\ Keeps(doc, st)

\* All lines before x were read where they are written; x is read next.
Reading(doc, st, x, e) ==
    /\ OneMore(doc, x, e) /\ st \in Lines /\ Len(st.owner) = Len(doc)
    /\ Fits(doc) /\ Allowed(doc, x) /\ Stands(doc, st)

\* x went where it is written, or is mislaid.
Lands(e, st, t) ==
    /\ \E s \in Int : Puts(st, t, s) /\ (s = WrittenIn(e, Len(e)) <=> ~Mislaid(e, Len(e)))
    /\ ~Mislaid(e, Len(e)) => Stands(e, t)

LEMMA LineAfter ==
    ASSUME NEW n \in Nat, NEW i \in 1..(n + 1), NEW c \in (i + 1)..(n + 1)
    PROVE  i \in 1..n /\ c \in 1..(n + 1) /\ (c # n + 1 => c \in (i + 1)..n /\ c \in 1..n)
OBVIOUS

LEMMA LinesAfter ==
    ASSUME NEW n \in Nat, NEW i \in 1..n
    PROVE  /\ n + 1 \in (i + 1)..(n + 1) /\ (n + 1) - 1 = n /\ i \in 1..(n + 1)
           /\ \A c \in (i + 1)..n : c \in 1..n /\ c \in (i + 1)..(n + 1) /\ c \in 1..(n + 1)
OBVIOUS

\* The sections of a text with one line more.
LEMMA AllNext ==
    ASSUME NEW doc, NEW x, NEW e, OneMore(doc, x, e)
    PROVE  /\ Len(e) \notin All(doc) /\ Len(e) # 0 /\ Len(e) \in Nat
           /\ x \notin SectionHeads => All(e) = All(doc)
           /\ x \in SectionHeads /\ x # "Component:" => All(e) = All(doc) \cup {Len(e)}
           /\ x = "Component:" =>
                All(e) = (All(doc) \ (IF OpenIn(doc) \in {"Invariant:", "Test Data:"} THEN {OpenAt(doc)} ELSE {})) \cup {Len(e)}
<1> DEFINE n == Len(doc)
<1>1. /\ n \in Nat /\ Len(e) = n + 1 /\ e[n + 1] = x /\ \A i \in 1..n : e[i] = doc[i]
      /\ DOMAIN e = 1..(n + 1) /\ DOMAIN doc = 1..n
  BY LinesBefore DEF OneMore
<1>2. \A c \in 1..(n + 1) : Unclosed(e, c - 1) = Unclosed(doc, c - 1)
  <2> TAKE c \in 1..(n + 1)
  <2>1. c - 1 \in 0..n
    BY <1>1
  <2>2. ASSUME NEW i \in 0..n, NEW kinds
        PROVE  LastOf(e, i, kinds) = LastOf(doc, i, kinds)
    BY LastOfBefore DEF OneMore
  <2>3. QED
    BY <2>1, <2>2 DEF Unclosed
<1>3. Unclosed(e, n) = OpenAt(doc)
  <2>1. n + 1 \in 1..(n + 1) /\ (n + 1) - 1 = n
    BY <1>1
  <2>2. QED
    BY <1>2, <2>1 DEF OpenAt
<1>4. OpenAt(doc) # 0 => OpenIn(doc) = doc[OpenAt(doc)]
  <2>1. doc \in Seq(Writable)
    BY DEF OneMore
  <2>2. QED
    BY <2>1, Positions
<1>5. OpenAt(doc) \in 0..n /\ (OpenAt(doc) = 0 => OpenIn(doc) = "")
  <2>1. doc \in Seq(Writable)
    BY DEF OneMore
  <2>2. QED
    BY <2>1, Positions
<1> HIDE DEF n
<1>6. Sections(e) = Sections(doc) \cup (IF x \in SectionHeads THEN {n + 1} ELSE {})
  BY <1>1 DEF Sections
<1>7. Sections(doc) \subseteq 1..n /\ n + 1 \notin 1..n
  BY <1>1 DEF Sections
<1> DEFINE dropped == IF x = "Component:" /\ OpenIn(doc) \in {"Invariant:", "Test Data:"} THEN {OpenAt(doc)} ELSE {}
<1>8. ASSUME NEW i
      PROVE  i \in Lost(e) <=> i \in Lost(doc) \/ i \in dropped
  <2>1. i \in Lost(e) <=>
          /\ i \in 1..n /\ doc[i] \in {"Invariant:", "Test Data:"}
          /\ \/ \E c \in (i + 1)..n : doc[c] = "Component:" /\ Unclosed(doc, c - 1) = i
             \/ x = "Component:" /\ OpenAt(doc) = i
    <3>1. ASSUME i \in Lost(e)
          PROVE  /\ i \in 1..n /\ doc[i] \in {"Invariant:", "Test Data:"}
                 /\ \/ \E c \in (i + 1)..n : doc[c] = "Component:" /\ Unclosed(doc, c - 1) = i
                    \/ x = "Component:" /\ OpenAt(doc) = i
      <4>1. i \in 1..(n + 1) /\ e[i] \in {"Invariant:", "Test Data:"}
        BY <1>1, <3>1 DEF Lost, Sections
      <4>2. PICK c \in (i + 1)..(n + 1) : e[c] = "Component:" /\ Unclosed(e, c - 1) = i
        BY <1>1, <3>1 DEF Lost
      <4>3. i \in 1..n /\ c \in 1..(n + 1) /\ (c # n + 1 => c \in (i + 1)..n /\ c \in 1..n)
        <5>1. n \in Nat
          BY <1>1
        <5>2. QED
          BY <4>1, <5>1, LineAfter
      <4>4. CASE c = n + 1
        <5>1. c - 1 = n
          BY <1>1, <4>4
        <5>2. QED
          BY <1>1, <1>3, <4>1, <4>2, <4>3, <4>4, <5>1
      <4>5. CASE c # n + 1
        <5>1. c \in (i + 1)..n /\ c \in 1..n
          BY <4>3, <4>5
        <5>2. QED
          BY <1>1, <1>2, <4>1, <4>2, <4>3, <5>1
      <4>6. QED
        BY <4>4, <4>5
    <3>2. ASSUME /\ i \in 1..n /\ doc[i] \in {"Invariant:", "Test Data:"}
                 /\ \/ \E c \in (i + 1)..n : doc[c] = "Component:" /\ Unclosed(doc, c - 1) = i
                    \/ x = "Component:" /\ OpenAt(doc) = i
          PROVE  i \in Lost(e)
      <4>0. /\ n + 1 \in (i + 1)..(n + 1) /\ (n + 1) - 1 = n /\ i \in 1..(n + 1)
            /\ \A c \in (i + 1)..n : c \in 1..n /\ c \in (i + 1)..(n + 1) /\ c \in 1..(n + 1)
        <5>1. n \in Nat /\ i \in 1..n
          BY <1>1, <3>2
        <5>2. QED
          BY <5>1, LinesAfter
      <4>1. i \in Sections(e) /\ e[i] \in {"Invariant:", "Test Data:"}
        <5>1. i \in DOMAIN e /\ e[i] = doc[i]
          BY <1>1, <3>2, <4>0
        <5>2. doc[i] \in SectionHeads
          BY <3>2 DEF SectionHeads
        <5>3. QED
          BY <3>2, <5>1, <5>2 DEF Sections
      <4>2. \E c \in (i + 1)..(n + 1) : e[c] = "Component:" /\ Unclosed(e, c - 1) = i
        <5>1. CASE \E c \in (i + 1)..n : doc[c] = "Component:" /\ Unclosed(doc, c - 1) = i
          <6>1. PICK c \in (i + 1)..n : doc[c] = "Component:" /\ Unclosed(doc, c - 1) = i
            BY <5>1
          <6>2. c \in 1..n /\ c \in (i + 1)..(n + 1) /\ c \in 1..(n + 1)
            BY <4>0, <6>1
          <6>3. QED
            BY <1>1, <1>2, <6>1, <6>2
        <5>2. CASE x = "Component:" /\ OpenAt(doc) = i
          <6>1. n + 1 \in (i + 1)..(n + 1) /\ (n + 1) - 1 = n
            BY <4>0
          <6>2. Unclosed(e, (n + 1) - 1) = i /\ e[n + 1] = "Component:"
            BY <1>1, <1>3, <5>2, <6>1
          <6>3. QED
            BY <6>1, <6>2
        <5>3. QED
          BY <3>2, <5>1, <5>2
      <4>3. Len(e) = n + 1
        BY <1>1
      <4>4. QED
        BY <4>1, <4>2, <4>3 DEF Lost
    <3>3. QED
      BY <3>1, <3>2
  <2>2. i \in Lost(doc) <=>
          /\ i \in 1..n /\ doc[i] \in {"Invariant:", "Test Data:"}
          /\ \E c \in (i + 1)..n : doc[c] = "Component:" /\ Unclosed(doc, c - 1) = i
    BY <1>1 DEF Lost, Sections, SectionHeads, n
  <2>3. OpenIn(doc) \in {"Invariant:", "Test Data:"} => OpenAt(doc) \in 1..n /\ doc[OpenAt(doc)] = OpenIn(doc)
    <3>1. OpenIn(doc) \in {"Invariant:", "Test Data:"} => OpenAt(doc) # 0
      BY <1>5
    <3>2. \A j \in 0..n : j # 0 => j \in 1..n
      BY <1>1
    <3>3. QED
      BY <1>4, <1>5, <3>1, <3>2
  <2>4. i \in dropped <=> x = "Component:" /\ OpenIn(doc) \in {"Invariant:", "Test Data:"} /\ OpenAt(doc) = i
    OBVIOUS
  <2>5. i \in dropped <=> /\ i \in 1..n /\ doc[i] \in {"Invariant:", "Test Data:"}
                          /\ x = "Component:" /\ OpenAt(doc) = i
    <3>1. ASSUME i \in 1..n PROVE i # 0
      BY <1>1, <3>1
    <3> HIDE DEF dropped
    <3>2. QED
      BY <1>4, <2>3, <2>4, <3>1
  <2> HIDE DEF dropped
  <2>6. QED
    BY <2>1, <2>2, <2>5
<1>9. Lost(e) = Lost(doc) \cup dropped
  BY <1>8
<1>10. All(doc) \subseteq 1..n
  BY <1>7 DEF All
<1>11. n + 1 \notin Lost(e)
  <2>1. Lost(doc) \subseteq 1..n
    BY <1>7 DEF Lost
  <2>2. dropped \subseteq 0..n
    BY <1>5
  <2>3. n + 1 \notin 0..n
    BY <1>1
  <2> HIDE DEF dropped
  <2>4. QED
    BY <1>7, <1>9, <2>1, <2>2, <2>3
<1>12. x \notin SectionHeads => x # "Component:"
  BY DEF SectionHeads
<1>13. All(e) = (All(doc) \ dropped) \cup (IF x \in SectionHeads THEN {n + 1} ELSE {})
  <2> HIDE DEF dropped
  <2>1. QED
    BY <1>6, <1>9, <1>11 DEF All
<1>14. Len(e) \notin All(doc) /\ Len(e) # 0 /\ Len(e) \in Nat
  BY <1>1, <1>7, <1>10
<1>15. QED
  BY <1>1, <1>12, <1>13, <1>14 DEF SectionHeads

LEMMA ReadingIs ==
    ASSUME NEW doc, NEW st, NEW x, NEW e, Reading(doc, st, x, e)
    PROVE  /\ Places(doc, x, e) /\ OneMore(doc, x, e) /\ doc \in Seq(Writable) /\ x \in Writable /\ st \in Lines
           /\ Len(e) = Len(st.owner) + 1 /\ Len(e) \in Nat /\ Len(e) \in Int /\ Len(e) # 0
           /\ Fits(doc) /\ Allowed(doc, x) /\ Outside(doc, st) /\ InSection(doc, st) /\ InPart(doc, st) /\ Keeps(doc, st)
           /\ At(doc) \in Nat /\ PartAt(doc) \in Nat /\ OpenAt(doc) \in Nat /\ Of(doc) \in Nat /\ Assertion(doc) \in Nat
           /\ Scenario(doc) \in Nat /\ Swallower(doc) \in Nat /\ Ended(doc) \in Nat
           /\ At(doc) < Len(e) /\ PartAt(doc) < Len(e) /\ OpenAt(doc) < Len(e) /\ Of(doc) < Len(e)
           /\ Assertion(doc) < Len(e) /\ Scenario(doc) < Len(e) /\ Swallower(doc) < Len(e) /\ Ended(doc) < Len(e)
           /\ Closed(e) <=> x = "---"
<1>1. /\ OneMore(doc, x, e) /\ doc \in Seq(Writable) /\ x \in Writable /\ st \in Lines /\ Len(st.owner) = Len(doc)
      /\ Fits(doc) /\ Allowed(doc, x) /\ Outside(doc, st) /\ InSection(doc, st) /\ InPart(doc, st) /\ Keeps(doc, st)
  BY DEF Reading, Stands, OneMore
<1>2. Places(doc, x, e)
  BY <1>1, NextPlaces
<1>3. Len(e) = Len(doc) + 1 /\ KindAt(e, Len(e)) = x
  BY <1>2 DEF Places
<1>4. /\ At(doc) \in 0..Len(doc) /\ PartAt(doc) \in 0..Len(doc) /\ OpenAt(doc) \in 0..Len(doc)
      /\ Of(doc) \in 0..Len(doc) /\ Assertion(doc) \in 0..Len(doc) /\ Scenario(doc) \in 0..Len(doc)
      /\ Swallower(doc) \in 0..Len(doc) /\ Ended(doc) \in 0..Len(doc)
      /\ Len(doc) \in Nat
  BY <1>1, Positions
<1>5. \A p \in 0..Len(doc) : p \in Nat /\ p < Len(e)
  BY <1>3, <1>4
<1>6. Len(e) \in Nat /\ Len(e) # 0 /\ Len(e) \in Int
  BY <1>3, <1>4
<1>7. Closed(e) <=> x = "---"
  BY <1>3 DEF Closed
<1>8. Len(e) = Len(st.owner) + 1
  BY <1>1, <1>3
<1>9. /\ At(doc) \in Nat /\ PartAt(doc) \in Nat /\ OpenAt(doc) \in Nat /\ Of(doc) \in Nat /\ Assertion(doc) \in Nat
      /\ Scenario(doc) \in Nat /\ Swallower(doc) \in Nat /\ Ended(doc) \in Nat
      /\ At(doc) < Len(e) /\ PartAt(doc) < Len(e) /\ OpenAt(doc) < Len(e) /\ Of(doc) < Len(e)
      /\ Assertion(doc) < Len(e) /\ Scenario(doc) < Len(e) /\ Swallower(doc) < Len(e) /\ Ended(doc) < Len(e)
  BY <1>4, <1>5
<1>10. QED
  BY <1>1, <1>2, <1>6, <1>7, <1>8, <1>9

\* What a line leaves as it was stays true.
LEMMA OutsideOn ==
    ASSUME NEW doc, NEW st, NEW x, NEW e, NEW t, Reading(doc, st, x, e),
           x \notin Heads, x # "---", x # "Assertions:",
           \A f \in {"invariant", "data", "invariantAssertions", "glossary", "bindings"} : t[f] = st[f]
    PROVE  Outside(e, t)
<1>1. Places(doc, x, e) /\ Outside(doc, st)
  BY ReadingIs
<1>2. /\ x \notin {"Invariant:", "Test Data:", "Component:"} /\ x \notin {"## Glossary", "---", "Feature:", "Component:"}
      /\ x # "## Glossary [Technical Bindings]" /\ x \notin {"---", "## Glossary"}
  BY DEF Heads
<1>3. /\ OpenIn(e) = OpenIn(doc) /\ OpenAt(e) = OpenAt(doc) /\ Assertion(e) = Assertion(doc)
      /\ RowsIn(e) = RowsIn(doc) /\ Swallower(e) = Swallower(doc) /\ Ended(e) = Ended(doc)
  BY <1>1, <1>2 DEF Places
<1>4. /\ t.invariant = st.invariant /\ t.data = st.data /\ t.invariantAssertions = st.invariantAssertions
      /\ t.glossary = st.glossary /\ t.bindings = st.bindings
  OBVIOUS
<1>5. Swallowed(e) <=> Swallowed(doc)
  BY <1>3 DEF Swallowed
<1>6. QED
  BY <1>1, <1>3, <1>4, <1>5 DEF Outside

LEMMA InSectionOn ==
    ASSUME NEW doc, NEW st, NEW x, NEW e, NEW t, Reading(doc, st, x, e),
           x \notin Heads, x # "---", ~Closed(doc),
           \A f \in {"feature", "component", "glossary", "bindings"} : t[f] = st[f]
    PROVE  InSection(e, t)
<1>1. Places(doc, x, e) /\ InSection(doc, st)
  BY ReadingIs
<1>2. In(e) = In(doc) /\ At(e) = At(doc)
  BY <1>1 DEF Places
<1>3. t.feature = st.feature /\ t.component = st.component /\ t.glossary = st.glossary /\ t.bindings = st.bindings
  OBVIOUS
<1>4. QED
  BY <1>1, <1>2, <1>3 DEF InSection

LEMMA KeepsOn ==
    ASSUME NEW doc, NEW st, NEW x, NEW e, NEW t, Reading(doc, st, x, e), x \notin SectionHeads,
           \A all : Holds(st, all) => Holds(t, all),
           \A f \in {"feature", "component", "scenario", "test"} : t[f] = st[f]
    PROVE  Keeps(e, t)
<1>1. Holds(st, All(doc)) /\ Nested(st) /\ OneMore(doc, x, e)
  BY ReadingIs DEF Keeps
<1>2. All(e) = All(doc)
  BY <1>1, AllNext
<1>3. Holds(t, All(e))
  BY <1>1, <1>2
<1>4. t.feature = st.feature /\ t.component = st.component /\ t.scenario = st.scenario /\ t.test = st.test
  OBVIOUS
<1>5. Nested(t)
  BY <1>1, <1>4 DEF Nested
<1>6. QED
  BY <1>3, <1>5 DEF Keeps

\* A line within a section or a part.
LEMMA InnerStands ==
    ASSUME NEW doc, NEW st, NEW x, NEW e, NEW t, Reading(doc, st, x, e), x \in Inner, ~Closed(doc),
           Same(st, t, {"owner", "columns", "assertList"}),
           PartIn(doc) = "assert:" => t.assertList = st.assertList,
           \A all : Holds(st, all) => Holds(t, all)
    PROVE  Stands(e, t)
<1>1. Places(doc, x, e) /\ InPart(doc, st)
  BY ReadingIs
<1>2. x \notin Heads /\ x \notin Parts /\ x # "---" /\ x # "Assertions:" /\ x \notin SectionHeads
      /\ x \notin {"Scenario:", "- request:", "term"} /\ x # "Scenario:"
  BY DEF Inner, Heads, Parts, SectionHeads
<1>3. \A f \in Fields \ {"owner", "columns", "assertList"} : t[f] = st[f]
  BY DEF Same
<1>4. /\ "feature" \in Fields /\ "component" \in Fields /\ "invariant" \in Fields /\ "data" \in Fields
      /\ "scenario" \in Fields /\ "test" \in Fields /\ "binding" \in Fields /\ "glossary" \in Fields
      /\ "bindings" \in Fields /\ "assertions" \in Fields /\ "inherent" \in Fields /\ "invariantAssertions" \in Fields
  BY DEF Fields, OpenFields, Flags
<1>5. /\ \A f \in {"invariant", "data", "invariantAssertions", "glossary", "bindings"} : t[f] = st[f]
      /\ \A f \in {"feature", "component", "glossary", "bindings"} : t[f] = st[f]
      /\ \A f \in {"feature", "component", "scenario", "test"} : t[f] = st[f]
  BY <1>3, <1>4
<1>6. Outside(e, t) /\ InSection(e, t) /\ Keeps(e, t)
  BY <1>2, <1>5, OutsideOn, InSectionOn, KeepsOn
<1>7. InPart(e, t)
  <2>1. /\ In(e) = In(doc) /\ At(e) = At(doc) /\ PartIn(e) = PartIn(doc) /\ Of(e) = Of(doc) /\ Scenario(e) = Scenario(doc)
    BY <1>1, <1>2 DEF Places
  <2>2. t.scenario = st.scenario /\ t.test = st.test /\ t.assertions = st.assertions /\ t.inherent = st.inherent
        /\ t.binding = st.binding
    BY <1>3, <1>4
  <2>3. QED
    BY <1>1, <2>1, <2>2 DEF InPart
<1>8. QED
  BY <1>6, <1>7 DEF Stands

LEMMA Numbers ==
    /\ 0 \in Int /\ Glossary \in Int /\ \A a \in Nat : a # Glossary
    /\ \E z \in Int : z = 0
    /\ \E g \in Int : g = Glossary
<1>1. 0 \in Int /\ Glossary \in Int /\ \A a \in Nat : a # Glossary
  BY DEF Glossary
<1>2. QED
  BY <1>1

LEMMA FieldNumbers ==
    ASSUME NEW st \in Lines
    PROVE  (\E s \in Int : s = st.binding) /\ (\E s \in Int : s = st.test) /\ (\E s \in Int : s = st.component)
<1>1. st.binding \in Nat /\ st.test \in Nat /\ st.component \in Nat
  BY DEF Lines
<1>2. QED
  BY <1>1

\* A line within a section, put there or mislaid.
LEMMA PutLands ==
    ASSUME NEW doc, NEW st, NEW x, NEW e, NEW t, Reading(doc, st, x, e), x \in Inner, ~Closed(doc),
           NEW s \in Int, Puts(st, t, s), s = WrittenIn(e, Len(e)) <=> ~Mislaid(e, Len(e)),
           Same(st, t, {"owner", "columns", "assertList"}),
           PartIn(doc) = "assert:" => t.assertList = st.assertList,
           \A all : Holds(st, all) => Holds(t, all)
    PROVE  Lands(e, st, t)
<1>1. Stands(e, t)
  BY InnerStands
<1>2. QED
  BY <1>1 DEF Lands

LEMMA IntoLands ==
    ASSUME NEW doc, NEW st, NEW x, NEW e, NEW t, Reading(doc, st, x, e), x \in Inner, ~Closed(doc),
           NEW s \in Int, t = Into(st, s), s = WrittenIn(e, Len(e)) <=> ~Mislaid(e, Len(e))
    PROVE  Lands(e, st, t)
<1>1. st \in Lines
  BY ReadingIs
<1>2. Puts(st, t, s) /\ Same(st, t, {"owner"}) /\ \A all : Holds(st, all) => Holds(t, all)
  BY <1>1, IntoPuts
<1>3. "assertList" \in Fields \ {"owner"}
  BY DEF Fields, Flags
<1>4. Same(st, t, {"owner", "columns", "assertList"}) /\ t.assertList = st.assertList
  BY <1>2, <1>3 DEF Same
<1>5. QED
  BY <1>2, <1>4, PutLands

\* Where an invariant or test data that is not closed takes a line.
LEMMA TakesIs ==
    ASSUME NEW doc \in Seq(Writable), NEW st, Outside(doc, st), NEW x
    PROVE  /\ InvariantTakes(st, x) <=>
                OpenIn(doc) = "Invariant:" /\ \/ x \in {"id:", "description:", "parameters:", "Assertions:"}
                                              \/ Asserting(doc) /\ x \in {"->", "-", "- ?", "- request:"}
           /\ DataTakes(st, x) <=> OpenIn(doc) = "Test Data:" /\ x \in {"id:", "for:", "scenario:", "row"}
           /\ OpenIn(doc) = "Invariant:" => st.invariant = OpenAt(doc)
           /\ OpenIn(doc) = "Test Data:" => st.data = OpenAt(doc)
           /\ OpenIn(doc) \in {"Invariant:", "Test Data:"} => OpenAt(doc) # 0
<1>1. OpenIn(doc) \in {"Invariant:", "Test Data:"} => OpenAt(doc) # 0
  BY Positions
<1>2. st.invariant # 0 <=> OpenIn(doc) = "Invariant:"
  BY <1>1 DEF Outside
<1>3. st.data # 0 <=> OpenIn(doc) = "Test Data:"
  BY <1>1 DEF Outside
<1>4. OpenIn(doc) = "Invariant:" => (st.invariantAssertions <=> Asserting(doc))
  BY DEF Outside, Asserting
<1>5. QED
  BY <1>1, <1>2, <1>3, <1>4 DEF InvariantTakes, DataTakes, Outside, Nowhere

LEMMA InvariantLineLands ==
    ASSUME NEW doc, NEW st, NEW x, NEW e, NEW t, Reading(doc, st, x, e), x \in Inner, ~Closed(doc),
           t = InvariantLine(st, x), st.invariant = WrittenIn(e, Len(e)) <=> ~Mislaid(e, Len(e))
    PROVE  Lands(e, st, t)
<1>1. st \in Lines /\ x # "Assertions:"
  BY ReadingIs DEF Inner
<1>2. /\ Puts(st, t, st.invariant) /\ t.invariantAssertions = (st.invariantAssertions \/ x = "Assertions:")
      /\ Same(st, t, {"owner", "invariantAssertions"}) /\ \A all : Holds(st, all) => Holds(t, all)
  BY <1>1, InvariantLinePuts
<1>3. "assertList" \in Fields \ {"owner", "invariantAssertions"} /\ "invariantAssertions" \in Flags /\ "invariant" \in OpenFields
  BY DEF Fields, Flags, OpenFields
<1>4. st.invariantAssertions \in BOOLEAN /\ st.invariant \in Nat
  BY <1>1, <1>3, FieldsAre
<1>5. t.invariantAssertions = st.invariantAssertions
  BY <1>1, <1>2, <1>4
<1>6. Same(st, t, {"owner", "columns", "assertList"}) /\ t.assertList = st.assertList
  BY <1>2, <1>3, <1>5 DEF Same
<1>7. PICK s \in Int : s = st.invariant
  BY <1>4
<1>8. QED
  BY <1>2, <1>6, <1>7, PutLands

LEMMA DataLineLands ==
    ASSUME NEW doc, NEW st, NEW x, NEW e, NEW t, Reading(doc, st, x, e), x \in Inner, ~Closed(doc),
           t = DataLine(st, x), st.data = WrittenIn(e, Len(e)) <=> ~Mislaid(e, Len(e))
    PROVE  Lands(e, st, t)
<1>1. st \in Lines
  BY ReadingIs
<1>2. /\ Puts(st, t, st.data)
      /\ Same(st, t, {"owner", "columns"}) /\ \A all : Holds(st, all) => Holds(t, all)
  BY <1>1, DataLinePuts
<1>3. "assertList" \in Fields \ {"owner", "columns"} /\ "data" \in OpenFields
  BY DEF Fields, Flags, OpenFields
<1>4. Same(st, t, {"owner", "columns", "assertList"}) /\ t.assertList = st.assertList
  BY <1>2, <1>3 DEF Same
<1>5. PICK s \in Int : s = st.data
  <2>1. st.data \in Nat
    BY <1>1, <1>3, FieldsAre
  <2>2. QED
    BY <2>1
<1>6. QED
  BY <1>2, <1>4, <1>5, PutLands

\* parse_content takes a line of a section to the handler of sections.
LEMMA InSectionLine ==
    ASSUME NEW doc, NEW st, NEW x, NEW e, Reading(doc, st, x, e), ~Closed(doc),
           In(doc) # "## Glossary [Technical Bindings]", In(doc) # "## Glossary",
           x \notin Heads, x # "---", x # "row"
    PROVE  ParseLine(st, x) = SectionLine(st, x, Len(e))
<1>1. st \in Lines /\ x \in Writable /\ Len(e) = Len(st.owner) + 1 /\ InSection(doc, st)
  BY ReadingIs
<1>2. ~st.bindings
  BY <1>1 DEF InSection
<1>3. x \notin {"---", "## Glossary", "## Glossary [Technical Bindings]"} /\ x \notin {"Feature:", "Component:", "Invariant:"}
  BY DEF Heads
<1>4. QED
  BY <1>1, <1>2, <1>3, ParseLineIs

-----------------------------------------------------------------------------
(* A line within a feature *)
LEMMA FeatureLineIs ==
    ASSUME NEW st \in Lines, NEW x, NEW n
    PROVE  /\ x = "id:" => FeatureLine(st, x, n) = Into(st, st.feature)
           /\ x = "description:" /\ st.scenario = 0 => FeatureLine(st, x, n) = Into(st, st.feature)
           /\ x \in {"When", "->"} /\ st.scenario # 0 => FeatureLine(st, x, n) = Into(st, st.scenario)
           /\ x = "body:" /\ ~st.assertions => FeatureLine(st, x, n) = Into(st, st.test)
           /\ x = "body:" /\ st.assertions => FeatureLine(st, x, n) = Into(st, 0)
           /\ x = "-" /\ st.assertions => FeatureLine(st, x, n) = Into(st, st.test)
           /\ x = "- ?" => FeatureLine(st, x, n) = Into(st, 0)
<1>1. st.assertions \in BOOLEAN
  BY DEF Lines
<1>2. x = "id:" => FeatureLine(st, x, n) = Into(st, st.feature)
  BY DEF FeatureLine, ScenarioFields, Nowhere
<1>3. x = "description:" /\ st.scenario = 0 => FeatureLine(st, x, n) = Into(st, st.feature)
  BY DEF FeatureLine, ScenarioFields, Nowhere
<1>4. x \in {"When", "->"} /\ st.scenario # 0 => FeatureLine(st, x, n) = Into(st, st.scenario)
  BY DEF FeatureLine, ScenarioFields, Nowhere
<1>5. x = "body:" /\ ~st.assertions => FeatureLine(st, x, n) = Into(st, st.test)
  BY <1>1 DEF FeatureLine, ScenarioFields, Nowhere
<1>6. x = "body:" /\ st.assertions => FeatureLine(st, x, n) = Into(st, 0)
  BY <1>1 DEF FeatureLine, ScenarioFields, Nowhere, Dropped
<1>7. x = "-" /\ st.assertions => FeatureLine(st, x, n) = Into(st, st.test)
  BY <1>1 DEF FeatureLine, ScenarioFields, Nowhere
<1>8. x = "- ?" => FeatureLine(st, x, n) = Into(st, 0)
  BY <1>1 DEF FeatureLine, ScenarioFields, Nowhere, Dropped
<1>9. QED
  BY <1>2, <1>3, <1>4, <1>5, <1>6, <1>7, <1>8

LEMMA FeatureInner ==
    ASSUME NEW doc, NEW st, NEW x, NEW e, Reading(doc, st, x, e), ~Closed(doc), In(doc) = "Feature:", x \in Inner
    PROVE  Lands(e, st, ParseLine(st, x))
<1> DEFINE n == Len(e)
           t == ParseLine(st, x)
<1>1. /\ doc \in Seq(Writable) /\ st \in Lines /\ n \in Nat /\ OneMore(doc, x, e) /\ Fits(doc) /\ Allowed(doc, x)
      /\ Outside(doc, st) /\ InSection(doc, st) /\ InPart(doc, st) /\ Keeps(doc, st)
      /\ Scenario(doc) \in Nat /\ At(doc) \in Nat
  BY ReadingIs
<1>2. x \notin Heads /\ x # "---" /\ x \notin Parts
  BY DEF Inner, Heads, Parts
<1>3. /\ x \in {"id:", "description:", "When", "->", "body:", "-", "- ?"}
      /\ x = "description:" => PartIn(doc) = ""
      /\ x \in {"When", "->"} => PartIn(doc) = "Scenario:"
      /\ x = "body:" => PartIn(doc) \in {"- request:", "assert:"}
      /\ x \in {"-", "- ?"} => PartIn(doc) = "assert:"
  BY <1>1, <1>2 DEF Allowed, Parts
<1>4. /\ x \in {"id:", "description:"} => WrittenIn(e, n) = At(doc)
      /\ x \in {"When", "->"} => WrittenIn(e, n) = PartAt(doc) /\ Of(doc) = PartAt(doc) /\ Scenario(doc) = PartAt(doc)
      /\ x \in {"body:", "-", "- ?"} => WrittenIn(e, n) = Of(doc)
  <2>1. /\ x = "->" => WrittenIn(e, n) = IF PartIn(doc) = "Scenario:" THEN PartAt(doc) ELSE At(doc)
        /\ x \in {"When", "body:", "-", "- ?", "action:", "assert:"} =>
             WrittenIn(e, n) = IF In(doc) = "Invariant:" THEN At(doc) ELSE Of(doc)
        /\ x \in {"id:", "description:", "parameters:", "for:", "row ---", "Assertions:", "Inherent Behavior:"} =>
             WrittenIn(e, n) = At(doc)
    BY <1>1, WrittenNext
  <2>2. x \in {"When", "->"} => Of(doc) = PartAt(doc) /\ Scenario(doc) = PartAt(doc)
    BY <1>1, <1>3 DEF Fits
  <2>3. QED
    BY <1>3, <2>1, <2>2
<1>5. Mislaid(e, n) <=>
        \/ OpenIn(doc) = "Invariant:" /\ x \in {"id:", "description:"}
        \/ Asserting(doc) /\ x \in {"->", "-", "- ?"}
        \/ OpenIn(doc) = "Test Data:" /\ x = "id:"
        \/ PartIn(doc) = "assert:" /\ x = "body:"
        \/ x = "- ?"
  <2>1. Mislaid(e, n) <=>
             \/ /\ In(doc) = "Feature:"
                /\ \/ OpenIn(doc) = "Invariant:" /\ x \in {"id:", "description:"}
                   \/ Asserting(doc) /\ x \in {"->", "-", "- ?"}
                   \/ OpenIn(doc) = "Test Data:" /\ x = "id:"
                   \/ PartIn(doc) = "assert:" /\ x = "body:"
                   \/ x = "- ?"
             \/ PartIn(doc) = "Inherent Behavior:" /\ x = "->" /\ Scenario(doc) > At(doc)
             \/ x = "row ---"
             \/ In(doc) = "Test Data:" /\ x = "row" /\ RowsIn(doc) = "## Glossary"
    BY <1>1, MislaidNext
  <2>2. QED
    BY <1>3, <2>1
<1>6. /\ InvariantTakes(st, x) <=>
           OpenIn(doc) = "Invariant:" /\ \/ x \in {"id:", "description:", "parameters:", "Assertions:"}
                                         \/ Asserting(doc) /\ x \in {"->", "-", "- ?", "- request:"}
      /\ DataTakes(st, x) <=> OpenIn(doc) = "Test Data:" /\ x \in {"id:", "for:", "scenario:", "row"}
      /\ OpenIn(doc) = "Invariant:" => st.invariant = OpenAt(doc)
      /\ OpenIn(doc) = "Test Data:" => st.data = OpenAt(doc)
      /\ OpenIn(doc) \in {"Invariant:", "Test Data:"} => OpenAt(doc) # 0
  BY <1>1, TakesIs
<1>7. /\ At(doc) # 0 /\ st.feature = At(doc) /\ st.component = 0
      /\ st.scenario = IF Scenario(doc) > At(doc) THEN Scenario(doc) ELSE 0
      /\ PartIn(doc) \in {"- request:", "assert:"} => st.test = Of(doc) /\ Of(doc) # 0 /\ (st.assertions <=> PartIn(doc) = "assert:")
  <2>1. At(doc) # 0
    BY <1>1, Positions
  <2>2. QED
    BY <1>1, <2>1 DEF InSection, InPart, Fits
<1>8. /\ x = "description:" => st.scenario = 0
      /\ x \in {"When", "->"} => st.scenario # 0 /\ st.scenario = PartAt(doc)
  <2>1. x = "description:" => Scenario(doc) <= At(doc)
    BY <1>1, <1>3 DEF Fits
  <2>2. x \in {"When", "->"} => Scenario(doc) = PartAt(doc) /\ PartAt(doc) > At(doc) /\ PartAt(doc) # 0
    <3>1. PartAt(doc) = 0 => PartIn(doc) = ""
      BY <1>1, Positions
    <3>2. PartAt(doc) # 0 => PartAt(doc) > At(doc)
      BY <1>1, Positions
    <3>3. QED
      BY <1>3, <1>4, <3>1, <3>2
  <2>3. x = "description:" => ~(Scenario(doc) > At(doc))
    BY <1>1, <2>1
  <2>4. QED
    BY <1>7, <2>2, <2>3
<1>9. OpenIn(doc) \in {"Invariant:", "Test Data:"} =>
        OpenAt(doc) # At(doc) /\ (PartIn(doc) \in {"Scenario:", "- request:", "assert:"} => OpenAt(doc) # Of(doc))
  <2>1. OpenAt(doc) # 0 => OpenIn(doc) = doc[OpenAt(doc)]
    BY <1>1, Positions
  <2>2. doc[At(doc)] = "Feature:"
    BY <1>1, <1>7, Positions
  <2>3. Of(doc) # 0 => doc[Of(doc)] \in {"Scenario:", "- request:", "term"}
    BY <1>1, Positions
  <2>4. OpenIn(doc) \in {"Invariant:", "Test Data:"} => doc[OpenAt(doc)] \in {"Invariant:", "Test Data:"}
    BY <1>6, <2>1
  <2>5. QED
    BY <1>6, <2>2, <2>3, <2>4
<1>10. t = SectionLine(st, x, n)
  <2>1. x # "row"
    BY <1>3
  <2>2. QED
    BY <1>2, <2>1, InSectionLine
<1> HIDE DEF n, t
<1>11. CASE InvariantTakes(st, x)
  <2>1. t = InvariantLine(st, x)
    BY <1>10, <1>11 DEF SectionLine
  <2>2. Mislaid(e, n) /\ st.invariant # WrittenIn(e, n)
    BY <1>3, <1>4, <1>5, <1>6, <1>9, <1>11
  <2>3. QED
    BY <2>1, <2>2, InvariantLineLands DEF n, t
<1>12. CASE ~InvariantTakes(st, x) /\ DataTakes(st, x)
  <2>1. t = DataLine(st, x)
    BY <1>3, <1>10, <1>12 DEF SectionLine
  <2>2. Mislaid(e, n) /\ st.data # WrittenIn(e, n)
    BY <1>3, <1>4, <1>5, <1>6, <1>9, <1>12
  <2>3. QED
    BY <2>1, <2>2, DataLineLands DEF n, t
<1>13. CASE ~InvariantTakes(st, x) /\ ~DataTakes(st, x)
  <2>1. t = FeatureLine(st, x, n)
    BY <1>3, <1>7, <1>10, <1>13 DEF SectionLine, Nowhere
  <2>2. \E s \in Int : t = Into(st, s) /\ (s = WrittenIn(e, n) <=> ~Mislaid(e, n))
    <3>1. ~Mislaid(e, n) <=> x # "- ?" /\ ~(PartIn(doc) = "assert:" /\ x = "body:")
      BY <1>3, <1>5, <1>6, <1>13 DEF Asserting
    <3>2. st.feature \in Int /\ st.scenario \in Int /\ st.test \in Int
      <4>1. st.feature \in Nat /\ st.scenario \in Nat /\ st.test \in Nat
        BY <1>1 DEF Lines
      <4>2. QED
        BY <4>1
    <3>3. CASE x \in {"id:", "description:"}
      <4>1. t = Into(st, st.feature)
        BY <1>1, <1>8, <2>1, <3>3, FeatureLineIs
      <4>2. QED
        BY <1>4, <1>7, <3>1, <3>2, <3>3, <4>1
    <3>4. CASE x \in {"When", "->"}
      <4>1. t = Into(st, st.scenario)
        BY <1>1, <1>8, <2>1, <3>4, FeatureLineIs
      <4>2. QED
        BY <1>4, <1>8, <3>1, <3>2, <3>4, <4>1
    <3>5. CASE x = "body:" /\ PartIn(doc) = "- request:"
      <4>1. t = Into(st, st.test)
        BY <1>1, <1>7, <2>1, <3>5, FeatureLineIs
      <4>2. QED
        BY <1>4, <1>7, <3>1, <3>2, <3>5, <4>1
    <3>6. CASE x = "body:" /\ PartIn(doc) = "assert:"
      <4>1. t = Into(st, 0)
        BY <1>1, <1>7, <2>1, <3>6, FeatureLineIs
      <4>2. QED
        BY <1>4, <1>7, <3>1, <3>6, <4>1
    <3>7. CASE x = "-"
      <4>1. t = Into(st, st.test)
        BY <1>1, <1>3, <1>7, <2>1, <3>7, FeatureLineIs
      <4>2. QED
        BY <1>3, <1>4, <1>7, <3>1, <3>2, <3>7, <4>1
    <3>8. CASE x = "- ?"
      <4>1. t = Into(st, 0)
        BY <1>1, <2>1, <3>8, FeatureLineIs
      <4>2. WrittenIn(e, n) = Of(doc) /\ Of(doc) # 0
        BY <1>3, <1>4, <1>7, <3>8
      <4>3. Mislaid(e, n)
        BY <3>1, <3>8
      <4>4. 0 \in Int
        OBVIOUS
      <4>5. QED
        BY <4>1, <4>2, <4>3, <4>4
    <3>9. QED
      BY <1>3, <3>3, <3>4, <3>5, <3>6, <3>7, <3>8
  <2>3. QED
    BY <2>2, IntoLands DEF n, t
<1>14. QED
  BY <1>11, <1>12, <1>13 DEF t

-----------------------------------------------------------------------------
(* A line within a component, an invariant or test data *)
LEMMA ComponentLineIs ==
    ASSUME NEW st \in Lines, NEW x, NEW n
    PROVE  /\ x = "parameters:" => ComponentLine(st, x, n) = Into(st, st.component)
           /\ x = "->" /\ st.scenario # 0 => ComponentLine(st, x, n) = Into(st, st.scenario)
           /\ x = "->" /\ st.scenario = 0 /\ st.inherent => ComponentLine(st, x, n) = Into(st, st.component)
BY DEF ComponentLine, ScenarioFields, Nowhere

LEMMA ComponentInner ==
    ASSUME NEW doc, NEW st, NEW x, NEW e, Reading(doc, st, x, e), ~Closed(doc), In(doc) = "Component:", x \in Inner
    PROVE  Lands(e, st, ParseLine(st, x))
<1> DEFINE n == Len(e)
           t == ParseLine(st, x)
<1>1. /\ doc \in Seq(Writable) /\ st \in Lines /\ n \in Nat /\ OneMore(doc, x, e) /\ Fits(doc) /\ Allowed(doc, x)
      /\ Outside(doc, st) /\ InSection(doc, st) /\ InPart(doc, st)
      /\ Scenario(doc) \in Nat /\ At(doc) \in Nat
  BY ReadingIs
<1>2. x \notin Heads /\ x # "---" /\ x \notin Parts
  BY DEF Inner, Heads, Parts
<1>3. x \in {"parameters:", "->"} /\ (x = "->" => PartIn(doc) \in {"Inherent Behavior:", "Scenario:"})
  BY <1>1, <1>2 DEF Allowed, Parts, Fits
<1>4. /\ x = "->" => WrittenIn(e, n) = IF PartIn(doc) = "Scenario:" THEN PartAt(doc) ELSE At(doc)
      /\ x \in {"id:", "description:", "parameters:", "for:", "row ---", "Assertions:", "Inherent Behavior:"} =>
           WrittenIn(e, n) = At(doc)
  BY <1>1, WrittenNext
<1>5. Mislaid(e, n) <=> PartIn(doc) = "Inherent Behavior:" /\ x = "->" /\ Scenario(doc) > At(doc)
  <2>1. Mislaid(e, n) <=>
             \/ /\ In(doc) = "Feature:"
                /\ \/ OpenIn(doc) = "Invariant:" /\ x \in {"id:", "description:"}
                   \/ Asserting(doc) /\ x \in {"->", "-", "- ?"}
                   \/ OpenIn(doc) = "Test Data:" /\ x = "id:"
                   \/ PartIn(doc) = "assert:" /\ x = "body:"
                   \/ x = "- ?"
             \/ PartIn(doc) = "Inherent Behavior:" /\ x = "->" /\ Scenario(doc) > At(doc)
             \/ x = "row ---"
             \/ In(doc) = "Test Data:" /\ x = "row" /\ RowsIn(doc) = "## Glossary"
    BY <1>1, MislaidNext
  <2>2. QED
    BY <1>3, <2>1
<1>6. At(doc) # 0 /\ st.component = At(doc) /\ OpenIn(doc) = "Component:"
  <2>1. At(doc) # 0 /\ In(doc) = doc[At(doc)]
    BY <1>1, Positions
  <2>2. OpenAt(doc) = At(doc)
    BY <1>1 DEF Fits
  <2>3. OpenIn(doc) = doc[OpenAt(doc)]
    BY <1>1, <2>1, <2>2, Positions
  <2>4. QED
    BY <1>1, <2>1, <2>2, <2>3 DEF InSection
<1>7. ~InvariantTakes(st, x) /\ ~DataTakes(st, x)
  BY <1>1, <1>6, TakesIs
<1>8. /\ st.scenario = IF Scenario(doc) > At(doc) THEN Scenario(doc) ELSE 0
      /\ PartIn(doc) = "Inherent Behavior:" => st.inherent
  BY <1>1 DEF InPart
<1>9. PartIn(doc) = "Scenario:" => Scenario(doc) = PartAt(doc) /\ Scenario(doc) > At(doc)
  <2>1. PartAt(doc) = 0 => PartIn(doc) = ""
    BY <1>1, Positions
  <2>2. PartAt(doc) # 0 => PartAt(doc) > At(doc)
    BY <1>1, Positions
  <2>3. QED
    BY <1>1, <2>1, <2>2 DEF Fits
<1>10. Scenario(doc) > At(doc) => Scenario(doc) # 0 /\ Scenario(doc) # At(doc)
  BY <1>1
<1>11. t = SectionLine(st, x, n)
  <2>1. x # "row"
    BY <1>3
  <2>2. QED
    BY <1>2, <2>1, InSectionLine
<1> HIDE DEF n, t
<1>12. t = ComponentLine(st, x, n)
  BY <1>3, <1>6, <1>7, <1>11 DEF SectionLine, Nowhere
<1>13. st.component \in Int /\ st.scenario \in Int
  <2>1. st.component \in Nat /\ st.scenario \in Nat
    BY <1>1 DEF Lines
  <2>2. QED
    BY <2>1
<1>14. \E s \in Int : t = Into(st, s) /\ (s = WrittenIn(e, n) <=> ~Mislaid(e, n))
  <2>1. CASE x = "parameters:"
    <3>1. t = Into(st, st.component)
      BY <1>1, <1>12, <2>1, ComponentLineIs
    <3>2. QED
      BY <1>4, <1>5, <1>6, <1>13, <2>1, <3>1
  <2>2. CASE x = "->" /\ Scenario(doc) > At(doc)
    <3>1. st.scenario = Scenario(doc) /\ st.scenario # 0
      BY <1>8, <1>10, <2>2
    <3>2. t = Into(st, st.scenario)
      BY <1>1, <1>12, <2>2, <3>1, ComponentLineIs
    <3>3. st.scenario = WrittenIn(e, n) <=> ~Mislaid(e, n)
      BY <1>3, <1>4, <1>5, <1>9, <1>10, <2>2, <3>1
    <3>4. QED
      BY <1>13, <3>2, <3>3
  <2>3. CASE x = "->" /\ ~(Scenario(doc) > At(doc))
    <3>1. st.scenario = 0 /\ PartIn(doc) = "Inherent Behavior:" /\ st.inherent
      BY <1>3, <1>8, <1>9, <2>3
    <3>2. t = Into(st, st.component)
      BY <1>1, <1>12, <2>3, <3>1, ComponentLineIs
    <3>3. st.component = WrittenIn(e, n) /\ ~Mislaid(e, n)
      BY <1>4, <1>5, <1>6, <2>3, <3>1
    <3>4. QED
      BY <1>13, <3>2, <3>3
  <2>4. QED
    BY <1>3, <2>1, <2>2, <2>3
<1>15. QED
  BY <1>14, IntoLands DEF n, t

LEMMA InvariantInner ==
    ASSUME NEW doc, NEW st, NEW x, NEW e, Reading(doc, st, x, e), ~Closed(doc), In(doc) = "Invariant:",
           x \in Inner \cup Parts
    PROVE  /\ x \in {"id:", "->", "-", "Assertions:"}
           /\ st.invariant = At(doc) /\ WrittenIn(e, Len(e)) = At(doc) /\ ~Mislaid(e, Len(e))
           /\ ParseLine(st, x) = InvariantLine(st, x)
<1> DEFINE n == Len(e)
           t == ParseLine(st, x)
<1>1. /\ doc \in Seq(Writable) /\ st \in Lines /\ n \in Nat /\ OneMore(doc, x, e) /\ Fits(doc) /\ Allowed(doc, x)
      /\ Outside(doc, st)
      /\ Assertion(doc) \in Nat /\ At(doc) \in Nat
  BY ReadingIs
<1>2. x \notin Heads /\ x # "---"
  BY DEF Inner, Heads, Parts
<1>3. x \in {"id:", "Assertions:", "->", "-"} /\ (x \in {"->", "-"} => PartIn(doc) = "Assertions:")
  BY <1>1, <1>2 DEF Allowed, Fits
<1>4. WrittenIn(e, n) = At(doc)
  <2>1. /\ x = "->" => WrittenIn(e, n) = IF PartIn(doc) = "Scenario:" THEN PartAt(doc) ELSE At(doc)
        /\ x \in {"When", "body:", "-", "- ?", "action:", "assert:"} =>
             WrittenIn(e, n) = IF In(doc) = "Invariant:" THEN At(doc) ELSE Of(doc)
        /\ x \in {"id:", "description:", "parameters:", "for:", "row ---", "Assertions:", "Inherent Behavior:"} =>
             WrittenIn(e, n) = At(doc)
    BY <1>1, WrittenNext
  <2>2. QED
    BY <1>3, <2>1
<1>5. ~Mislaid(e, n)
  <2>1. CASE x \in Inner
    <3>1. Mislaid(e, n) <=>
             \/ /\ In(doc) = "Feature:"
                /\ \/ OpenIn(doc) = "Invariant:" /\ x \in {"id:", "description:"}
                   \/ Asserting(doc) /\ x \in {"->", "-", "- ?"}
                   \/ OpenIn(doc) = "Test Data:" /\ x = "id:"
                   \/ PartIn(doc) = "assert:" /\ x = "body:"
                   \/ x = "- ?"
             \/ PartIn(doc) = "Inherent Behavior:" /\ x = "->" /\ Scenario(doc) > At(doc)
             \/ x = "row ---"
             \/ In(doc) = "Test Data:" /\ x = "row" /\ RowsIn(doc) = "## Glossary"
      BY <1>1, <2>1, MislaidNext
    <3>2. QED
      BY <1>3, <3>1
  <2>2. CASE x \notin Inner
    <3>1. x \in {"---", "## Glossary", "## Glossary [Technical Bindings]", "Scenario:", "Assertions:",
                     "Inherent Behavior:", "term", "assert:"}
      BY <1>3, <2>2 DEF Inner
    <3>2. QED
      BY <1>1, <3>1, MislaidNext
  <2>3. QED
    BY <2>1, <2>2
<1>6. At(doc) # 0 /\ OpenIn(doc) = "Invariant:" /\ OpenAt(doc) = At(doc)
  <2>1. At(doc) # 0 /\ In(doc) = doc[At(doc)]
    BY <1>1, Positions
  <2>2. OpenAt(doc) = At(doc)
    BY <1>1 DEF Fits
  <2>3. OpenIn(doc) = doc[OpenAt(doc)]
    BY <1>1, <2>1, <2>2, Positions
  <2>4. QED
    BY <2>1, <2>2, <2>3
<1>7. PartIn(doc) = "Assertions:" => Asserting(doc)
  BY <1>1, <1>6 DEF Fits, Asserting
<1>8. InvariantTakes(st, x) /\ st.invariant = At(doc)
  <2>1. InvariantTakes(st, x) <=>
           OpenIn(doc) = "Invariant:" /\ \/ x \in {"id:", "description:", "parameters:", "Assertions:"}
                                         \/ Asserting(doc) /\ x \in {"->", "-", "- ?", "- request:"}
    BY <1>1, TakesIs
  <2>2. st.invariant = OpenAt(doc)
    BY <1>1, <1>6, TakesIs
  <2>3. QED
    BY <1>3, <1>6, <1>7, <2>1, <2>2
<1>9. t = SectionLine(st, x, n)
  <2>1. x # "row"
    BY <1>3
  <2>2. QED
    BY <1>2, <2>1, InSectionLine
<1> HIDE DEF n, t
<1>10. t = InvariantLine(st, x)
  BY <1>8, <1>9 DEF SectionLine
<1>11. QED
  BY <1>3, <1>4, <1>5, <1>8, <1>10 DEF n, t

LEMMA DataInner ==
    ASSUME NEW doc, NEW st, NEW x, NEW e, Reading(doc, st, x, e), ~Closed(doc), In(doc) = "Test Data:", x \in Inner
    PROVE  Lands(e, st, ParseLine(st, x))
<1> DEFINE n == Len(e)
           t == ParseLine(st, x)
<1>1. /\ doc \in Seq(Writable) /\ st \in Lines /\ n \in Nat /\ OneMore(doc, x, e) /\ Fits(doc) /\ Allowed(doc, x)
      /\ Outside(doc, st) /\ InSection(doc, st) /\ n = Len(st.owner) + 1 /\ x \in Writable /\ At(doc) \in Nat
  BY ReadingIs
<1>2. x \notin Heads /\ x # "---" /\ x \notin Parts
  BY DEF Inner, Heads, Parts
<1>3. x \in {"id:", "for:", "row", "row ---"}
  BY <1>1, <1>2 DEF Allowed, Parts
<1>4. WrittenIn(e, n) = At(doc)
  <2>1. /\ x = "row" => WrittenIn(e, n) = IF In(doc) = "## Glossary" THEN Glossary ELSE At(doc)
        /\ x \in {"id:", "description:", "parameters:", "for:", "row ---", "Assertions:", "Inherent Behavior:"} =>
             WrittenIn(e, n) = At(doc)
    BY <1>1, WrittenNext
  <2>2. QED
    BY <1>3, <2>1
<1>5. Mislaid(e, n) <=> x = "row ---" \/ (x = "row" /\ RowsIn(doc) = "## Glossary")
  <2>1. Mislaid(e, n) <=>
             \/ /\ In(doc) = "Feature:"
                /\ \/ OpenIn(doc) = "Invariant:" /\ x \in {"id:", "description:"}
                   \/ Asserting(doc) /\ x \in {"->", "-", "- ?"}
                   \/ OpenIn(doc) = "Test Data:" /\ x = "id:"
                   \/ PartIn(doc) = "assert:" /\ x = "body:"
                   \/ x = "- ?"
             \/ PartIn(doc) = "Inherent Behavior:" /\ x = "->" /\ Scenario(doc) > At(doc)
             \/ x = "row ---"
             \/ In(doc) = "Test Data:" /\ x = "row" /\ RowsIn(doc) = "## Glossary"
    BY <1>1, MislaidNext
  <2>2. QED
    BY <1>3, <2>1
<1>6. At(doc) # 0 /\ OpenIn(doc) = "Test Data:" /\ OpenAt(doc) = At(doc)
  <2>1. At(doc) # 0 /\ In(doc) = doc[At(doc)]
    BY <1>1, Positions
  <2>2. OpenAt(doc) = At(doc)
    BY <1>1 DEF Fits
  <2>3. OpenIn(doc) = doc[OpenAt(doc)]
    BY <1>1, <2>1, <2>2, Positions
  <2>4. QED
    BY <2>1, <2>2, <2>3
<1>7. /\ ~InvariantTakes(st, x) /\ st.data = At(doc)
      /\ DataTakes(st, x) <=> x \in {"id:", "for:", "row"}
  <2>1. /\ InvariantTakes(st, x) => OpenIn(doc) = "Invariant:"
        /\ DataTakes(st, x) <=> OpenIn(doc) = "Test Data:" /\ x \in {"id:", "for:", "scenario:", "row"}
        /\ OpenIn(doc) = "Test Data:" => st.data = OpenAt(doc)
    BY <1>1, TakesIs
  <2>2. QED
    BY <1>3, <1>6, <2>1
<1>8. (st.glossary <=> RowsIn(doc) = "## Glossary") /\ ~st.bindings
  BY <1>1 DEF Outside, InSection
<1>9. x \notin {"---", "## Glossary", "## Glossary [Technical Bindings]"} /\ x \notin {"Feature:", "Component:", "Invariant:"}
  BY <1>3
<1> HIDE DEF n, t
<1>0. PICK z \in Int : z = 0
  BY Numbers
<1>10. CASE x = "row" /\ st.glossary
  <2>1. t = Into(st, Glossary)
    BY <1>1, <1>10, ParseLineIs DEF n, t
  <2>2. Glossary \in Int /\ Glossary # At(doc)
    <3>1. Glossary \in Int /\ \A a \in Nat : a # Glossary
      BY Numbers
    <3>2. QED
      BY <1>1, <3>1
  <2>3. PICK s \in Int : s = Glossary
    BY <2>2
  <2>4. Mislaid(e, n) /\ s # WrittenIn(e, n)
    BY <1>4, <1>5, <1>8, <1>10, <2>2, <2>3
  <2>5. QED
    BY <2>1, <2>3, <2>4, IntoLands DEF n, t
<1>11. CASE ~(x = "row" /\ st.glossary)
  <2>1. t = SectionLine(st, x, n)
    BY <1>1, <1>8, <1>9, <1>11, ParseLineIs DEF n, t
  <2>2. CASE x # "row ---"
    <3>1. t = DataLine(st, x)
      BY <1>3, <1>7, <2>1, <2>2 DEF SectionLine
    <3>2. ~Mislaid(e, n) /\ st.data = WrittenIn(e, n)
      BY <1>3, <1>4, <1>5, <1>7, <1>8, <1>11, <2>2
    <3>3. QED
      BY <3>1, <3>2, DataLineLands DEF n, t
  <2>3. CASE x = "row ---"
    <3>2. t = Into(st, z)
      <4>1. ComponentLine(st, "row ---", n) = Into(st, 0) /\ FeatureLine(st, "row ---", n) = Into(st, 0)
        <5>1. ComponentLine(st, "row ---", n) = Into(st, 0)
          BY DEF ComponentLine, ScenarioFields, Dropped, Nowhere
        <5>2. FeatureLine(st, "row ---", n) = Into(st, 0)
          BY DEF FeatureLine, ScenarioFields, Dropped, Nowhere
        <5>3. QED
          BY <5>1, <5>2
      <4>2. ~InvariantTakes(st, "row ---") /\ ~DataTakes(st, "row ---") /\ t = SectionLine(st, "row ---", n)
        BY <1>7, <2>1, <2>3
      <4>3. t = Into(st, 0)
        BY <4>1, <4>2 DEF SectionLine, Dropped, Nowhere
      <4>4. QED
        BY <1>0, <4>3
    <3>3. Mislaid(e, n) /\ z # WrittenIn(e, n)
      BY <1>0, <1>4, <1>5, <1>6, <2>3
    <3>4. QED
      BY <3>2, <3>3, IntoLands DEF n, t
  <2>4. QED
    BY <2>2, <2>3
<1>12. QED
  BY <1>10, <1>11 DEF t

LEMMA GlossaryInner ==
    ASSUME NEW doc, NEW st, NEW x, NEW e, Reading(doc, st, x, e), ~Closed(doc), In(doc) = "## Glossary", x \in Inner
    PROVE  Lands(e, st, ParseLine(st, x))
<1>1. /\ st \in Lines /\ OneMore(doc, x, e) /\ Allowed(doc, x) /\ InSection(doc, st) /\ x \in Writable
      /\ Len(e) = Len(st.owner) + 1
  BY ReadingIs
<1>2. x \notin Heads /\ x # "---"
  BY DEF Inner, Heads
<1>3. x = "row" /\ st.glossary
  BY <1>1, <1>2 DEF Allowed, InSection
<1>4. ParseLine(st, x) = Into(st, Glossary)
  BY <1>1, <1>3, ParseLineIs
<1>5. x = "row" => WrittenIn(e, Len(e)) = IF In(doc) = "## Glossary" THEN Glossary ELSE At(doc)
  BY <1>1, WrittenNext
<1>6. Mislaid(e, Len(e)) <=>
             \/ /\ In(doc) = "Feature:"
                /\ \/ OpenIn(doc) = "Invariant:" /\ x \in {"id:", "description:"}
                   \/ Asserting(doc) /\ x \in {"->", "-", "- ?"}
                   \/ OpenIn(doc) = "Test Data:" /\ x = "id:"
                   \/ PartIn(doc) = "assert:" /\ x = "body:"
                   \/ x = "- ?"
             \/ PartIn(doc) = "Inherent Behavior:" /\ x = "->" /\ Scenario(doc) > At(doc)
             \/ x = "row ---"
             \/ In(doc) = "Test Data:" /\ x = "row" /\ RowsIn(doc) = "## Glossary"
  BY <1>1, MislaidNext
<1>7. ~Mislaid(e, Len(e))
  BY <1>3, <1>6
<1>8. PICK s \in Int : s = Glossary
  BY Numbers
<1>9. s = WrittenIn(e, Len(e))
  BY <1>3, <1>5, <1>8
<1>10. QED
  BY <1>4, <1>7, <1>8, <1>9, IntoLands

LEMMA BindingsInner ==
    ASSUME NEW doc, NEW st, NEW x, NEW e, Reading(doc, st, x, e), ~Closed(doc),
           In(doc) = "## Glossary [Technical Bindings]", x \in Inner
    PROVE  Lands(e, st, ParseLine(st, x))
<1> DEFINE n == Len(e)
           t == ParseLine(st, x)
<1>1. /\ doc \in Seq(Writable) /\ st \in Lines /\ n \in Nat /\ OneMore(doc, x, e) /\ Fits(doc) /\ Allowed(doc, x)
      /\ InSection(doc, st) /\ InPart(doc, st) /\ n = Len(st.owner) + 1 /\ x \in Writable
  BY ReadingIs
<1>2. x \notin Heads /\ x # "---" /\ x \notin Parts
  BY DEF Inner, Heads, Parts
<1>3. /\ x \in {"action:", "-", "- ?"} /\ (x = "action:" => PartIn(doc) = "term")
      /\ x \in {"-", "- ?"} => PartIn(doc) = "assert:"
  BY <1>1, <1>2 DEF Allowed, Parts
<1>4. WrittenIn(e, n) = Of(doc)
  <2>1. x \in {"When", "body:", "-", "- ?", "action:", "assert:"} =>
             WrittenIn(e, n) = IF In(doc) = "Invariant:" THEN At(doc) ELSE Of(doc)
    BY <1>1, WrittenNext
  <2>2. QED
    BY <1>3, <2>1
<1>5. ~Mislaid(e, n)
  <2>1. Mislaid(e, n) <=>
             \/ /\ In(doc) = "Feature:"
                /\ \/ OpenIn(doc) = "Invariant:" /\ x \in {"id:", "description:"}
                   \/ Asserting(doc) /\ x \in {"->", "-", "- ?"}
                   \/ OpenIn(doc) = "Test Data:" /\ x = "id:"
                   \/ PartIn(doc) = "assert:" /\ x = "body:"
                   \/ x = "- ?"
             \/ PartIn(doc) = "Inherent Behavior:" /\ x = "->" /\ Scenario(doc) > At(doc)
             \/ x = "row ---"
             \/ In(doc) = "Test Data:" /\ x = "row" /\ RowsIn(doc) = "## Glossary"
    BY <1>1, MislaidNext
  <2>2. QED
    BY <1>3, <2>1
<1>6. st.bindings /\ st.binding = Of(doc) /\ Of(doc) # 0 /\ (PartIn(doc) = "assert:" => st.assertList)
  <2>1. PartIn(doc) \in {"term", "assert:"}
    BY <1>3
  <2>2. QED
    BY <1>1, <2>1 DEF InSection, InPart, Fits
<1>7. t = BindingLine(st, x, n)
  <2>1. x \notin {"---", "## Glossary", "## Glossary [Technical Bindings]"} /\ x # "row"
    BY <1>3
  <2>2. QED
    BY <1>1, <1>6, <2>1, ParseLineIs
<1>8. PICK s \in Int : s = st.binding
  BY <1>1, FieldNumbers
<1> HIDE DEF n, t
<1>9. CASE x = "action:"
  <2>1. /\ Puts(st, BindingLine(st, x, n), st.binding)
        /\ Same(st, BindingLine(st, x, n), {"owner", "assertList"})
        /\ \A all : Holds(st, all) => Holds(BindingLine(st, x, n), all)
    <3>1. st.binding # 0
      BY <1>6
    <3>2. x \in {"action:", "body:"}
      BY <1>9
    <3>3. QED
      BY <1>1, <3>1, <3>2, BindingFieldPuts
  <2>2. Same(st, t, {"owner", "columns", "assertList"})
    BY <1>7, <2>1 DEF Same
  <2>3. PartIn(doc) # "assert:"
    BY <1>3, <1>9
  <2>4. Puts(st, t, s) /\ (\A all : Holds(st, all) => Holds(t, all)) /\ s = WrittenIn(e, n)
    BY <1>4, <1>6, <1>7, <1>8, <2>1
  <2>5. QED
    BY <1>5, <2>2, <2>3, <2>4, PutLands DEF n, t
<1>10. CASE x \in {"-", "- ?"}
  <2>1. t = Into(st, s)
    BY <1>3, <1>6, <1>7, <1>8, <1>10 DEF BindingLine, BindingFields, Nowhere
  <2>2. s = WrittenIn(e, n)
    BY <1>4, <1>6, <1>8
  <2>3. QED
    BY <1>5, <2>1, <2>2, IntoLands DEF n, t
<1>11. QED
  BY <1>3, <1>9, <1>10 DEF t

LEMMA InnerLine ==
    ASSUME NEW doc, NEW st, NEW x, NEW e, Reading(doc, st, x, e), x \in Inner
    PROVE  Lands(e, st, ParseLine(st, x))
<1>1. Allowed(doc, x) /\ x \notin Heads /\ x # "---"
  BY ReadingIs DEF Inner, Heads
<1>2. /\ ~Closed(doc)
      /\ \/ In(doc) \in {"Feature:", "Component:", "Invariant:", "Test Data:"}
         \/ In(doc) \in {"## Glossary", "## Glossary [Technical Bindings]"}
  BY <1>1 DEF Allowed
<1>3. CASE In(doc) = "Invariant:"
  <2>1. x \in Inner \cup Parts
    OBVIOUS
  <2>2. ParseLine(st, x) = InvariantLine(st, x) /\ st.invariant = WrittenIn(e, Len(e)) /\ ~Mislaid(e, Len(e))
    BY <1>2, <1>3, <2>1, InvariantInner
  <2>3. QED
    BY <1>2, <2>2, InvariantLineLands
<1>4. QED
  BY <1>2, <1>3, FeatureInner, ComponentInner, DataInner, GlossaryInner, BindingsInner

-----------------------------------------------------------------------------
(* Lines that open a part of a section *)
LEMMA KeepsMore ==
    ASSUME NEW doc, NEW st, NEW x, NEW e, NEW t, Reading(doc, st, x, e), x \in SectionHeads, x # "Component:",
           \A all : Holds(st, all) /\ Nested(st) /\ Len(e) \notin all => Holds(t, all \cup {Len(e)}), Nested(t)
    PROVE  Keeps(e, t)
<1>1. Holds(st, All(doc)) /\ Nested(st) /\ OneMore(doc, x, e)
  BY ReadingIs DEF Keeps
<1>2. All(e) = All(doc) \cup {Len(e)} /\ Len(e) \notin All(doc)
  BY <1>1, AllNext
<1>3. Holds(t, All(e))
  BY <1>1, <1>2
<1>4. QED
  BY <1>3 DEF Keeps

LEMMA PartStands ==
    ASSUME NEW doc, NEW st, NEW x, NEW e, NEW t, Reading(doc, st, x, e), ~Closed(doc), x \in Parts, x # "Assertions:",
           \A f \in {"feature", "component", "invariant", "data", "invariantAssertions", "glossary", "bindings"} : t[f] = st[f],
           InPart(e, t), Keeps(e, t)
    PROVE  Stands(e, t)
<1>1. x \notin Heads /\ x # "---"
  BY DEF Heads, Parts
<1>2. Outside(e, t) /\ InSection(e, t)
  BY <1>1, OutsideOn, InSectionOn
<1>3. QED
  BY <1>2 DEF Stands

\* Where the text is after such a line.
LEMMA PartOpens ==
    ASSUME NEW doc, NEW st, NEW x, NEW e, Reading(doc, st, x, e), x \in Parts
    PROVE  /\ ~Closed(e) /\ In(e) = In(doc) /\ At(e) = At(doc) /\ PartIn(e) = x /\ PartAt(e) = Len(e)
           /\ x \in {"Scenario:", "- request:", "term"} => Of(e) = Len(e) /\ WrittenIn(e, Len(e)) = Len(e)
           /\ x \notin {"Scenario:", "- request:", "term"} => Of(e) = Of(doc)
           /\ x = "Scenario:" => Scenario(e) = Len(e) /\ Scenario(e) > At(e)
           /\ x # "Scenario:" => Scenario(e) = Scenario(doc)
           /\ x # "- request:" => ~Mislaid(e, Len(e))
<1>1. Places(doc, x, e) /\ OneMore(doc, x, e) /\ At(doc) < Len(e) /\ (Closed(e) <=> x = "---")
      /\ At(doc) \in Nat /\ Len(e) \in Nat
  BY ReadingIs
<1>2. x \notin Heads /\ x # "---"
  BY DEF Heads, Parts
<1>3. ~Closed(e) /\ In(e) = In(doc) /\ At(e) = At(doc) /\ PartIn(e) = x /\ PartAt(e) = Len(e)
  BY <1>1, <1>2 DEF Places
<1>4. /\ Of(e) = IF x \in {"Scenario:", "- request:", "term"} THEN Len(e) ELSE Of(doc)
      /\ Scenario(e) = IF x = "Scenario:" THEN Len(e) ELSE Scenario(doc)
  BY <1>1 DEF Places
<1>5. x \in {"Scenario:", "- request:", "term"} => WrittenIn(e, Len(e)) = Len(e)
  <2>1. x \in Heads \cup {"Scenario:", "- request:", "term"} => WrittenIn(e, Len(e)) = Len(e)
    BY <1>1, WrittenNext
  <2>2. QED
    BY <2>1
<1>6. x # "- request:" => ~Mislaid(e, Len(e))
  <2>1. x \in {"---", "## Glossary", "## Glossary [Technical Bindings]", "Scenario:", "Assertions:",
                     "Inherent Behavior:", "term", "assert:"} => ~Mislaid(e, Len(e))
    BY <1>1, MislaidNext
  <2>2. QED
    BY <2>1 DEF Parts
<1>7. Len(e) > At(doc)
  BY <1>1
<1>8. QED
  BY <1>3, <1>4, <1>5, <1>6, <1>7

LEMMA FeatureParts ==
    ASSUME NEW doc, NEW st, NEW x, NEW e, Reading(doc, st, x, e), ~Closed(doc), In(doc) = "Feature:", x \in Parts
    PROVE  Lands(e, st, ParseLine(st, x))
<1> DEFINE n == Len(e)
           t == ParseLine(st, x)
<1>1. /\ doc \in Seq(Writable) /\ st \in Lines /\ n \in Nat /\ n \in Int /\ n # 0 /\ OneMore(doc, x, e) /\ Fits(doc)
      /\ Allowed(doc, x) /\ Outside(doc, st) /\ InSection(doc, st) /\ InPart(doc, st) /\ OpenAt(doc) < n /\ OpenAt(doc) \in Nat
  BY ReadingIs
<1>2. x \notin Heads /\ x # "---" /\ x # "row" /\ x # "Assertions:" /\ x # "Component:"
      /\ x \in {"Scenario:", "- request:", "assert:"} /\ (x = "assert:" => PartIn(doc) = "- request:")
  <2>1. x \notin Heads /\ x # "---" /\ x # "row" /\ x # "Component:"
    BY DEF Heads, Parts
  <2>2. QED
    BY <1>1, <2>1 DEF Allowed, Parts
<1>3. At(doc) # 0 /\ st.feature = At(doc) /\ st.component = 0
  <2>1. At(doc) # 0
    BY <1>1, Positions
  <2>2. QED
    BY <1>1, <2>1 DEF InSection
<1>4. /\ ~Closed(e) /\ In(e) = In(doc) /\ At(e) = At(doc) /\ PartIn(e) = x
      /\ x \in {"Scenario:", "- request:"} => Of(e) = n /\ WrittenIn(e, n) = n
      /\ x = "assert:" => Of(e) = Of(doc)
      /\ x = "Scenario:" => Scenario(e) = n /\ Scenario(e) > At(e)
      /\ x # "Scenario:" => Scenario(e) = Scenario(doc)
      /\ x # "- request:" => ~Mislaid(e, n)
  <2>1. /\ ~Closed(e) /\ In(e) = In(doc) /\ At(e) = At(doc) /\ PartIn(e) = x /\ PartAt(e) = Len(e)
        /\ x \in {"Scenario:", "- request:", "term"} => Of(e) = Len(e) /\ WrittenIn(e, Len(e)) = Len(e)
        /\ x \notin {"Scenario:", "- request:", "term"} => Of(e) = Of(doc)
        /\ x = "Scenario:" => Scenario(e) = Len(e) /\ Scenario(e) > At(e)
        /\ x # "Scenario:" => Scenario(e) = Scenario(doc)
        /\ x # "- request:" => ~Mislaid(e, Len(e))
    BY PartOpens
  <2>2. QED
    BY <2>1
<1>5. /\ InvariantTakes(st, x) <=> Asserting(doc) /\ x = "- request:"
      /\ ~DataTakes(st, x)
      /\ Asserting(doc) => st.invariant = OpenAt(doc)
  <2>1. /\ InvariantTakes(st, x) <=>
                OpenIn(doc) = "Invariant:" /\ \/ x \in {"id:", "description:", "parameters:", "Assertions:"}
                                              \/ Asserting(doc) /\ x \in {"->", "-", "- ?", "- request:"}
        /\ DataTakes(st, x) <=> OpenIn(doc) = "Test Data:" /\ x \in {"id:", "for:", "scenario:", "row"}
        /\ OpenIn(doc) = "Invariant:" => st.invariant = OpenAt(doc)
    BY <1>1, TakesIs
  <2>2. Asserting(doc) => OpenIn(doc) = "Invariant:"
    BY DEF Asserting
  <2>3. QED
    BY <1>2, <2>1, <2>2
<1>6. x = "- request:" => (Mislaid(e, n) <=> Asserting(doc))
  <2>1. x = "- request:" => (Mislaid(e, n) <=> In(doc) = "Feature:" /\ Asserting(doc))
    BY <1>1, MislaidNext
  <2>2. QED
    BY <2>1
<1>7. t = SectionLine(st, x, n)
  BY <1>2, InSectionLine
<1>8. /\ st.scenario = IF Scenario(doc) > At(doc) THEN Scenario(doc) ELSE 0
      /\ PartIn(doc) = "- request:" => st.test = Of(doc)
  BY <1>1 DEF InPart
<1>9. WrittenIn(e, n) = IF x = "assert:" THEN Of(doc) ELSE n
  <2>1. x \in {"When", "body:", "-", "- ?", "action:", "assert:"} =>
             WrittenIn(e, n) = IF In(doc) = "Invariant:" THEN At(doc) ELSE Of(doc)
    BY <1>1, WrittenNext
  <2>2. QED
    BY <1>2, <1>4, <2>1
<1> HIDE DEF n, t
<1>10. CASE InvariantTakes(st, x)
  <2>1. t = InvariantLine(st, x)
    BY <1>7, <1>10 DEF SectionLine
  <2>2. Puts(st, t, st.invariant)
    BY <1>1, <2>1, InvariantLinePuts
  <2>3. st.invariant \in Int /\ st.invariant # n
    <3>1. \A a \in Nat : a < n => a \in Int /\ a # n
      BY <1>1
    <3>2. QED
      BY <1>1, <1>5, <1>10, <3>1
  <2>4. Mislaid(e, n) /\ WrittenIn(e, n) = n
    BY <1>2, <1>5, <1>6, <1>9, <1>10
  <2>5. QED
    BY <2>2, <2>3, <2>4 DEF Lands, n, t
<1>11. CASE ~InvariantTakes(st, x)
  <2>1. t = FeatureLine(st, x, n)
    <3>1. x # "Test Data:"
      BY <1>2
    <3>2. QED
      BY <1>3, <1>5, <1>7, <1>11, <3>1 DEF SectionLine, Nowhere
  <2>2. ~Mislaid(e, n)
    BY <1>2, <1>4, <1>5, <1>6, <1>11
  <2>3. x \in {"Scenario:", "- request:"} => \A all : Holds(st, all) /\ n \notin all => Holds(t, all \cup {n})
    <3>1. CASE x = "Scenario:"
      BY <1>1, <2>1, <3>1, ScenarioOfFeaturePuts
    <3>2. CASE x = "- request:"
      BY <1>1, <2>1, <3>2, RequestPuts
    <3>3. QED
      BY <3>1, <3>2
  <2>4. /\ x = "Scenario:" => /\ Puts(st, t, n) /\ t.scenario = n /\ t.test = 0
                              /\ Same(st, t, {"owner", "test", "scenario", "kept", "assertions"})
        /\ x = "- request:" => /\ Puts(st, t, n) /\ t.test = n /\ t.assertions = FALSE
                               /\ Same(st, t, {"owner", "test", "kept", "assertions"})
    <3>1. CASE x = "Scenario:"
      BY <1>1, <2>1, <3>1, ScenarioOfFeaturePuts
    <3>2. CASE x = "- request:"
      BY <1>1, <2>1, <3>2, RequestPuts
    <3>3. QED
      BY <3>1, <3>2
  <2>5. x = "assert:" => /\ Puts(st, t, st.test) /\ t.assertions = (TRUE) /\ Same(st, t, {"owner", "assertions"})
                         /\ \A all : Holds(st, all) => Holds(t, all)
    BY <1>1, <2>1, AssertPuts
  <2>6. /\ \A f \in {"feature", "component", "invariant", "data", "invariantAssertions", "glossary", "bindings"} : t[f] = st[f]
        /\ t.feature = st.feature /\ t.component = st.component
        /\ x # "Scenario:" => t.scenario = st.scenario
        /\ x = "assert:" => t.test = st.test
    <3>1. Same(st, t, {"owner", "test", "scenario", "kept", "assertions"})
      BY <1>2, <2>4, <2>5 DEF Same
    <3>2. x # "Scenario:" => Same(st, t, {"owner", "test", "kept", "assertions"})
      BY <1>2, <2>4, <2>5 DEF Same
    <3>3. \A f \in {"feature", "component", "invariant", "data", "invariantAssertions", "glossary", "bindings"} : t[f] = st[f]
      BY <3>1 DEF Same, Fields, OpenFields, Flags
    <3>4. x # "Scenario:" => t.scenario = st.scenario
      BY <3>2 DEF Same, Fields, OpenFields
    <3>5. x = "assert:" => t.test = st.test
      BY <2>5 DEF Same, Fields, OpenFields
    <3>6. QED
      BY <3>3, <3>4, <3>5
  <2>7. InPart(e, t)
    <3>1. t.scenario = IF Scenario(e) > At(e) THEN Scenario(e) ELSE 0
      BY <1>2, <1>4, <1>8, <2>4, <2>6
    <3>2. PartIn(e) \in {"- request:", "assert:"} => t.test = Of(e) /\ (t.assertions <=> PartIn(e) = "assert:")
      BY <1>2, <1>4, <1>8, <2>4, <2>5, <2>6
    <3>3. QED
      BY <1>4, <3>1, <3>2 DEF InPart
  <2>8. Nested(t)
    BY <1>3, <2>6 DEF Nested
  <2>9. Keeps(e, t)
    <3>1. CASE x = "assert:"
      <4>1. \A f \in {"feature", "component", "scenario", "test"} : t[f] = st[f]
        BY <2>6, <3>1
      <4>2. x \notin SectionHeads
        BY <3>1 DEF SectionHeads
      <4>3. \A all : Holds(st, all) => Holds(t, all)
        BY <2>5, <3>1
      <4>4. QED
        BY <4>1, <4>2, <4>3, KeepsOn
    <3>2. CASE x \in {"Scenario:", "- request:"}
      <4>1. x \in SectionHeads
        BY <3>2 DEF SectionHeads
      <4>2. \A all : Holds(st, all) /\ Nested(st) /\ n \notin all => Holds(t, all \cup {n})
        BY <2>3, <3>2
      <4>3. QED
        BY <1>2, <2>8, <4>1, <4>2, KeepsMore DEF n
    <3>3. QED
      BY <1>2, <3>1, <3>2
  <2>10. Stands(e, t)
    BY <1>2, <2>6, <2>7, <2>9, PartStands
  <2>11. \E s \in Int : Puts(st, t, s) /\ s = WrittenIn(e, n)
    <3>1. PICK s \in Int : s = st.test
      BY <1>1, FieldNumbers
    <3>2. x = "assert:" => Puts(st, t, s) /\ s = WrittenIn(e, n)
      BY <1>2, <1>8, <1>9, <2>5, <3>1
    <3>3. x # "assert:" => Puts(st, t, n) /\ n = WrittenIn(e, n)
      BY <1>2, <1>9, <2>4
    <3>4. QED
      BY <1>1, <3>2, <3>3
  <2>12. QED
    BY <2>2, <2>10, <2>11 DEF Lands, n, t
<1>12. QED
  BY <1>10, <1>11 DEF t

LEMMA ComponentParts ==
    ASSUME NEW doc, NEW st, NEW x, NEW e, Reading(doc, st, x, e), ~Closed(doc), In(doc) = "Component:", x \in Parts
    PROVE  Lands(e, st, ParseLine(st, x))
<1> DEFINE n == Len(e)
           t == ParseLine(st, x)
<1>1. /\ doc \in Seq(Writable) /\ st \in Lines /\ n \in Nat /\ n \in Int /\ n # 0 /\ OneMore(doc, x, e) /\ Fits(doc)
      /\ Allowed(doc, x) /\ Outside(doc, st) /\ InSection(doc, st) /\ InPart(doc, st) /\ Nested(st)
  BY ReadingIs DEF Keeps
<1>2. /\ x \notin Heads /\ x # "---" /\ x # "row" /\ x # "Assertions:" /\ x # "Component:" /\ x # "Test Data:"
      /\ x \in {"Inherent Behavior:", "Scenario:"}
  <2>1. x \notin Heads /\ x # "---" /\ x # "row" /\ x # "Component:" /\ x # "Test Data:"
    BY DEF Heads, Parts
  <2>2. QED
    BY <1>1, <2>1 DEF Allowed, Parts
<1>3. At(doc) # 0 /\ st.component = At(doc) /\ st.component # 0 /\ st.feature = 0
  <2>1. At(doc) # 0
    BY <1>1, Positions
  <2>2. QED
    BY <1>1, <2>1 DEF InSection, Nested
<1>4. /\ ~Closed(e) /\ In(e) = In(doc) /\ At(e) = At(doc) /\ PartIn(e) = x
      /\ x = "Scenario:" => WrittenIn(e, n) = n
      /\ x = "Scenario:" => Scenario(e) = n /\ Scenario(e) > At(e)
      /\ x # "Scenario:" => Scenario(e) = Scenario(doc)
      /\ ~Mislaid(e, n)
  <2>1. /\ ~Closed(e) /\ In(e) = In(doc) /\ At(e) = At(doc) /\ PartIn(e) = x /\ PartAt(e) = Len(e)
        /\ x \in {"Scenario:", "- request:", "term"} => Of(e) = Len(e) /\ WrittenIn(e, Len(e)) = Len(e)
        /\ x \notin {"Scenario:", "- request:", "term"} => Of(e) = Of(doc)
        /\ x = "Scenario:" => Scenario(e) = Len(e) /\ Scenario(e) > At(e)
        /\ x # "Scenario:" => Scenario(e) = Scenario(doc)
        /\ x # "- request:" => ~Mislaid(e, Len(e))
    BY PartOpens
  <2>2. QED
    BY <1>2, <2>1
<1>5. ~InvariantTakes(st, x) /\ ~DataTakes(st, x)
  <2>1. /\ InvariantTakes(st, x) => OpenIn(doc) = "Invariant:"
        /\ DataTakes(st, x) => OpenIn(doc) = "Test Data:"
    BY <1>1, TakesIs
  <2>2. OpenIn(doc) = "Component:"
    <3>1. In(doc) = doc[At(doc)] /\ OpenAt(doc) = At(doc)
      BY <1>1, <1>3, Positions DEF Fits
    <3>2. OpenIn(doc) = doc[OpenAt(doc)]
      BY <1>1, <1>3, <3>1, Positions
    <3>3. QED
      BY <3>1, <3>2
  <2>3. QED
    BY <2>1, <2>2
<1>6. t = SectionLine(st, x, n)
  BY <1>2, InSectionLine
<1>7. st.scenario = IF Scenario(doc) > At(doc) THEN Scenario(doc) ELSE 0
  BY <1>1 DEF InPart
<1>8. x = "Inherent Behavior:" => WrittenIn(e, n) = At(doc)
  <2>1. x \in {"id:", "description:", "parameters:", "for:", "row ---", "Assertions:", "Inherent Behavior:"} =>
           WrittenIn(e, n) = At(doc)
    BY <1>1, WrittenNext
  <2>2. QED
    BY <2>1
<1> HIDE DEF n, t
<1>9. t = ComponentLine(st, x, n)
  BY <1>2, <1>3, <1>5, <1>6 DEF SectionLine, Nowhere
<1>10. /\ x = "Scenario:" => /\ Puts(st, t, n) /\ t.scenario = n /\ Same(st, t, {"owner", "scenario", "kept", "inherent"})
                             /\ \A all : Holds(st, all) /\ n \notin all => Holds(t, all \cup {n})
       /\ x = "Inherent Behavior:" => /\ Puts(st, t, st.component) /\ t.inherent = (TRUE)
                                      /\ Same(st, t, {"owner", "inherent"}) /\ \A all : Holds(st, all) => Holds(t, all)
  <2>1. CASE x = "Scenario:"
    BY <1>1, <1>9, <2>1, ScenarioOfComponentPuts
  <2>2. CASE x = "Inherent Behavior:"
    BY <1>1, <1>9, <2>2, InherentPuts
  <2>3. QED
    BY <1>2, <2>1, <2>2
<1>11. /\ \A f \in {"feature", "component", "invariant", "data", "invariantAssertions", "glossary", "bindings"} : t[f] = st[f]
       /\ t.feature = st.feature /\ t.component = st.component /\ t.test = st.test
       /\ x # "Scenario:" => t.scenario = st.scenario
  <2>1. Same(st, t, {"owner", "scenario", "kept", "inherent"})
    BY <1>2, <1>10 DEF Same
  <2>2. x # "Scenario:" => Same(st, t, {"owner", "inherent"})
    BY <1>2, <1>10
  <2>3. /\ \A f \in {"feature", "component", "invariant", "data", "invariantAssertions", "glossary", "bindings"} : t[f] = st[f]
        /\ t.test = st.test
    BY <2>1 DEF Same, Fields, OpenFields, Flags
  <2>4. x # "Scenario:" => t.scenario = st.scenario
    BY <2>2 DEF Same, Fields, OpenFields
  <2>5. QED
    BY <2>3, <2>4
<1>12. InPart(e, t)
  <2>1. t.scenario = IF Scenario(e) > At(e) THEN Scenario(e) ELSE 0
    BY <1>2, <1>4, <1>7, <1>10, <1>11
  <2>2. PartIn(e) = "Inherent Behavior:" => t.inherent
    BY <1>4, <1>10
  <2>3. QED
    BY <1>4, <2>1, <2>2 DEF InPart
<1>13. Nested(t)
  BY <1>1, <1>3, <1>11 DEF Nested
<1>14. Keeps(e, t)
  <2>1. CASE x = "Inherent Behavior:"
    <3>1. \A f \in {"feature", "component", "scenario", "test"} : t[f] = st[f]
      BY <1>11, <2>1
    <3>2. x \notin SectionHeads
      BY <2>1 DEF SectionHeads
    <3>3. \A all : Holds(st, all) => Holds(t, all)
      BY <1>10, <2>1
    <3>4. QED
      BY <3>1, <3>2, <3>3, KeepsOn
  <2>2. CASE x = "Scenario:"
    <3>1. x \in SectionHeads
      BY <2>2 DEF SectionHeads
    <3>2. \A all : Holds(st, all) /\ Nested(st) /\ n \notin all => Holds(t, all \cup {n})
      BY <1>10, <2>2
    <3>3. QED
      BY <1>2, <1>13, <3>1, <3>2, KeepsMore DEF n
  <2>3. QED
    BY <1>2, <2>1, <2>2
<1>15. Stands(e, t)
  BY <1>2, <1>11, <1>12, <1>14, PartStands
<1>16. \E s \in Int : Puts(st, t, s) /\ s = WrittenIn(e, n)
  <2>1. PICK s \in Int : s = st.component
    BY <1>1, FieldNumbers
  <2>2. x = "Inherent Behavior:" => Puts(st, t, s) /\ s = WrittenIn(e, n)
    BY <1>3, <1>8, <1>10, <2>1
  <2>3. x # "Inherent Behavior:" => Puts(st, t, n) /\ n = WrittenIn(e, n)
    BY <1>2, <1>4, <1>10
  <2>4. QED
    BY <1>1, <2>2, <2>3
<1>17. QED
  BY <1>4, <1>15, <1>16 DEF Lands, n, t

LEMMA InvariantParts ==
    ASSUME NEW doc, NEW st, NEW x, NEW e, Reading(doc, st, x, e), ~Closed(doc), In(doc) = "Invariant:", x \in Parts
    PROVE  Lands(e, st, ParseLine(st, x))
<1> DEFINE n == Len(e)
           t == ParseLine(st, x)
<1>1. /\ st \in Lines /\ n \in Nat /\ Outside(doc, st) /\ InSection(doc, st) /\ Places(doc, x, e)
      /\ OpenAt(doc) < n /\ At(doc) \in Nat
  BY ReadingIs
<1>2. /\ x = "Assertions:" /\ x \notin Heads /\ x # "---" /\ x \notin SectionHeads
      /\ st.invariant = At(doc) /\ WrittenIn(e, n) = At(doc) /\ ~Mislaid(e, n) /\ t = InvariantLine(st, x)
  <2>1. x \in Inner \cup Parts
    OBVIOUS
  <2>2. /\ x \in {"id:", "->", "-", "Assertions:"}
        /\ st.invariant = At(doc) /\ WrittenIn(e, n) = At(doc) /\ ~Mislaid(e, n)
        /\ t = InvariantLine(st, x)
    BY <2>1, InvariantInner
  <2>3. x \notin Heads /\ x # "---"
    BY DEF Heads, Parts
  <2>4. x = "Assertions:"
    BY <2>2 DEF Parts
  <2>5. x \notin SectionHeads
    BY <2>4 DEF SectionHeads
  <2>6. QED
    BY <2>2, <2>3, <2>4, <2>5
<1>3. /\ OpenIn(e) = OpenIn(doc) /\ OpenAt(e) = OpenAt(doc) /\ Assertion(e) = n /\ RowsIn(e) = RowsIn(doc)
      /\ Swallower(e) = Swallower(doc) /\ Ended(e) = Ended(doc) /\ In(e) = In(doc) /\ At(e) = At(doc)
  <2>1. x \notin {"Invariant:", "Test Data:", "Component:"} /\ x \notin {"## Glossary", "---", "Feature:", "Component:"}
        /\ x # "## Glossary [Technical Bindings]" /\ x \notin {"---", "## Glossary"}
    BY <1>2
  <2>2. QED
    BY <1>1, <1>2, <2>1 DEF Places
<1>4. /\ Puts(st, t, st.invariant) /\ t.invariantAssertions = (st.invariantAssertions \/ x = "Assertions:")
      /\ Same(st, t, {"owner", "invariantAssertions"}) /\ \A all : Holds(st, all) => Holds(t, all)
  BY <1>1, <1>2, InvariantLinePuts
<1> HIDE DEF n, t
<1>5. /\ t.invariant = st.invariant /\ t.data = st.data /\ t.glossary = st.glossary /\ t.bindings = st.bindings
      /\ t.feature = st.feature /\ t.component = st.component /\ t.scenario = st.scenario /\ t.test = st.test
  BY <1>4 DEF Same, Fields, OpenFields, Flags
<1>6. Outside(e, t)
  <2>1. t.invariantAssertions /\ Assertion(e) > OpenAt(e)
    BY <1>1, <1>2, <1>3, <1>4
  <2>2. Swallowed(e) <=> Swallowed(doc)
    BY <1>3 DEF Swallowed
  <2>3. QED
    BY <1>1, <1>3, <1>5, <2>1, <2>2 DEF Outside
<1>7. InSection(e, t)
  <2>1. \A f \in {"feature", "component", "glossary", "bindings"} : t[f] = st[f]
    BY <1>5
  <2>2. QED
    BY <1>2, <2>1, InSectionOn
<1>8. InPart(e, t)
  BY <1>3 DEF InPart
<1>9. Keeps(e, t)
  <2>1. \A f \in {"feature", "component", "scenario", "test"} : t[f] = st[f]
    BY <1>5
  <2>2. QED
    BY <1>2, <1>4, <2>1, KeepsOn
<1>10. PICK s \in Int : s = At(doc)
  BY <1>1
<1>11. QED
  BY <1>2, <1>4, <1>6, <1>7, <1>8, <1>9, <1>10 DEF Lands, Stands, n, t

LEMMA BindingsParts ==
    ASSUME NEW doc, NEW st, NEW x, NEW e, Reading(doc, st, x, e), ~Closed(doc),
           In(doc) = "## Glossary [Technical Bindings]", x \in Parts
    PROVE  Lands(e, st, ParseLine(st, x))
<1> DEFINE n == Len(e)
           t == ParseLine(st, x)
<1>1. /\ doc \in Seq(Writable) /\ st \in Lines /\ n \in Nat /\ n \in Int /\ n # 0 /\ OneMore(doc, x, e) /\ Fits(doc)
      /\ Allowed(doc, x) /\ InSection(doc, st) /\ InPart(doc, st) /\ n = Len(st.owner) + 1 /\ x \in Writable /\ Nested(st)
  BY ReadingIs DEF Keeps
<1>2. /\ x \notin Heads /\ x # "---" /\ x # "row" /\ x # "Assertions:" /\ x # "Component:"
      /\ x \in {"term", "assert:"} /\ (x = "assert:" => PartIn(doc) = "term")
  <2>1. x \notin Heads /\ x # "---" /\ x # "row" /\ x # "Component:"
    BY DEF Heads, Parts
  <2>2. QED
    BY <1>1, <2>1 DEF Allowed, Parts
<1>3. st.bindings /\ (x = "assert:" => st.binding = Of(doc) /\ Of(doc) # 0)
  <2>1. st.bindings
    BY <1>1 DEF InSection
  <2>2. PartIn(doc) = "term" => st.binding = Of(doc) /\ Of(doc) # 0
    BY <1>1 DEF InPart, Fits
  <2>3. QED
    BY <1>2, <2>1, <2>2
<1>4. /\ ~Closed(e) /\ In(e) = In(doc) /\ PartIn(e) = x /\ ~Mislaid(e, n)
      /\ x = "term" => Of(e) = n /\ WrittenIn(e, n) = n
      /\ x = "assert:" => Of(e) = Of(doc)
  <2>1. /\ ~Closed(e) /\ In(e) = In(doc) /\ At(e) = At(doc) /\ PartIn(e) = x /\ PartAt(e) = Len(e)
        /\ x \in {"Scenario:", "- request:", "term"} => Of(e) = Len(e) /\ WrittenIn(e, Len(e)) = Len(e)
        /\ x \notin {"Scenario:", "- request:", "term"} => Of(e) = Of(doc)
        /\ x = "Scenario:" => Scenario(e) = Len(e) /\ Scenario(e) > At(e)
        /\ x # "Scenario:" => Scenario(e) = Scenario(doc)
        /\ x # "- request:" => ~Mislaid(e, Len(e))
    BY PartOpens
  <2>2. QED
    BY <1>2, <2>1
<1>5. x = "assert:" => WrittenIn(e, n) = Of(doc)
  <2>1. x \in {"When", "body:", "-", "- ?", "action:", "assert:"} =>
             WrittenIn(e, n) = IF In(doc) = "Invariant:" THEN At(doc) ELSE Of(doc)
    BY <1>1, WrittenNext
  <2>2. QED
    BY <2>1
<1>6. t = BindingLine(st, x, n)
  <2>1. x \notin {"---", "## Glossary", "## Glossary [Technical Bindings]"} /\ x # "row"
    BY <1>2
  <2>2. QED
    BY <1>1, <1>3, <2>1, ParseLineIs
<1> HIDE DEF n, t
<1>7. /\ x = "term" => /\ Puts(st, t, n) /\ t.binding = n /\ Same(st, t, {"owner", "binding", "kept", "assertList"})
                       /\ \A all : Holds(st, all) /\ n \notin all => Holds(t, all \cup {n})
      /\ x = "assert:" => /\ Puts(st, t, st.binding) /\ t.assertList = (TRUE) /\ Same(st, t, {"owner", "assertList"})
                          /\ \A all : Holds(st, all) => Holds(t, all)
  <2>1. CASE x = "term"
    BY <1>1, <1>6, <2>1, TermPuts
  <2>2. CASE x = "assert:"
    BY <1>1, <1>3, <1>6, <2>2, AssertListPuts
  <2>3. QED
    BY <1>2, <2>1, <2>2
<1>8. /\ \A f \in {"feature", "component", "invariant", "data", "invariantAssertions", "glossary", "bindings"} : t[f] = st[f]
      /\ \A f \in {"feature", "component", "scenario", "test"} : t[f] = st[f]
      /\ x = "assert:" => t.binding = st.binding
  <2>1. Same(st, t, {"owner", "binding", "kept", "assertList"})
    BY <1>2, <1>7 DEF Same
  <2>2. x = "assert:" => t.binding = st.binding
    BY <1>7 DEF Same, Fields, OpenFields
  <2>3. /\ \A f \in {"feature", "component", "invariant", "data", "invariantAssertions", "glossary", "bindings"} : t[f] = st[f]
        /\ \A f \in {"feature", "component", "scenario", "test"} : t[f] = st[f]
    BY <2>1 DEF Same, Fields, OpenFields, Flags
  <2>4. QED
    BY <2>2, <2>3
<1>9. InPart(e, t)
  <2>1. PartIn(e) \in {"term", "assert:"} => t.binding = Of(e)
    BY <1>2, <1>3, <1>4, <1>7, <1>8
  <2>2. PartIn(e) = "assert:" => t.assertList
    BY <1>4, <1>7
  <2>3. QED
    BY <1>4, <2>1, <2>2 DEF InPart
<1>10. Keeps(e, t)
  <2>1. CASE x = "assert:"
    <3>1. x \notin SectionHeads
      BY <2>1 DEF SectionHeads
    <3>2. \A all : Holds(st, all) => Holds(t, all)
      BY <1>7, <2>1
    <3>3. QED
      BY <1>8, <3>1, <3>2, KeepsOn
  <2>2. CASE x = "term"
    <3>1. x \in SectionHeads
      BY <2>2 DEF SectionHeads
    <3>2. \A all : Holds(st, all) /\ Nested(st) /\ n \notin all => Holds(t, all \cup {n})
      BY <1>7, <2>2
    <3>3. Nested(t)
      <4>1. t.feature = st.feature /\ t.component = st.component /\ t.scenario = st.scenario /\ t.test = st.test
        BY <1>8
      <4>2. QED
        BY <1>1, <4>1 DEF Nested
    <3>4. QED
      BY <1>2, <3>1, <3>2, <3>3, KeepsMore DEF n
  <2>3. QED
    BY <1>2, <2>1, <2>2
<1>11. Stands(e, t)
  BY <1>2, <1>8, <1>9, <1>10, PartStands
<1>12. \E s \in Int : Puts(st, t, s) /\ s = WrittenIn(e, n)
  <2>1. PICK s \in Int : s = st.binding
    BY <1>1, FieldNumbers
  <2>2. x = "assert:" => Puts(st, t, s) /\ s = WrittenIn(e, n)
    BY <1>3, <1>5, <1>7, <2>1
  <2>3. x = "term" => Puts(st, t, n) /\ n = WrittenIn(e, n)
    BY <1>4, <1>7
  <2>4. QED
    BY <1>1, <1>2, <2>2, <2>3
<1>13. QED
  BY <1>4, <1>11, <1>12 DEF Lands, n, t

LEMMA PartLine ==
    ASSUME NEW doc, NEW st, NEW x, NEW e, Reading(doc, st, x, e), x \in Parts
    PROVE  Lands(e, st, ParseLine(st, x))
<1>1. Allowed(doc, x) /\ x \notin Heads /\ x # "---"
  BY ReadingIs DEF Parts, Heads
<1>2. ~Closed(doc) /\ In(doc) \in {"Feature:", "Component:", "Invariant:", "## Glossary [Technical Bindings]"}
  BY <1>1 DEF Allowed, Parts
<1>3. QED
  BY <1>2, FeatureParts, ComponentParts, InvariantParts, BindingsParts

-----------------------------------------------------------------------------
(* Lines that open a section *)
LEMMA OpenOnes ==
    ASSUME NEW doc \in Seq(Writable), NEW st, Outside(doc, st)
    PROVE  {st.invariant, st.data} \ {0} = IF OpenIn(doc) \in {"Invariant:", "Test Data:"} THEN {OpenAt(doc)} ELSE {}
<1>1. OpenIn(doc) \in {"Invariant:", "Test Data:"} => OpenAt(doc) # 0
  BY TakesIs
<1>2. /\ st.invariant = IF OpenIn(doc) = "Invariant:" THEN OpenAt(doc) ELSE 0
      /\ st.data = IF OpenIn(doc) = "Test Data:" THEN OpenAt(doc) ELSE 0
  BY DEF Outside
<1>3. CASE OpenIn(doc) = "Invariant:"
  BY <1>1, <1>2, <1>3
<1>4. CASE OpenIn(doc) = "Test Data:"
  BY <1>1, <1>2, <1>4
<1>5. CASE OpenIn(doc) \notin {"Invariant:", "Test Data:"}
  BY <1>2, <1>5
<1>6. QED
  BY <1>3, <1>4, <1>5

LEMMA NotAbove ==
    ASSUME NEW a \in Nat, NEW n \in Nat, a < n
    PROVE  ~(a > n) /\ n > a
OBVIOUS

LEMMA HeadOpens ==
    ASSUME NEW doc, NEW st, NEW x, NEW e, Reading(doc, st, x, e), x \in Heads
    PROVE  /\ ~Closed(e) /\ In(e) = x /\ At(e) = Len(e) /\ PartIn(e) = "" /\ ~(Scenario(e) > At(e))
           /\ WrittenIn(e, Len(e)) = Len(e) /\ x \notin Parts /\ x # "---" /\ x # "Assertions:"
<1>1. /\ Places(doc, x, e) /\ OneMore(doc, x, e) /\ (Closed(e) <=> x = "---")
      /\ Scenario(doc) \in Nat /\ Scenario(doc) < Len(e) /\ Len(e) \in Nat
  BY ReadingIs
<1>2. x \notin Parts /\ x # "---" /\ x # "Scenario:" /\ x # "Assertions:"
  BY DEF Heads, Parts
<1>3. In(e) = x /\ At(e) = Len(e) /\ PartIn(e) = "" /\ Scenario(e) = Scenario(doc)
  BY <1>1, <1>2 DEF Places
<1>4. ~(Scenario(doc) > Len(e))
  BY <1>1
<1>5. WrittenIn(e, Len(e)) = Len(e)
  <2>1. x \in Heads \cup {"Scenario:", "- request:", "term"} => WrittenIn(e, Len(e)) = Len(e)
    BY <1>1, WrittenNext
  <2>2. QED
    BY <2>1
<1>6. QED
  BY <1>1, <1>2, <1>3, <1>4, <1>5

LEMMA HeadLands ==
    ASSUME NEW doc, NEW st, NEW x, NEW e, NEW t, Reading(doc, st, x, e), x \in Heads, Puts(st, t, Len(e)),
           x \in {"Feature:", "Component:"} => t.scenario = 0,
           x = "Feature:" => t.feature = Len(e) /\ t.component = 0,
           x = "Component:" => t.component = Len(e),
           x = "## Glossary" => t.glossary,
           t.bindings <=> x = "## Glossary [Technical Bindings]",
           Outside(e, t), Keeps(e, t), ~Mislaid(e, Len(e))
    PROVE  Lands(e, st, t)
<1>1. /\ ~Closed(e) /\ In(e) = x /\ At(e) = Len(e) /\ PartIn(e) = "" /\ ~(Scenario(e) > At(e))
      /\ WrittenIn(e, Len(e)) = Len(e) /\ x \notin Parts /\ x # "---" /\ x # "Assertions:"
  BY HeadOpens
<1>2. Len(e) \in Int
  BY ReadingIs
<1>3. InSection(e, t)
  BY <1>1 DEF InSection
<1>4. InPart(e, t)
  BY <1>1 DEF InPart
<1>5. PICK s \in Int : s = Len(e)
  BY <1>2
<1>6. QED
  BY <1>1, <1>3, <1>4, <1>5 DEF Lands, Stands

\* After the technical bindings, a section that is not a glossary is not read.
LEMMA SwallowedLands ==
    ASSUME NEW doc, NEW st, NEW x, NEW e, Reading(doc, st, x, e),
           x \in {"Feature:", "Component:", "Invariant:", "Test Data:"}, Swallowed(doc)
    PROVE  Lands(e, st, ParseLine(st, x))
<1>1. /\ st \in Lines /\ x \in Writable /\ Len(e) = Len(st.owner) + 1 /\ Len(e) # 0 /\ OneMore(doc, x, e) /\ Outside(doc, st)
  BY ReadingIs
<1>2. x \in Heads
  BY DEF Heads
<1>3. WrittenIn(e, Len(e)) = Len(e)
  BY <1>2, HeadOpens
<1>4. Mislaid(e, Len(e))
  <2>1. x \in {"Feature:", "Component:", "Invariant:", "Test Data:"} => (Mislaid(e, Len(e)) <=> Swallowed(doc))
    BY <1>1, MislaidNext
  <2>2. QED
    BY <2>1
<1>5. ParseLine(st, x) = BindingLine(st, x, Len(e))
  <2>1. st.bindings
    BY <1>1 DEF Outside
  <2>2. x \notin {"---", "## Glossary", "## Glossary [Technical Bindings]"} /\ x # "row"
    OBVIOUS
  <2>3. QED
    BY <1>1, <2>1, <2>2, ParseLineIs
<1>6. BindingLine(st, x, Len(e)) = Into(st, 0)
  <2>1. ~st.setup
    BY <1>1, FieldsAre
  <2>2. x \notin {"term", "-", "- ?", "assert:"} /\ x \notin BindingFields
    BY DEF BindingFields
  <2>3. QED
    BY <2>1, <2>2 DEF BindingLine, Dropped, Nowhere
<1>7. PICK s \in Int : s = 0
  BY Numbers
<1>8. Puts(st, ParseLine(st, x), s)
  <2>1. Puts(st, Into(st, s), s)
    BY <1>1, IntoPuts
  <2>2. QED
    BY <1>5, <1>6, <1>7, <2>1
<1>9. s # WrittenIn(e, Len(e))
  BY <1>1, <1>3, <1>7
<1>10. QED
  BY <1>4, <1>8, <1>9 DEF Lands

LEMMA FeatureHead ==
    ASSUME NEW doc, NEW st, NEW x, NEW e, NEW t, Reading(doc, st, x, e), x = "Feature:", t = Feature(st, Len(e)), ~Swallowed(doc)
    PROVE  Lands(e, st, t)
<1>1. /\ st \in Lines /\ Len(e) \in Nat /\ Len(e) # 0 /\ Outside(doc, st) /\ Places(doc, x, e) /\ OneMore(doc, x, e)
  BY ReadingIs
<1>2. /\ t \in Lines /\ t.owner = Append(st.owner, Len(e)) /\ t.feature = Len(e)
      /\ t.component = 0 /\ t.test = 0 /\ t.scenario = 0
      /\ t.glossary = FALSE /\ t.bindings = FALSE
      /\ t.invariant = st.invariant /\ t.data = st.data /\ t.invariantAssertions = st.invariantAssertions
      /\ \A all : Holds(st, all) /\ Nested(st) /\ Len(e) \notin all => Holds(t, all \cup {Len(e)})
  BY <1>1, FeatureIs
<1>3. x \in Heads /\ x \in SectionHeads /\ x # "Component:"
  BY DEF Heads, SectionHeads
<1>4. ~Mislaid(e, Len(e))
  BY <1>1, MislaidNext
<1>5. Outside(e, t)
  <2>1. /\ OpenIn(e) = OpenIn(doc) /\ OpenAt(e) = OpenAt(doc) /\ Assertion(e) = Assertion(doc)
        /\ RowsIn(e) = x /\ Swallower(e) = Swallower(doc) /\ Ended(e) = Ended(doc)
    BY <1>1 DEF Places
  <2>2. ~Swallowed(e)
    BY <2>1 DEF Swallowed
  <2>3. QED
    BY <1>1, <1>2, <2>1, <2>2 DEF Outside
<1>6. Keeps(e, t)
  <2>1. Nested(t)
    BY <1>2 DEF Nested
  <2>2. QED
    BY <1>2, <1>3, <2>1, KeepsMore
<1>7. Puts(st, t, Len(e))
  BY <1>2 DEF Puts
<1>8. QED
  BY <1>2, <1>3, <1>4, <1>5, <1>6, <1>7, HeadLands

LEMMA InvariantHead ==
    ASSUME NEW doc, NEW st, NEW x, NEW e, NEW t, Reading(doc, st, x, e), x = "Invariant:", t = Invariant(st, Len(e)), ~Swallowed(doc)
    PROVE  Lands(e, st, t)
<1>1. /\ st \in Lines /\ Len(e) \in Nat /\ Len(e) # 0 /\ Outside(doc, st) /\ Places(doc, x, e) /\ OneMore(doc, x, e)
      /\ Assertion(doc) \in Nat /\ Assertion(doc) < Len(e)
  BY ReadingIs
<1>2. /\ t \in Lines /\ t.owner = Append(st.owner, Len(e)) /\ t.invariant = Len(e)
      /\ t.feature = 0 /\ t.component = 0 /\ t.test = 0 /\ t.scenario = 0 /\ t.data = 0
      /\ t.glossary = st.glossary /\ t.bindings = st.bindings /\ t.invariantAssertions = FALSE
      /\ \A all : Holds(st, all) /\ Nested(st) /\ Len(e) \notin all => Holds(t, all \cup {Len(e)})
  BY <1>1, InvariantIs
<1>3. x \in Heads /\ x \in SectionHeads /\ x # "Component:"
  BY DEF Heads, SectionHeads
<1>4. ~Mislaid(e, Len(e))
  BY <1>1, MislaidNext
<1>5. ~st.bindings
  BY <1>1 DEF Outside
<1>6. Outside(e, t)
  <2>1. /\ OpenIn(e) = x /\ OpenAt(e) = Len(e) /\ Assertion(e) = Assertion(doc)
        /\ RowsIn(e) = RowsIn(doc) /\ Swallower(e) = Swallower(doc) /\ Ended(e) = Ended(doc)
    BY <1>1 DEF Places
  <2>2. Swallowed(e) <=> Swallowed(doc)
    BY <2>1 DEF Swallowed
  <2>3. ~(Assertion(doc) > Len(e))
    BY <1>1, NotAbove
  <2>4. QED
    BY <1>1, <1>2, <2>1, <2>2, <2>3 DEF Outside
<1>7. Keeps(e, t)
  <2>1. Nested(t)
    BY <1>2 DEF Nested
  <2>2. QED
    BY <1>2, <1>3, <2>1, KeepsMore
<1>8. Puts(st, t, Len(e))
  BY <1>2 DEF Puts
<1>9. QED
  BY <1>2, <1>3, <1>4, <1>5, <1>6, <1>7, <1>8, HeadLands

LEMMA DataHead ==
    ASSUME NEW doc, NEW st, NEW x, NEW e, NEW t, Reading(doc, st, x, e), x = "Test Data:", t = TestData(st, Len(e)), ~Swallowed(doc)
    PROVE  Lands(e, st, t)
<1>1. /\ st \in Lines /\ Len(e) \in Nat /\ Len(e) # 0 /\ Outside(doc, st) /\ Places(doc, x, e) /\ OneMore(doc, x, e)
      /\ Assertion(doc) \in Nat /\ Assertion(doc) < Len(e) /\ Keeps(doc, st)
  BY ReadingIs
<1>2. /\ t \in Lines /\ t.owner = Append(st.owner, Len(e)) /\ t.data = Len(e) /\ t.invariant = 0
      /\ t.feature = st.feature /\ t.component = st.component /\ t.test = st.test /\ t.scenario = st.scenario
      /\ t.glossary = st.glossary /\ t.bindings = st.bindings /\ t.invariantAssertions = FALSE
      /\ \A all : Holds(st, all) /\ Len(e) \notin all => Holds(t, all \cup {Len(e)})
  BY <1>1, TestDataIs
<1>3. x \in Heads /\ x \in SectionHeads /\ x # "Component:"
  BY DEF Heads, SectionHeads
<1>4. ~Mislaid(e, Len(e))
  BY <1>1, MislaidNext
<1>5. ~st.bindings
  BY <1>1 DEF Outside
<1>6. Outside(e, t)
  <2>1. /\ OpenIn(e) = x /\ OpenAt(e) = Len(e) /\ Assertion(e) = Assertion(doc)
        /\ RowsIn(e) = RowsIn(doc) /\ Swallower(e) = Swallower(doc) /\ Ended(e) = Ended(doc)
    BY <1>1 DEF Places
  <2>2. Swallowed(e) <=> Swallowed(doc)
    BY <2>1 DEF Swallowed
  <2>3. ~(Assertion(doc) > Len(e))
    BY <1>1, NotAbove
  <2>4. QED
    BY <1>1, <1>2, <2>1, <2>2, <2>3 DEF Outside
<1>7. Keeps(e, t)
  <2>1. Nested(t)
    BY <1>1, <1>2 DEF Nested, Keeps
  <2>2. QED
    BY <1>2, <1>3, <2>1, KeepsMore
<1>8. Puts(st, t, Len(e))
  BY <1>2 DEF Puts
<1>9. QED
  BY <1>2, <1>3, <1>4, <1>5, <1>6, <1>7, <1>8, HeadLands

LEMMA ComponentHead ==
    ASSUME NEW doc, NEW st, NEW x, NEW e, NEW t, Reading(doc, st, x, e), x = "Component:", t = Component(st, Len(e)), ~Swallowed(doc)
    PROVE  Lands(e, st, t)
<1>1. /\ st \in Lines /\ Len(e) \in Nat /\ Len(e) # 0 /\ Outside(doc, st) /\ Places(doc, x, e) /\ OneMore(doc, x, e)
      /\ Assertion(doc) \in Nat /\ Assertion(doc) < Len(e) /\ Keeps(doc, st) /\ doc \in Seq(Writable)
  BY ReadingIs
<1>2. /\ t \in Lines /\ t.owner = Append(st.owner, Len(e)) /\ t.component = Len(e)
      /\ t.feature = 0 /\ t.invariant = 0 /\ t.data = 0 /\ t.test = 0 /\ t.scenario = 0
      /\ t.glossary = FALSE /\ t.bindings = FALSE /\ t.invariantAssertions = FALSE
      /\ \A all : Holds(st, all) /\ Nested(st) /\ Len(e) \notin all =>
                  Holds(t, (all \ ({st.invariant, st.data} \ {0})) \cup {Len(e)})
  BY <1>1, ComponentIs
<1>3. x \in Heads
  BY DEF Heads
<1>4. ~Mislaid(e, Len(e))
  BY <1>1, MislaidNext
<1>5. Outside(e, t)
  <2>1. /\ OpenIn(e) = x /\ OpenAt(e) = Len(e) /\ Assertion(e) = Assertion(doc)
        /\ RowsIn(e) = x /\ Swallower(e) = Swallower(doc) /\ Ended(e) = Ended(doc)
    BY <1>1 DEF Places
  <2>2. ~Swallowed(e)
    BY <2>1 DEF Swallowed
  <2>3. ~(Assertion(doc) > Len(e))
    BY <1>1, NotAbove
  <2>4. QED
    BY <1>1, <1>2, <2>1, <2>2, <2>3 DEF Outside
<1>6. Keeps(e, t)
  <2>1. Nested(t)
    BY <1>2 DEF Nested
  <2>2. /\ Len(e) \notin All(doc)
        /\ All(e) = (All(doc) \ (IF OpenIn(doc) \in {"Invariant:", "Test Data:"} THEN {OpenAt(doc)} ELSE {})) \cup {Len(e)}
    <3>1. OneMore(doc, x, e)
      BY <1>1
    <3>2. QED
      BY <3>1, AllNext
  <2>3. {st.invariant, st.data} \ {0} = IF OpenIn(doc) \in {"Invariant:", "Test Data:"} THEN {OpenAt(doc)} ELSE {}
    BY <1>1, OpenOnes
  <2>4. Holds(t, (All(doc) \ ({st.invariant, st.data} \ {0})) \cup {Len(e)})
    BY <1>1, <1>2, <2>2 DEF Keeps
  <2>5. All(e) = (All(doc) \ ({st.invariant, st.data} \ {0})) \cup {Len(e)}
    BY <2>2, <2>3
  <2>6. QED
    BY <2>1, <2>4, <2>5 DEF Keeps
<1>7. Puts(st, t, Len(e))
  BY <1>2 DEF Puts
<1>8. QED
  BY <1>2, <1>3, <1>4, <1>5, <1>6, <1>7, HeadLands

LEMMA GlossaryHead ==
    ASSUME NEW doc, NEW st, NEW x, NEW e, NEW t, Reading(doc, st, x, e), x = "## Glossary", t = GlossaryHeader(st, Len(e))
    PROVE  Lands(e, st, t)
<1>1. /\ st \in Lines /\ Len(e) \in Nat /\ Len(e) # 0 /\ Outside(doc, st) /\ Places(doc, x, e) /\ OneMore(doc, x, e)
      /\ Swallower(doc) \in Nat /\ Swallower(doc) < Len(e)
  BY ReadingIs
<1>2. /\ Puts(st, t, Len(e)) /\ t.glossary = TRUE /\ t.bindings = FALSE /\ Same(st, t, {"owner", "glossary", "bindings"})
      /\ \A all : Holds(st, all) => Holds(t, all)
  BY <1>1, GlossaryHeaderPuts
<1>3. x \in Heads /\ x \notin SectionHeads
  BY DEF Heads, SectionHeads
<1>4. ~Mislaid(e, Len(e))
  BY <1>1, MislaidNext
<1>5. /\ t.invariant = st.invariant /\ t.data = st.data /\ t.invariantAssertions = st.invariantAssertions
      /\ \A f \in {"feature", "component", "scenario", "test"} : t[f] = st[f]
  BY <1>2 DEF Same, Fields, OpenFields, Flags
<1>6. Outside(e, t)
  <2>1. /\ OpenIn(e) = OpenIn(doc) /\ OpenAt(e) = OpenAt(doc) /\ Assertion(e) = Assertion(doc)
        /\ RowsIn(e) = x /\ Swallower(e) = Swallower(doc) /\ Ended(e) = Len(e)
    BY <1>1 DEF Places
  <2>2. ~Swallowed(e)
    BY <1>1, <2>1, NotAbove DEF Swallowed
  <2>3. QED
    BY <1>1, <1>2, <1>5, <2>1, <2>2 DEF Outside
<1>7. Keeps(e, t)
  BY <1>2, <1>3, <1>5, KeepsOn
<1>8. QED
  BY <1>2, <1>3, <1>4, <1>6, <1>7, HeadLands

LEMMA BindingsHead ==
    ASSUME NEW doc, NEW st, NEW x, NEW e, NEW t, Reading(doc, st, x, e), x = "## Glossary [Technical Bindings]",
           t = BindingsHeader(st, Len(e))
    PROVE  Lands(e, st, t)
<1>1. /\ st \in Lines /\ Len(e) \in Nat /\ Len(e) # 0 /\ Outside(doc, st) /\ Places(doc, x, e) /\ OneMore(doc, x, e)
      /\ Ended(doc) \in Nat /\ Ended(doc) < Len(e)
  BY ReadingIs
<1>2. /\ Puts(st, t, Len(e)) /\ t.bindings = TRUE /\ Same(st, t, {"owner", "bindings"})
      /\ \A all : Holds(st, all) => Holds(t, all)
  BY <1>1, BindingsHeaderPuts
<1>3. x \in Heads /\ x \notin SectionHeads
  BY DEF Heads, SectionHeads
<1>4. ~Mislaid(e, Len(e))
  BY <1>1, MislaidNext
<1>5. /\ t.invariant = st.invariant /\ t.data = st.data /\ t.invariantAssertions = st.invariantAssertions
      /\ t.glossary = st.glossary
      /\ \A f \in {"feature", "component", "scenario", "test"} : t[f] = st[f]
  BY <1>2 DEF Same, Fields, OpenFields, Flags
<1>6. Outside(e, t)
  <2>1. /\ OpenIn(e) = OpenIn(doc) /\ OpenAt(e) = OpenAt(doc) /\ Assertion(e) = Assertion(doc)
        /\ RowsIn(e) = RowsIn(doc) /\ Swallower(e) = Len(e) /\ Ended(e) = Ended(doc)
    BY <1>1 DEF Places
  <2>2. Swallowed(e)
    BY <1>1, <2>1, NotAbove DEF Swallowed
  <2>3. QED
    BY <1>1, <1>2, <1>5, <2>1, <2>2 DEF Outside
<1>7. Keeps(e, t)
  BY <1>2, <1>3, <1>5, KeepsOn
<1>8. QED
  BY <1>2, <1>3, <1>4, <1>6, <1>7, HeadLands

LEMMA HeadLine ==
    ASSUME NEW doc, NEW st, NEW x, NEW e, Reading(doc, st, x, e), x \in Heads
    PROVE  Lands(e, st, ParseLine(st, x))
<1>1. st \in Lines /\ x \in Writable /\ Len(e) = Len(st.owner) + 1 /\ Outside(doc, st)
  BY ReadingIs
<1>2. CASE x \in {"Feature:", "Component:", "Invariant:", "Test Data:"} /\ ~Swallowed(doc)
  <2>1. ~st.bindings
    BY <1>1, <1>2 DEF Outside
  <2>2. x \notin {"---", "## Glossary", "## Glossary [Technical Bindings]"} /\ x # "row"
    BY <1>2
  <2>3. /\ x = "Feature:" => ParseLine(st, x) = Feature(st, Len(e))
        /\ x = "Component:" => ParseLine(st, x) = Component(st, Len(e))
        /\ x = "Invariant:" => ParseLine(st, x) = Invariant(st, Len(e))
        /\ x \notin {"Feature:", "Component:", "Invariant:"} => ParseLine(st, x) = SectionLine(st, x, Len(e))
    BY <1>1, <2>1, <2>2, ParseLineIs
  <2>4. CASE x = "Feature:"
    BY <1>2, <2>3, <2>4, FeatureHead
  <2>5. CASE x = "Component:"
    BY <1>2, <2>3, <2>5, ComponentHead
  <2>6. CASE x = "Invariant:"
    BY <1>2, <2>3, <2>6, InvariantHead
  <2>7. CASE x = "Test Data:"
    <3>1. SectionLine(st, x, Len(e)) = TestData(st, Len(e))
      BY <2>7 DEF SectionLine, InvariantTakes
    <3>2. ParseLine(st, x) = TestData(st, Len(e))
      BY <2>3, <2>7, <3>1
    <3>3. QED
      BY <1>2, <2>7, <3>2, DataHead
  <2>8. QED
    BY <1>2, <2>4, <2>5, <2>6, <2>7
<1>3. CASE x \in {"Feature:", "Component:", "Invariant:", "Test Data:"} /\ Swallowed(doc)
  BY <1>3, SwallowedLands
<1>4. CASE x = "## Glossary"
  <2>1. ParseLine(st, x) = GlossaryHeader(st, Len(e))
    BY <1>1, <1>4, ParseLineIs
  <2>2. QED
    BY <1>4, <2>1, GlossaryHead
<1>5. CASE x = "## Glossary [Technical Bindings]"
  <2>1. ParseLine(st, x) = BindingsHeader(st, Len(e))
    BY <1>1, <1>5, ParseLineIs
  <2>2. QED
    BY <1>5, <2>1, BindingsHead
<1>6. QED
  BY <1>2, <1>3, <1>4, <1>5 DEF Heads

LEMMA SeparatorLine ==
    ASSUME NEW doc, NEW st, NEW x, NEW e, NEW t, Reading(doc, st, x, e), x = "---", t = ParseLine(st, x)
    PROVE  Lands(e, st, t)
<1>1. /\ st \in Lines /\ x \in Writable /\ Len(e) = Len(st.owner) + 1 /\ Outside(doc, st) /\ Keeps(doc, st)
      /\ Places(doc, x, e) /\ OneMore(doc, x, e) /\ (Closed(e) <=> x = "---")
      /\ Swallower(doc) \in Nat /\ Swallower(doc) < Len(e) /\ Len(e) \in Nat
  BY ReadingIs
<1>2. t = Separator(st)
  BY <1>1, ParseLineIs
<1>3. /\ Puts(st, t, 0) /\ t.component = 0 /\ t.scenario = 0 /\ t.test = 0 /\ t.glossary = FALSE /\ t.bindings = FALSE
      /\ t.invariant = st.invariant /\ t.data = st.data /\ t.invariantAssertions = st.invariantAssertions
      /\ \A all : Holds(st, all) /\ Nested(st) => Holds(t, all)
  BY <1>1, <1>2, SeparatorPuts
<1>4. ~Mislaid(e, Len(e)) /\ WrittenIn(e, Len(e)) = 0
  <2>1. OneMore(doc, x, e)
    BY <1>1
  <2>2. ~Mislaid(e, Len(e))
    BY <2>1, MislaidNext
  <2>3. WrittenIn(e, Len(e)) = 0
    BY <2>1, WrittenNext
  <2>4. QED
    BY <2>2, <2>3
<1>5. Outside(e, t)
  <2>1. /\ OpenIn(e) = OpenIn(doc) /\ OpenAt(e) = OpenAt(doc) /\ Assertion(e) = Assertion(doc)
        /\ RowsIn(e) = x /\ Swallower(e) = Swallower(doc) /\ Ended(e) = Len(e)
    BY <1>1 DEF Places
  <2>2. ~Swallowed(e)
    BY <1>1, <2>1, NotAbove DEF Swallowed
  <2>3. QED
    BY <1>1, <1>3, <2>1, <2>2 DEF Outside
<1>6. InSection(e, t) /\ InPart(e, t)
  BY <1>1 DEF InSection, InPart
<1>7. Keeps(e, t)
  <2>1. x \notin SectionHeads
    BY DEF SectionHeads
  <2>2. All(e) = All(doc)
    <3>1. OneMore(doc, x, e)
      BY <1>1
    <3>2. QED
      BY <2>1, <3>1, AllNext
  <2>3. Holds(t, All(doc))
    BY <1>1, <1>3 DEF Keeps
  <2>4. Nested(t)
    BY <1>3 DEF Nested
  <2>5. QED
    BY <2>2, <2>3, <2>4 DEF Keeps
<1>8. PICK s \in Int : s = 0
  BY Numbers
<1>9. QED
  BY <1>3, <1>4, <1>5, <1>6, <1>7, <1>8 DEF Lands, Stands

LEMMA LineLands ==
    ASSUME NEW doc, NEW st, NEW x, NEW e, Reading(doc, st, x, e)
    PROVE  Lands(e, st, ParseLine(st, x))
<1>1. x \in Writable
  BY ReadingIs
<1>2. CASE x = "---"
  BY <1>2, SeparatorLine
<1>3. QED
  BY <1>1, <1>2, HeadLine, PartLine, InnerLine DEF Writable

-----------------------------------------------------------------------------
(* What was read of a text, and that every line keeps it true.              *)
OwnersAre(doc, st) ==
    \A n \in DOMAIN doc : Sound(doc, n - 1) => (st.owner[n] = WrittenIn(doc, n) <=> ~Mislaid(doc, n))

Read(doc, st) ==
    /\ st \in Lines /\ doc \in Seq(Writable) /\ Len(st.owner) = Len(doc) /\ Fits(doc)
    /\ OwnersAre(doc, st)
    /\ Sound(doc, Len(doc)) => Stands(doc, st)

LEMMA OwnersOn ==
    ASSUME NEW doc, NEW st, Read(doc, st), NEW x, NEW e, NEW t, OneMore(doc, x, e), NEW s \in Int,
           Puts(st, t, s), Sound(doc, Len(doc)) => (s = WrittenIn(e, Len(e)) <=> ~Mislaid(e, Len(e)))
    PROVE  OwnersAre(e, t) /\ Len(t.owner) = Len(e)
<1>1. /\ doc \in Seq(Writable) /\ Len(st.owner) = Len(doc) /\ OwnersAre(doc, st)
      /\ st.owner \in Seq(Int) /\ t.owner = Append(st.owner, s)
      /\ x \in Writable /\ e = Append(doc, x)
  BY FieldsAre DEF Read, Puts, OneMore
<1>2. /\ DOMAIN e = 1..(Len(doc) + 1) /\ DOMAIN doc = 1..Len(doc) /\ Len(e) = Len(doc) + 1 /\ Len(doc) \in Nat
  BY <1>1, LinesBefore
<1>3. /\ \A n \in 1..Len(doc) : t.owner[n] = st.owner[n]
      /\ t.owner[Len(doc) + 1] = s /\ Len(t.owner) = Len(doc) + 1
  <2>1. ASSUME NEW o \in Seq(Int), NEW k \in Nat, Len(o) = k
        PROVE  /\ \A n \in 1..k : Append(o, s)[n] = o[n]
               /\ Append(o, s)[k + 1] = s /\ Len(Append(o, s)) = k + 1
    BY <2>1
  <2>2. QED
    BY <1>1, <1>2, <2>1
<1>4. \A m \in 0..Len(doc) : Sound(e, m) <=> Sound(doc, m)
  BY <1>1, SoundBefore
<1>5. \A m \in 1..Len(doc) : WrittenIn(e, m) = WrittenIn(doc, m) /\ (Mislaid(e, m) <=> Mislaid(doc, m))
  BY <1>1, PlacesBefore
<1>6. ASSUME NEW n \in DOMAIN e, Sound(e, n - 1)
      PROVE  t.owner[n] = WrittenIn(e, n) <=> ~Mislaid(e, n)
  <2>1. CASE n \in 1..Len(doc)
    <3>1. n - 1 \in 0..Len(doc)
      BY <1>2, <2>1
    <3>2. Sound(doc, n - 1)
      BY <1>4, <1>6, <3>1
    <3>3. st.owner[n] = WrittenIn(doc, n) <=> ~Mislaid(doc, n)
      BY <1>1, <1>2, <2>1, <3>2 DEF OwnersAre
    <3>4. QED
      BY <1>3, <1>5, <2>1, <3>3
  <2>2. CASE n \notin 1..Len(doc)
    <3>1. n = Len(doc) + 1 /\ n - 1 = Len(doc) /\ Len(doc) \in 0..Len(doc)
      BY <1>2, <2>2
    <3>2. Sound(doc, Len(doc))
      BY <1>4, <1>6, <3>1
    <3>3. n = Len(e) /\ t.owner[n] = s
      BY <1>2, <1>3, <3>1
    <3>4. QED
      BY <3>2, <3>3
  <2>3. QED
    BY <2>1, <2>2
<1>7. QED
  BY <1>2, <1>3, <1>6 DEF OwnersAre

LEMMA ReadOn ==
    ASSUME NEW doc, NEW st, Read(doc, st), NEW x \in Written(doc)
    PROVE  Read(Append(doc, x), ParseLine(st, x))
<1>1. /\ doc \in Seq(Writable) /\ st \in Lines /\ Fits(doc) /\ Len(st.owner) = Len(doc)
      /\ Sound(doc, Len(doc)) => Stands(doc, st)
  BY DEF Read
<1>2. Allowed(doc, x) /\ x \in Writable
  BY <1>1, WrittenAllowed
<1>3. PICK e : e = Append(doc, x)
  OBVIOUS
<1>4. OneMore(doc, x, e)
  BY <1>1, <1>2, <1>3 DEF OneMore
<1>5. Fits(e) /\ e \in Seq(Writable) /\ Len(e) = Len(doc) + 1
  <2>1. Fits(e)
    BY <1>1, <1>2, <1>4, FitsOn
  <2>2. QED
    BY <1>4, <2>1, NextPlaces DEF Places
<1>6. PICK t : t = ParseLine(st, x)
  OBVIOUS
<1>7. Sound(doc, Len(doc)) => Lands(e, st, t)
  <2>1. Sound(doc, Len(doc)) => Reading(doc, st, x, e)
    BY <1>1, <1>2, <1>4 DEF Reading
  <2>2. QED
    BY <1>6, <2>1, LineLands
<1>8. \E s \in Int : Puts(st, t, s) /\ (Sound(doc, Len(doc)) => (s = WrittenIn(e, Len(e)) <=> ~Mislaid(e, Len(e))))
  <2>1. CASE Sound(doc, Len(doc))
    BY <1>7, <2>1 DEF Lands
  <2>2. CASE ~Sound(doc, Len(doc))
    BY <1>1, <1>2, <1>6, <2>2, LineSomewhere
  <2>3. QED
    BY <2>1, <2>2
<1>9. PICK s \in Int : Puts(st, t, s) /\ (Sound(doc, Len(doc)) => (s = WrittenIn(e, Len(e)) <=> ~Mislaid(e, Len(e))))
  BY <1>8
<1>10. OwnersAre(e, t) /\ Len(t.owner) = Len(e) /\ t \in Lines
  <2>1. OwnersAre(e, t) /\ Len(t.owner) = Len(e)
    BY <1>4, <1>9, OwnersOn
  <2>2. QED
    BY <1>9, <2>1 DEF Puts
<1>11. Sound(e, Len(e)) => Stands(e, t)
  <2>1. Sound(e, Len(e)) => Sound(doc, Len(doc)) /\ ~Mislaid(e, Len(e))
    BY <1>1, <1>2, <1>3, <1>5, SoundBefore
  <2>2. QED
    BY <1>7, <2>1 DEF Lands
<1>12. Read(e, t)
  BY <1>5, <1>10, <1>11 DEF Read
<1>13. QED
  BY <1>3, <1>6, <1>12

\* What the reader returns: all that is open is saved.
LEMMA FinishIs ==
    ASSUME NEW st \in Lines
    PROVE  /\ Finish(st).owner = st.owner
           /\ \A all : Holds(st, all) /\ Nested(st) => ToSet(Finish(st).kept) = all /\ IsInjective(Finish(st).kept)
<1> DEFINE a == SaveFeature(st)
           b == SaveComponent(a)
           c == Save(b, "binding")
           d == Save(c, "invariant")
           z == Save(d, "data")
<1>0. /\ OpenFields \subseteq Fields /\ "owner" \in Fields /\ "owner" \notin OpenFields /\ "kept" \notin OpenFields
      /\ "binding" \in OpenFields /\ "invariant" \in OpenFields /\ "data" \in OpenFields
      /\ OpenFields = {"feature", "component", "scenario", "test"} \cup {"binding", "invariant", "data"}
  BY DEF Fields, OpenFields
<1>1. /\ a \in Lines /\ a.feature = 0
      /\ a.scenario = IF st.feature = 0 THEN st.scenario ELSE 0
      /\ a.test = IF st.feature = 0 THEN st.test ELSE 0
      /\ a.owner = st.owner /\ a.component = st.component
      /\ \A all : Holds(st, all) => Holds(a, all)
  <2>1. "owner" \in Fields \ {"feature", "test", "scenario", "kept"} /\ "component" \in Fields \ {"feature", "test", "scenario", "kept"}
    BY DEF Fields, OpenFields
  <2>2. QED
    BY <2>1, SaveFeatureIs
<1> HIDE DEF a
<1>2. /\ b \in Lines /\ b.component = 0
      /\ b.scenario = IF a.component = 0 THEN a.scenario ELSE 0
      /\ b.owner = a.owner /\ b.feature = a.feature /\ b.test = a.test
      /\ \A all : Holds(a, all) => Holds(b, all)
  <2>1. /\ "owner" \in Fields \ {"component", "scenario", "kept"} /\ "feature" \in Fields \ {"component", "scenario", "kept"}
        /\ "test" \in Fields \ {"component", "scenario", "kept"}
    BY DEF Fields, OpenFields
  <2>2. QED
    BY <1>1, <2>1, SaveComponentIs
<1> HIDE DEF b
<1>3. /\ c \in Lines /\ c.binding = 0 /\ \A f \in Fields \ {"binding", "kept"} : c[f] = b[f]
      /\ \A all : Holds(b, all) => Holds(c, all)
  BY <1>0, <1>2, SaveIs, HoldsSave
<1> HIDE DEF c
<1>4. /\ d \in Lines /\ d.invariant = 0 /\ \A f \in Fields \ {"invariant", "kept"} : d[f] = c[f]
      /\ \A all : Holds(c, all) => Holds(d, all)
  BY <1>0, <1>3, SaveIs, HoldsSave
<1> HIDE DEF d
<1>5. /\ z \in Lines /\ z.data = 0 /\ \A f \in Fields \ {"data", "kept"} : z[f] = d[f]
      /\ \A all : Holds(d, all) => Holds(z, all)
  BY <1>0, <1>4, SaveIs, HoldsSave
<1>6. Finish(st) = z
  BY DEF Finish, SaveBinding, SaveInvariant, SaveData, z, d, c, b, a
<1> HIDE DEF z
<1>7. z.owner = st.owner
  BY <1>1, <1>2, <1>3, <1>4, <1>5 DEF Fields
<1>8. z.binding = 0 /\ z.invariant = 0 /\ z.feature = b.feature /\ z.component = b.component /\ z.scenario = b.scenario /\ z.test = b.test
  BY <1>3, <1>4, <1>5 DEF Fields, OpenFields
<1>9. ASSUME Nested(st) PROVE \A f \in OpenFields : z[f] = 0
  <2>1. b.feature = 0 /\ b.component = 0
    BY <1>1, <1>2
  <2>2. b.test = 0
    BY <1>1, <1>2, <1>9 DEF Nested
  <2>3. b.scenario = 0
    BY <1>1, <1>2, <1>9 DEF Nested
  <2>4. QED
    BY <1>5, <1>8, <2>1, <2>2, <2>3 DEF OpenFields
<1>10. ASSUME NEW all, Holds(st, all), Nested(st)
       PROVE  ToSet(z.kept) = all /\ IsInjective(z.kept)
  <2>1. Holds(z, all)
    BY <1>1, <1>2, <1>3, <1>4, <1>5, <1>10
  <2>2. OpenOf(z) = {}
    BY <1>9, <1>10 DEF OpenOf
  <2>3. QED
    BY <2>1, <2>2 DEF Holds
<1>11. QED
  BY <1>6, <1>7, <1>10

\* Before the first line.
LEMMA ReadNothing == Read(<<>>, Unread)
<1>1. Unread \in Lines /\ Unread.owner = <<>> /\ Unread.kept = <<>>
  BY DEF Unread, Lines, Nowhere
<1>2. PICK doc : doc = <<>>
  OBVIOUS
<1>3. doc \in Seq(Writable) /\ Len(doc) = 0 /\ DOMAIN doc = {}
  BY <1>2
<1>4. /\ At(doc) = 0 /\ PartAt(doc) = 0 /\ OpenAt(doc) = 0 /\ Assertion(doc) = 0 /\ Scenario(doc) = 0
      /\ Swallower(doc) = 0 /\ Ended(doc) = 0
  <2>1. /\ At(doc) \in 0..0 /\ PartAt(doc) \in 0..0 /\ OpenAt(doc) \in 0..0 /\ Assertion(doc) \in 0..0
        /\ Scenario(doc) \in 0..0 /\ Swallower(doc) \in 0..0 /\ Ended(doc) \in 0..0
    BY <1>3, Positions
  <2>2. QED
    BY <2>1
<1>5. In(doc) = "" /\ PartIn(doc) = "" /\ OpenIn(doc) = ""
  BY <1>3, <1>4, Positions
<1>6. ~(0 > 0) /\ 0 <= 0 /\ 0 \in Nat
  OBVIOUS
<1>7. RowsIn(doc) = "" /\ KindAt(doc, Len(doc)) = ""
  <2>1. Latest(doc, {"## Glossary", "---", "Feature:", "Component:"}) \in 0..0
    BY <1>3, <1>6, LastOfIs DEF Latest
  <2>2. PICK k : k = Latest(doc, {"## Glossary", "---", "Feature:", "Component:"})
    OBVIOUS
  <2>3. k \in 0..0
    BY <2>1, <2>2
  <2>4. k = 0
    BY <2>3
  <2>5. QED
    BY <1>3, <2>2, <2>4, KindIs DEF RowsIn
<1>8. Fits(doc)
  BY <1>4, <1>5, <1>6 DEF Fits
<1>9. PICK st : st = Unread
  OBVIOUS
<1>10. /\ st.invariant = 0 /\ st.data = 0 /\ st.feature = 0 /\ st.component = 0 /\ st.scenario = 0 /\ st.test = 0
       /\ st.binding = 0 /\ ~st.invariantAssertions /\ ~st.glossary /\ ~st.bindings /\ st.kept = <<>> /\ st.owner = <<>>
  BY <1>9 DEF Unread, Nowhere
<1>11. Outside(doc, st)
  BY <1>4, <1>5, <1>6, <1>7, <1>10 DEF Outside, Swallowed
<1>12. InSection(doc, st)
  BY <1>5, <1>10 DEF InSection
<1>13. InPart(doc, st)
  BY <1>5 DEF InPart
<1>14. Keeps(doc, st)
  <2>1. Nested(st)
    BY <1>10 DEF Nested
  <2>2. All(doc) = {}
    BY <1>3 DEF All, Sections, Lost
  <2>3. \A f \in OpenFields : st[f] = 0
    BY <1>10 DEF OpenFields
  <2>4. OpenOf(st) = {}
    BY <2>3 DEF OpenOf
  <2>5. ToSet(<<>>) = {} /\ IsInjective(<<>>)
    BY DEF ToSet, IsInjective
  <2>6. Holds(st, {})
    BY <1>10, <2>3, <2>4, <2>5 DEF Holds
  <2>7. QED
    BY <2>1, <2>2, <2>6 DEF Keeps
<1>15. Read(doc, st)
  <2>1. OwnersAre(doc, st)
    BY <1>3 DEF OwnersAre
  <2>2. Len(st.owner) = Len(doc)
    BY <1>2, <1>10
  <2>3. QED
    BY <1>1, <1>3, <1>8, <1>9, <1>11, <1>12, <1>13, <1>14, <2>1, <2>2 DEF Read, Stands
<1>16. QED
  BY <1>2, <1>9, <1>15

-----------------------------------------------------------------------------
(* Glossaries: what parse_glossary keeps of a text, a line at a time.       *)
TermLines == {"## Glossary", "##", "term", "-"}
OneTermLine(lines, x, e) == lines \in Seq(TermLines) /\ x \in TermLines /\ e = Append(lines, x)

InNow(lines) == InGlossary(lines, Len(lines))
LastTerm(lines) == Latest(lines, {"term", "##"})
IsTerm(lines, t) == lines[t] = "term" /\ InGlossary(lines, t)
Open(lines) == IF LastTerm(lines) # 0 /\ IsTerm(lines, LastTerm(lines)) THEN LastTerm(lines) ELSE 0
Defines(lines, n, t) == lines[n] = "-" /\ InGlossary(lines, n) /\ LastOf(lines, n, {"term", "##"}) = t

NoneAfter(doc, t, n, h) == \A i \in 1..n : i > t => doc[i] # h

\* A glossary stays one until a header of another kind.
LEMMA HeaderStays ==
    ASSUME NEW doc, NEW n \in Nat, NEW t \in 1..n, NEW g, NEW h, g # KindAt(doc, 0),
           KindAt(doc, LastOf(doc, t, {g, h})) = g, NoneAfter(doc, t, n, h)
    PROVE  KindAt(doc, LastOf(doc, n, {g, h})) = g
<1>0. t \in Nat /\ \A i \in 1..t : i \in 1..n
  OBVIOUS
<1>1. PICK K : K = {g, h}
  OBVIOUS
<1>2. PICK a \in 0..t : /\ a = LastOf(doc, t, K)
                        /\ a # 0 => doc[a] \in K
                        /\ \A i \in 1..t : doc[i] \in K => i <= a
  BY <1>0, LastOfIs
<1>3. PICK b \in 0..n : /\ b = LastOf(doc, n, K)
                        /\ b # 0 => doc[b] \in K
                        /\ \A i \in 1..n : doc[i] \in K => i <= b
  BY LastOfIs
<1>4. KindAt(doc, a) = g
  BY <1>1, <1>2
<1>5. a # 0 /\ doc[a] = g
  BY <1>4, KindIs
<1>6. a <= b /\ b # 0
  <2>1. a \in 1..t
    BY <1>0, <1>5
  <2>2. a \in 1..n /\ doc[a] \in K
    BY <1>0, <1>1, <1>5, <2>1
  <2>3. a <= b
    BY <1>3, <2>2
  <2>4. QED
    BY <2>1, <2>3
<1>7. doc[b] = g
  <2>1. b \in 1..n /\ doc[b] \in K
    BY <1>3, <1>6
  <2>2. CASE b > t
    BY <1>1, <2>1, <2>2 DEF NoneAfter
  <2>3. CASE ~(b > t)
    <3>1. b \in 1..t
      BY <1>0, <2>1, <2>3
    <3>2. b <= a
      BY <1>2, <2>1, <3>1
    <3>3. a = b
      BY <1>6, <3>1, <3>2
    <3>4. QED
      BY <1>5, <3>3
  <2>4. QED
    BY <2>2, <2>3
<1>8. KindAt(doc, b) = g
  BY <1>6, <1>7, KindIs
<1>9. QED
  BY <1>1, <1>3, <1>8

LEMMA OpenIs ==
    ASSUME NEW lines \in Seq(TermLines), Open(lines) # 0
    PROVE  /\ InNow(lines) /\ Open(lines) \in 1..Len(lines) /\ Open(lines) \in DOMAIN lines
           /\ IsTerm(lines, Open(lines)) /\ Open(lines) = LastTerm(lines)
<1>1. PICK t : t = LastTerm(lines)
  OBVIOUS
<1>2. Open(lines) = t /\ t # 0 /\ IsTerm(lines, t)
  BY <1>1 DEF Open
<1>3. Len(lines) \in Nat /\ DOMAIN lines = 1..Len(lines)
  OBVIOUS
<1>4. t \in 0..Len(lines) /\ \A i \in 1..Len(lines) : lines[i] \in {"term", "##"} => i <= t
  BY <1>1, <1>3, LastOfIs DEF LastTerm, Latest
<1>5. t \in 1..Len(lines)
  BY <1>2, <1>3, <1>4
<1>6. \A i \in 1..Len(lines) : i > t => lines[i] # "##"
  <2> TAKE i \in 1..Len(lines)
  <2>1. i <= t => ~(i > t)
    BY <1>3, <1>5
  <2>2. QED
    BY <1>4, <2>1
<1>7. KindAt(lines, LastOf(lines, t, {"## Glossary", "##"})) = "## Glossary"
  BY <1>2 DEF IsTerm, InGlossary
<1>8. "## Glossary" # KindAt(lines, 0)
  BY DEF KindAt
<1>9. KindAt(lines, LastOf(lines, Len(lines), {"## Glossary", "##"})) = "## Glossary"
  <2>1. PICK g : g = "## Glossary"
    OBVIOUS
  <2>2. PICK h : h = "##"
    OBVIOUS
  <2>3. g # KindAt(lines, 0) /\ KindAt(lines, LastOf(lines, t, {g, h})) = g
    BY <1>7, <1>8, <2>1, <2>2
  <2>4. NoneAfter(lines, t, Len(lines), h)
    BY <1>6, <2>2 DEF NoneAfter
  <2>5. KindAt(lines, LastOf(lines, Len(lines), {g, h})) = g
    BY <1>3, <1>5, <2>3, <2>4, HeaderStays
  <2>6. QED
    BY <2>1, <2>2, <2>5
<1>10. InNow(lines)
  BY <1>9 DEF InNow, InGlossary
<1>11. QED
  BY <1>1, <1>2, <1>3, <1>5, <1>10

LEMMA DefsAre ==
    ASSUME NEW lines
    PROVE  /\ \A t : DefsOf(lines, t) = {n \in DOMAIN lines : Defines(lines, n, t)}
           /\ TermsOf(lines) = {t \in DOMAIN lines : IsTerm(lines, t) /\ DefsOf(lines, t) # {}}
<1>1. \A t : DefsOf(lines, t) = {n \in DOMAIN lines : Defines(lines, n, t)}
  BY DEF DefsOf, Defines
<1>2. TermsOf(lines) = {t \in DOMAIN lines : IsTerm(lines, t) /\ DefsOf(lines, t) # {}}
  BY DEF TermsOf, IsTerm
<1>3. QED
  BY <1>1, <1>2

\* One line more: whether the text is in a glossary, and which term is open.
LEMMA GlossaryNext ==
    ASSUME NEW lines, NEW x, NEW e, OneTermLine(lines, x, e)
    PROVE  /\ e \in Seq(TermLines) /\ Len(e) = Len(lines) + 1 /\ Len(lines) \in Nat
           /\ DOMAIN e = 1..(Len(lines) + 1) /\ DOMAIN lines = 1..Len(lines)
           /\ e[Len(e)] = x
           /\ \A i \in 1..Len(lines) : /\ e[i] = lines[i] /\ (InGlossary(e, i) <=> InGlossary(lines, i))
                                       /\ LastOf(e, i, {"term", "##"}) = LastOf(lines, i, {"term", "##"})
           /\ x = "## Glossary" => InNow(e)
           /\ x = "##" => ~InNow(e)
           /\ x \in {"term", "-"} => (InNow(e) <=> InNow(lines))
           /\ LastTerm(e) = IF x \in {"term", "##"} THEN Len(e) ELSE LastTerm(lines)
           /\ LastTerm(lines) \in 0..Len(lines)
<1>1. /\ e \in Seq(TermLines) /\ Len(e) = Len(lines) + 1 /\ Len(lines) \in Nat
      /\ DOMAIN e = 1..(Len(lines) + 1) /\ DOMAIN lines = 1..Len(lines)
      /\ e[Len(lines) + 1] = x
      /\ \A i \in 1..Len(lines) : e[i] = lines[i]
      /\ \A i \in 0..Len(lines) : KindAt(e, i) = KindAt(lines, i)
  BY LinesBefore DEF OneTermLine
<1>2. ASSUME NEW kinds
      PROVE  /\ Latest(e, kinds) = IF x \in kinds THEN Len(e) ELSE Latest(lines, kinds)
             /\ KindAt(e, Latest(e, kinds)) = IF x \in kinds THEN x ELSE KindAt(lines, Latest(lines, kinds))
             /\ Latest(lines, kinds) \in 0..Len(lines)
  BY <1>1, LatestNext DEF OneTermLine
<1>3. ASSUME NEW i \in 0..Len(lines), NEW kinds
      PROVE  LastOf(e, i, kinds) = LastOf(lines, i, kinds) /\ KindAt(e, LastOf(e, i, kinds)) = KindAt(lines, LastOf(lines, i, kinds))
  <2>1. LastOf(e, i, kinds) = LastOf(lines, i, kinds) /\ LastOf(lines, i, kinds) \in 0..Len(lines)
    BY LastOfBefore DEF OneTermLine
  <2>2. QED
    BY <1>1, <2>1
<1>4. \A i \in 1..Len(lines) : i \in 0..Len(lines)
  BY <1>1
<1>5. \A i \in 1..Len(lines) : InGlossary(e, i) <=> InGlossary(lines, i)
  BY <1>3, <1>4 DEF InGlossary
<1>6. \A i \in 1..Len(lines) : LastOf(e, i, {"term", "##"}) = LastOf(lines, i, {"term", "##"})
  BY <1>3, <1>4
<1>7. /\ x = "## Glossary" => InNow(e)
      /\ x = "##" => ~InNow(e)
      /\ x \in {"term", "-"} => (InNow(e) <=> InNow(lines))
  <2>1. KindAt(e, Latest(e, {"## Glossary", "##"})) =
          IF x \in {"## Glossary", "##"} THEN x ELSE KindAt(lines, Latest(lines, {"## Glossary", "##"}))
    BY <1>2
  <2>2. /\ InNow(e) <=> KindAt(e, Latest(e, {"## Glossary", "##"})) = "## Glossary"
        /\ InNow(lines) <=> KindAt(lines, Latest(lines, {"## Glossary", "##"})) = "## Glossary"
    BY DEF InNow, InGlossary, Latest
  <2>3. CASE x = "## Glossary"
    BY <2>1, <2>2, <2>3
  <2>4. CASE x = "##"
    BY <2>1, <2>2, <2>4
  <2>5. CASE x \in {"term", "-"}
    BY <2>1, <2>2, <2>5
  <2>6. QED
    BY <2>3, <2>4, <2>5
<1>8. /\ LastTerm(e) = IF x \in {"term", "##"} THEN Len(e) ELSE LastTerm(lines)
      /\ LastTerm(lines) \in 0..Len(lines)
  BY <1>2 DEF LastTerm
<1>9. e[Len(e)] = x
  BY <1>1
<1>10. QED
  BY <1>1, <1>5, <1>6, <1>7, <1>8, <1>9

LEMMA OpenNext ==
    ASSUME NEW lines, NEW x, NEW e, OneTermLine(lines, x, e)
    PROVE  /\ x = "##" => Open(e) = 0
           /\ x = "term" => Open(e) = IF InNow(lines) THEN Len(e) ELSE 0
           /\ x \in {"## Glossary", "-"} => Open(e) = Open(lines)
<1>1. /\ Len(e) = Len(lines) + 1 /\ Len(lines) \in Nat /\ e[Len(e)] = x
      /\ LastTerm(e) = IF x \in {"term", "##"} THEN Len(e) ELSE LastTerm(lines)
      /\ x \in {"term", "-"} => (InNow(e) <=> InNow(lines))
      /\ LastTerm(lines) \in 0..Len(lines)
  BY GlossaryNext
<1>2. \A i \in 1..Len(lines) : e[i] = lines[i] /\ (InGlossary(e, i) <=> InGlossary(lines, i))
  <2>1. \A i \in 1..Len(lines) : /\ e[i] = lines[i] /\ (InGlossary(e, i) <=> InGlossary(lines, i))
                                  /\ LastOf(e, i, {"term", "##"}) = LastOf(lines, i, {"term", "##"})
    BY GlossaryNext
  <2>2. QED
    BY <2>1
<1>3. Len(e) # 0 /\ (LastTerm(lines) # 0 => LastTerm(lines) \in 1..Len(lines))
  BY <1>1
<1>4. x = "##" => Open(e) = 0
  BY <1>1 DEF Open, IsTerm
<1>5. x = "term" => Open(e) = IF InNow(lines) THEN Len(e) ELSE 0
  <2>1. InNow(e) <=> InGlossary(e, Len(e))
    BY DEF InNow
  <2>2. QED
    BY <1>1, <1>3, <2>1 DEF Open, IsTerm
<1>6. x \in {"## Glossary", "-"} => Open(e) = Open(lines)
  <2>1. ASSUME NEW i \in 1..Len(lines)
        PROVE  IsTerm(e, i) <=> IsTerm(lines, i)
    BY <1>2 DEF IsTerm
  <2>2. x \in {"## Glossary", "-"} => LastTerm(e) = LastTerm(lines)
    BY <1>1
  <2>3. LastTerm(e) = LastTerm(lines) => Open(e) = Open(lines)
    BY <1>3, <2>1 DEF Open
  <2>4. QED
    BY <2>2, <2>3
<1>7. QED
  BY <1>4, <1>5, <1>6

\* Which definitions and terms the text has with it.
LEMMA DefsNext ==
    ASSUME NEW lines, NEW x, NEW e, OneTermLine(lines, x, e)
    PROVE  /\ \A t : DefsOf(e, t) = DefsOf(lines, t) \cup (IF x = "-" /\ InNow(lines) /\ LastTerm(lines) = t THEN {Len(e)} ELSE {})
           /\ TermsOf(e) = IF x = "-" /\ Open(lines) # 0 THEN TermsOf(lines) \cup {Open(lines)} ELSE TermsOf(lines)
           /\ DefsOf(lines, Len(e)) = {} /\ Len(e) \notin TermsOf(lines) /\ 0 \notin TermsOf(lines)
<1> DEFINE N == Len(e)
<1>1. /\ N = Len(lines) + 1 /\ Len(lines) \in Nat /\ DOMAIN e = 1..(Len(lines) + 1) /\ DOMAIN lines = 1..Len(lines)
      /\ e[N] = x
      /\ \A i \in 1..Len(lines) : /\ e[i] = lines[i] /\ (InGlossary(e, i) <=> InGlossary(lines, i))
                                  /\ LastOf(e, i, {"term", "##"}) = LastOf(lines, i, {"term", "##"})
      /\ x \in {"term", "-"} => (InNow(e) <=> InNow(lines))
      /\ LastTerm(e) = IF x \in {"term", "##"} THEN N ELSE LastTerm(lines)
      /\ LastTerm(lines) \in 0..Len(lines)
  BY GlossaryNext
<1>2. lines \in Seq(TermLines) /\ x \in TermLines
  BY DEF OneTermLine
<1>3. InNow(e) <=> InGlossary(e, N)
  BY DEF InNow
<1>4. LastTerm(e) = LastOf(e, N, {"term", "##"})
  BY DEF LastTerm, Latest
<1> HIDE DEF N
<1>5. ASSUME NEW i \in 1..Len(lines), NEW t
      PROVE  Defines(e, i, t) <=> Defines(lines, i, t)
  BY <1>1 DEF Defines
<1>6. ASSUME NEW i \in 1..Len(lines)
      PROVE  IsTerm(e, i) <=> IsTerm(lines, i)
  BY <1>1 DEF IsTerm
<1>7. ASSUME NEW t
      PROVE  Defines(e, N, t) <=> x = "-" /\ InNow(lines) /\ LastTerm(lines) = t
  <2>1. x = "-" => (InGlossary(e, N) <=> InNow(lines)) /\ LastOf(e, N, {"term", "##"}) = LastTerm(lines)
    BY <1>1, <1>3, <1>4
  <2>2. QED
    BY <1>1, <2>1 DEF Defines
<1>8. ASSUME NEW t
      PROVE  DefsOf(e, t) = DefsOf(lines, t) \cup (IF x = "-" /\ InNow(lines) /\ LastTerm(lines) = t THEN {N} ELSE {})
  <2>1. DefsOf(e, t) = {n \in DOMAIN e : Defines(e, n, t)} /\ DefsOf(lines, t) = {n \in DOMAIN lines : Defines(lines, n, t)}
    BY DefsAre
  <2>2. DOMAIN e = DOMAIN lines \cup {N} /\ N \notin DOMAIN lines
    BY <1>1
  <2>3. \A i \in DOMAIN lines : Defines(e, i, t) <=> Defines(lines, i, t)
    BY <1>1, <1>5
  <2>4. DefsOf(e, t) = DefsOf(lines, t) \cup {n \in {N} : Defines(e, n, t)}
    BY <2>1, <2>2, <2>3
  <2>5. {n \in {N} : Defines(e, n, t)} = IF Defines(e, N, t) THEN {N} ELSE {}
    OBVIOUS
  <2>6. QED
    BY <1>7, <2>4, <2>5
<1>9. DefsOf(lines, N) = {}
  <2>1. DefsOf(lines, N) = {n \in DOMAIN lines : Defines(lines, n, N)}
    BY DefsAre
  <2>2. ASSUME NEW n \in DOMAIN lines, Defines(lines, n, N)
        PROVE  FALSE
    <3>1. LastOf(lines, n, {"term", "##"}) = N
      BY <2>2 DEF Defines
    <3>2. n \in Nat /\ n <= Len(lines)
      BY <1>1
    <3>3. LastOf(lines, n, {"term", "##"}) \in 0..n
      BY <3>2, LastOfIs
    <3>4. QED
      BY <1>1, <3>1, <3>2, <3>3
  <2>3. QED
    BY <2>1, <2>2
<1>10. N \notin TermsOf(lines) /\ 0 \notin TermsOf(lines)
  <2>1. N \notin DOMAIN lines /\ 0 \notin DOMAIN lines
    BY <1>1
  <2>2. QED
    BY <2>1, DefsAre
<1>11. TermsOf(e) = IF x = "-" /\ Open(lines) # 0 THEN TermsOf(lines) \cup {Open(lines)} ELSE TermsOf(lines)
  <2>1. /\ TermsOf(e) = {t \in DOMAIN e : IsTerm(e, t) /\ DefsOf(e, t) # {}}
        /\ TermsOf(lines) = {t \in DOMAIN lines : IsTerm(lines, t) /\ DefsOf(lines, t) # {}}
    BY DefsAre
  <2>2. ~(IsTerm(e, N) /\ DefsOf(e, N) # {})
    <3>1. CASE x = "-"
      BY <1>1, <3>1 DEF IsTerm
    <3>2. CASE x # "-"
      BY <1>8, <1>9, <3>2
    <3>3. QED
      BY <3>1, <3>2
  <2>3. DOMAIN e = DOMAIN lines \cup {N}
    BY <1>1
  <2>4. TermsOf(e) = {t \in DOMAIN lines : IsTerm(lines, t) /\ DefsOf(e, t) # {}}
    <3>1. \A t \in DOMAIN lines : IsTerm(e, t) <=> IsTerm(lines, t)
      BY <1>1, <1>6
    <3>2. QED
      BY <2>1, <2>2, <2>3, <3>1
  <2>5. CASE x = "-" /\ Open(lines) # 0
    <3>1. InNow(lines) /\ Open(lines) \in DOMAIN lines /\ IsTerm(lines, Open(lines)) /\ Open(lines) = LastTerm(lines)
      BY <1>2, <2>5, OpenIs
    <3>2. \A t : DefsOf(e, t) = DefsOf(lines, t) \cup (IF t = Open(lines) THEN {N} ELSE {})
      BY <1>8, <2>5, <3>1
    <3>3. TermsOf(e) = TermsOf(lines) \cup {Open(lines)}
      BY <2>1, <2>4, <3>1, <3>2
    <3>4. QED
      BY <2>5, <3>3
  <2>6. CASE ~(x = "-" /\ Open(lines) # 0)
    <3>1. ASSUME NEW t \in DOMAIN lines, IsTerm(lines, t)
          PROVE  DefsOf(e, t) = DefsOf(lines, t)
      <4>1. ~(x = "-" /\ InNow(lines) /\ LastTerm(lines) = t)
        <5>1. t # 0
          BY <1>1
        <5>2. QED
          BY <2>6, <3>1, <5>1 DEF Open
      <4>2. QED
        BY <1>8, <4>1
    <3>2. TermsOf(e) = TermsOf(lines)
      BY <2>1, <2>4, <3>1
    <3>3. QED
      BY <2>6, <3>2
  <2>7. QED
    BY <2>5, <2>6
<1>12. QED
  BY <1>8, <1>9, <1>10, <1>11 DEF N

-----------------------------------------------------------------------------
(* What parse_glossary has: the terms kept are those of the text but for    *)
(* the one that is open.                                                    *)
GlossaryLines == [n : Nat, in : BOOLEAN, term : Nat, defs : Seq(Nat), terms : Seq(Nat \X Seq(Nat))]

Says(lines, terms, all) ==
    /\ terms \in Seq(Nat \X Seq(Nat)) /\ IsInjective(terms)
    /\ {terms[i][1] : i \in DOMAIN terms} = all
    /\ \A i \in DOMAIN terms : ToSet(terms[i][2]) = DefsOf(lines, terms[i][1])

TermsRead(lines, g) ==
    /\ g \in GlossaryLines /\ lines \in Seq(TermLines) /\ g.n = Len(lines) /\ (g.in <=> InNow(lines))
    /\ g.term = Open(lines)
    /\ g.term # 0 => ToSet(g.defs) = DefsOf(lines, g.term)
    /\ Says(lines, g.terms, TermsOf(lines) \ {g.term})

\* A term more that is kept.
LEMMA OneMoreTerm ==
    ASSUME NEW lines, NEW terms, NEW all, Says(lines, terms, all), NEW t \in Nat, NEW defs \in Seq(Nat),
           t \notin all, ToSet(defs) = DefsOf(lines, t)
    PROVE  Says(lines, Append(terms, <<t, defs>>), all \cup {t})
<1> DEFINE more == Append(terms, <<t, defs>>)
           n == Len(terms)
<1>1. /\ terms \in Seq(Nat \X Seq(Nat)) /\ IsInjective(terms) /\ {terms[i][1] : i \in DOMAIN terms} = all
      /\ \A i \in DOMAIN terms : ToSet(terms[i][2]) = DefsOf(lines, terms[i][1])
  BY DEF Says
<1> DEFINE p == <<t, defs>>
<1>2. p \in Nat \X Seq(Nat) /\ p[1] = t /\ p[2] = defs
  OBVIOUS
<1> HIDE DEF p
<1>3. /\ more \in Seq(Nat \X Seq(Nat)) /\ n \in Nat /\ DOMAIN more = 1..(n + 1) /\ DOMAIN terms = 1..n
      /\ more[n + 1] = p /\ \A i \in 1..n : more[i] = terms[i]
  <2>1. more = Append(terms, p)
    BY DEF p
  <2>2. QED
    BY <1>1, <1>2, <2>1
<1>4. \A i \in 1..n : terms[i][1] \in all /\ terms[i][1] # t
  BY <1>1, <1>3
<1> HIDE DEF more, n
<1>5. IsInjective(more)
  <2>1. ASSUME NEW a \in DOMAIN more, NEW b \in DOMAIN more, more[a] = more[b]
        PROVE  a = b
    <3>1. CASE a \in 1..n /\ b \in 1..n
      BY <1>1, <1>3, <2>1, <3>1 DEF IsInjective
    <3>2. CASE ~(a \in 1..n /\ b \in 1..n)
      <4>1. \A i \in 1..n : more[i] # p
        BY <1>2, <1>3, <1>4
      <4>2. QED
        BY <1>3, <2>1, <3>2, <4>1
    <3>3. QED
      BY <3>1, <3>2
  <2>2. QED
    BY <2>1 DEF IsInjective
<1>6. {more[i][1] : i \in DOMAIN more} = all \cup {t}
  <2>1. \A i \in DOMAIN more : more[i][1] \in all \cup {t}
    <3>1. \A i \in DOMAIN more : i \in 1..n \/ i = n + 1
      BY <1>3
    <3>2. QED
      BY <1>2, <1>3, <1>4, <3>1
  <2>2. \A a \in all : \E i \in DOMAIN more : a = more[i][1]
    <3>1. \A a \in all : \E i \in 1..n : a = terms[i][1]
      BY <1>1, <1>3
    <3>2. \A i \in 1..n : i \in DOMAIN more /\ more[i] = terms[i]
      BY <1>3
    <3>3. QED
      BY <3>1, <3>2
  <2>3. n + 1 \in DOMAIN more /\ t = more[n + 1][1]
    BY <1>2, <1>3
  <2>4. QED
    BY <2>1, <2>2, <2>3
<1>7. \A i \in DOMAIN more : ToSet(more[i][2]) = DefsOf(lines, more[i][1])
  <2>1. \A i \in DOMAIN more : i \in 1..n \/ i = n + 1
    BY <1>3
  <2>2. \A i \in 1..n : i \in DOMAIN terms /\ more[i] = terms[i]
    BY <1>3
  <2>3. ToSet(more[n + 1][2]) = DefsOf(lines, more[n + 1][1])
    BY <1>2, <1>3
  <2>4. QED
    BY <1>1, <2>1, <2>2, <2>3
<1>8. QED
  BY <1>3, <1>5, <1>6, <1>7 DEF Says, more, p

LEMMA SaveTermShape ==
    ASSUME NEW g \in GlossaryLines
    PROVE  /\ SaveTerm(g) \in GlossaryLines /\ SaveTerm(g).n = g.n /\ SaveTerm(g).in = g.in
           /\ SaveTerm(g).terms = IF g.term = 0 \/ g.defs = <<>> THEN g.terms ELSE Append(g.terms, <<g.term, g.defs>>)
<1>1. g.term \in Nat /\ g.defs \in Seq(Nat) /\ g.terms \in Seq(Nat \X Seq(Nat))
  BY DEF GlossaryLines
<1>2. CASE g.term = 0 \/ g.defs = <<>>
  BY <1>2 DEF SaveTerm, Nowhere
<1>3. CASE ~(g.term = 0 \/ g.defs = <<>>)
  <2>1. Append(g.terms, <<g.term, g.defs>>) \in Seq(Nat \X Seq(Nat)) /\ <<>> \in Seq(Nat) /\ 0 \in Nat
    BY <1>1
  <2>2. PICK k : k = Append(g.terms, <<g.term, g.defs>>)
    OBVIOUS
  <2>3. PICK d \in Seq(Nat) : d = <<>>
    BY <2>1
  <2>4. SaveTerm(g) = [g EXCEPT !.terms = k, !.term = 0, !.defs = d] /\ k \in Seq(Nat \X Seq(Nat))
    BY <1>3, <2>1, <2>2, <2>3 DEF SaveTerm, Nowhere
  <2>5. ASSUME NEW h \in GlossaryLines, NEW z \in Nat
        PROVE  /\ [h EXCEPT !.terms = k, !.term = z, !.defs = d] \in GlossaryLines
               /\ [h EXCEPT !.terms = k, !.term = z, !.defs = d].n = h.n
               /\ [h EXCEPT !.terms = k, !.term = z, !.defs = d].in = h.in
               /\ [h EXCEPT !.terms = k, !.term = z, !.defs = d].terms = k
    BY <2>4 DEF GlossaryLines
  <2>6. QED
    BY <1>3, <2>1, <2>2, <2>4, <2>5
<1>4. QED
  BY <1>2, <1>3

\* What parse_glossary returns when the text ends here.
LEMMA SaveTermIs ==
    ASSUME NEW lines, NEW g, TermsRead(lines, g)
    PROVE  Says(lines, SaveTerm(g).terms, TermsOf(lines))
<1>1. /\ g \in GlossaryLines /\ lines \in Seq(TermLines) /\ g.term = Open(lines)
      /\ g.term # 0 => ToSet(g.defs) = DefsOf(lines, g.term)
      /\ Says(lines, g.terms, TermsOf(lines) \ {g.term})
  BY DEF TermsRead
<1>2. g.term \in Nat /\ g.defs \in Seq(Nat)
  BY <1>1 DEF GlossaryLines
<1>3. g.term # 0 => g.term \in DOMAIN lines /\ IsTerm(lines, g.term)
  BY <1>1, OpenIs
<1>4. /\ TermsOf(lines) = {t \in DOMAIN lines : IsTerm(lines, t) /\ DefsOf(lines, t) # {}}
      /\ 0 \notin DOMAIN lines
  <2>1. TermsOf(lines) = {t \in DOMAIN lines : IsTerm(lines, t) /\ DefsOf(lines, t) # {}}
    BY DefsAre
  <2>2. 0 \notin DOMAIN lines
    BY <1>1
  <2>3. QED
    BY <2>1, <2>2
<1>5. CASE g.term = 0 \/ g.defs = <<>>
  <2>1. SaveTerm(g).terms = g.terms
    BY <1>1, <1>5, SaveTermShape
  <2>2. g.term \notin TermsOf(lines)
    <3>1. CASE g.term = 0
      BY <1>4, <3>1
    <3>2. CASE g.term # 0 /\ g.defs = <<>>
      <4>1. ToSet(g.defs) = {}
        BY <3>2 DEF ToSet
      <4>2. QED
        BY <1>1, <1>4, <3>2, <4>1
    <3>3. QED
      BY <1>5, <3>1, <3>2
  <2>3. TermsOf(lines) \ {g.term} = TermsOf(lines)
    BY <2>2
  <2>4. QED
    BY <1>1, <2>1, <2>3
<1>6. CASE ~(g.term = 0 \/ g.defs = <<>>)
  <2>1. SaveTerm(g).terms = Append(g.terms, <<g.term, g.defs>>)
    BY <1>1, <1>6, SaveTermShape
  <2>2. g.term \in TermsOf(lines)
    <3>1. ASSUME NEW s \in Seq(Nat), s # <<>>
          PROVE  1 \in DOMAIN s
      BY <3>1
    <3>2. ToSet(g.defs) # {}
      BY <1>2, <1>6, <3>1 DEF ToSet
    <3>3. QED
      BY <1>1, <1>3, <1>4, <1>6, <3>2
  <2>3. PICK all : all = TermsOf(lines) \ {g.term}
    OBVIOUS
  <2>4. PICK t \in Nat : t = g.term
    BY <1>2
  <2>5. PICK d \in Seq(Nat) : d = g.defs
    BY <1>2
  <2>6. Says(lines, g.terms, all) /\ t \notin all /\ ToSet(d) = DefsOf(lines, t)
    BY <1>1, <1>6, <2>3, <2>4, <2>5
  <2>7. Says(lines, Append(g.terms, <<t, d>>), all \cup {t})
    BY <2>6, OneMoreTerm
  <2>8. all \cup {t} = TermsOf(lines)
    BY <2>2, <2>3, <2>4
  <2>9. QED
    BY <2>1, <2>4, <2>5, <2>7, <2>8
<1>7. QED
  BY <1>5, <1>6

\* A line changes what is said of no term kept.
LEMMA SaysOn ==
    ASSUME NEW lines, NEW e, NEW terms, NEW all, Says(lines, terms, all), \A t \in all : DefsOf(e, t) = DefsOf(lines, t)
    PROVE  Says(e, terms, all)
<1>1. \A i \in DOMAIN terms : terms[i][1] \in all
  BY DEF Says
<1>2. QED
  BY <1>1 DEF Says

\* What a line changes of a record of GlossaryLines.
AtLine(h, k) == [h EXCEPT !.n = k]
Enters(h, b) == [h EXCEPT !.in = b]
Leaves(h, b, k) == [h EXCEPT !.in = b, !.term = k]
Opens(h, k, d) == [h EXCEPT !.term = k, !.defs = d]
Defining(h, d) == [h EXCEPT !.defs = d]


\* What parse_glossary does with each kind of line.
LEMMA GlossaryLineIs ==
    ASSUME NEW g \in GlossaryLines, NEW x \in TermLines, NEW k, k = g.n + 1
    PROVE  /\ k \in Nat
           /\ AtLine(g, k) \in GlossaryLines
           /\ x = "## Glossary" => GlossaryLine(g, x) = Enters(AtLine(g, k), TRUE)
           /\ x = "##" /\ g.in => GlossaryLine(g, x) = Leaves(SaveTerm(AtLine(g, k)), FALSE, 0)
           /\ x = "term" /\ g.in => GlossaryLine(g, x) = Opens(SaveTerm(AtLine(g, k)), k, <<>>)
           /\ x = "-" /\ g.in /\ g.term # 0 => GlossaryLine(g, x) = Defining(AtLine(g, k), Append(g.defs, k))
           /\ x \in {"##", "term", "-"} /\ ~g.in => GlossaryLine(g, x) = AtLine(g, k)
           /\ x = "-" /\ g.term = 0 => GlossaryLine(g, x) = AtLine(g, k)
<1>1. k \in Nat
  <2>1. g.n \in Nat
    BY DEF GlossaryLines
  <2>2. QED
    BY <2>1
<1>2. AtLine(g, k) \in GlossaryLines
  BY <1>1 DEF GlossaryLines, AtLine
<1>3. x = "## Glossary" => GlossaryLine(g, x) = Enters(AtLine(g, k), TRUE)
  BY DEF GlossaryLine, Nowhere, AtLine, Enters, Leaves, Opens
<1>4. x = "##" /\ g.in => GlossaryLine(g, x) = Leaves(SaveTerm(AtLine(g, k)), FALSE, 0)
  BY DEF GlossaryLine, Nowhere, AtLine, Enters, Leaves, Opens
<1>5. x = "term" /\ g.in => GlossaryLine(g, x) = Opens(SaveTerm(AtLine(g, k)), k, <<>>)
  BY DEF GlossaryLine, Nowhere, AtLine, Enters, Leaves, Opens
<1>6. x = "-" /\ g.in /\ g.term # 0 => GlossaryLine(g, x) = Defining(AtLine(g, k), Append(g.defs, k))
  <2>1. AtLine(g, k).defs = g.defs
    BY <1>1 DEF GlossaryLines, AtLine
  <2>2. x = "-" /\ g.in /\ g.term # 0 => GlossaryLine(g, x) = [AtLine(g, k) EXCEPT !.defs = Append(AtLine(g, k).defs, k)]
    BY DEF GlossaryLine, Nowhere, AtLine
  <2>3. QED
    BY <2>1, <2>2 DEF Defining
<1>7. x \in {"##", "term", "-"} /\ ~g.in => GlossaryLine(g, x) = AtLine(g, k)
  BY DEF GlossaryLine, Nowhere, AtLine, Enters, Leaves, Opens
<1>8. x = "-" /\ g.term = 0 => GlossaryLine(g, x) = AtLine(g, k)
  BY DEF GlossaryLine, Nowhere, AtLine, Enters, Leaves, Opens
<1>9. QED
  BY <1>1, <1>2, <1>3, <1>4, <1>5, <1>6, <1>7, <1>8

LEMMA TermFields ==
    ASSUME NEW h \in GlossaryLines
    PROVE  /\ \A k \in Nat :
                 AtLine(h, k) \in GlossaryLines /\ AtLine(h, k).n = k /\ AtLine(h, k).in = h.in /\ AtLine(h, k).term = h.term /\ AtLine(h, k).defs = h.defs /\ AtLine(h, k).terms = h.terms
           /\ \A b \in BOOLEAN :
                 Enters(h, b) \in GlossaryLines /\ Enters(h, b).n = h.n /\ Enters(h, b).in = b /\ Enters(h, b).term = h.term /\ Enters(h, b).defs = h.defs /\ Enters(h, b).terms = h.terms
           /\ \A b \in BOOLEAN, k \in Nat :
                 Leaves(h, b, k) \in GlossaryLines /\ Leaves(h, b, k).n = h.n /\ Leaves(h, b, k).in = b /\ Leaves(h, b, k).term = k /\ Leaves(h, b, k).terms = h.terms
           /\ \A k \in Nat, d \in Seq(Nat) :
                 Opens(h, k, d) \in GlossaryLines /\ Opens(h, k, d).n = h.n /\ Opens(h, k, d).in = h.in /\ Opens(h, k, d).term = k /\ Opens(h, k, d).defs = d /\ Opens(h, k, d).terms = h.terms
           /\ \A d \in Seq(Nat) :
                 Defining(h, d) \in GlossaryLines /\ Defining(h, d).n = h.n /\ Defining(h, d).in = h.in /\ Defining(h, d).term = h.term /\ Defining(h, d).defs = d /\ Defining(h, d).terms = h.terms
<1>1. \A k \in Nat :
         AtLine(h, k) \in GlossaryLines /\ AtLine(h, k).n = k /\ AtLine(h, k).in = h.in /\ AtLine(h, k).term = h.term /\ AtLine(h, k).defs = h.defs /\ AtLine(h, k).terms = h.terms
  BY DEF GlossaryLines, AtLine
<1>2. \A b \in BOOLEAN :
         Enters(h, b) \in GlossaryLines /\ Enters(h, b).n = h.n /\ Enters(h, b).in = b /\ Enters(h, b).term = h.term /\ Enters(h, b).defs = h.defs /\ Enters(h, b).terms = h.terms
  BY DEF GlossaryLines, Enters
<1>3. \A b \in BOOLEAN, k \in Nat :
         Leaves(h, b, k) \in GlossaryLines /\ Leaves(h, b, k).n = h.n /\ Leaves(h, b, k).in = b /\ Leaves(h, b, k).term = k /\ Leaves(h, b, k).terms = h.terms
  BY DEF GlossaryLines, Leaves
<1>4. \A k \in Nat, d \in Seq(Nat) :
         Opens(h, k, d) \in GlossaryLines /\ Opens(h, k, d).n = h.n /\ Opens(h, k, d).in = h.in /\ Opens(h, k, d).term = k /\ Opens(h, k, d).defs = d /\ Opens(h, k, d).terms = h.terms
  BY DEF GlossaryLines, Opens
<1>5. \A d \in Seq(Nat) :
         Defining(h, d) \in GlossaryLines /\ Defining(h, d).n = h.n /\ Defining(h, d).in = h.in /\ Defining(h, d).term = h.term /\ Defining(h, d).defs = d /\ Defining(h, d).terms = h.terms
  BY DEF GlossaryLines, Defining
<1>6. QED
  BY <1>1, <1>2, <1>3, <1>4, <1>5

\* A definition more of the term that is open.
LEMMA OneMoreDefinition ==
    ASSUME NEW defs \in Seq(Nat), NEW k \in Nat
    PROVE  Append(defs, k) \in Seq(Nat) /\ ToSet(Append(defs, k)) = ToSet(defs) \cup {k}
<1>1. PICK more : more = Append(defs, k)
  OBVIOUS
<1>2. PICK n \in Nat : n = Len(defs)
  OBVIOUS
<1>3. /\ more \in Seq(Nat) /\ DOMAIN more = 1..(n + 1) /\ DOMAIN defs = 1..n
      /\ more[n + 1] = k /\ \A i \in 1..n : more[i] = defs[i]
  BY <1>1, <1>2
<1>4. DOMAIN more = DOMAIN defs \cup {n + 1}
  BY <1>3
<1>5. ToSet(more) = ToSet(defs) \cup {k}
  <2>1. ToSet(more) = {more[i] : i \in DOMAIN more} /\ ToSet(defs) = {defs[i] : i \in DOMAIN defs}
    BY DEF ToSet
  <2>2. \A i \in DOMAIN defs : more[i] = defs[i]
    BY <1>3
  <2>3. QED
    BY <1>3, <1>4, <2>1, <2>2
<1>6. QED
  BY <1>1, <1>3, <1>5

\* A line after which the terms kept, and the one that is open, are those of before.
LEMMA NothingNew ==
    ASSUME NEW lines, NEW g, TermsRead(lines, g), NEW e, NEW r, e \in Seq(TermLines),
           r \in GlossaryLines, r.n = Len(e), r.in <=> InNow(e), r.term = g.term, r.defs = g.defs, r.terms = g.terms,
           Open(e) = g.term, TermsOf(e) = TermsOf(lines), \A t : DefsOf(e, t) = DefsOf(lines, t)
    PROVE  TermsRead(e, r)
<1>1. /\ g.term # 0 => ToSet(g.defs) = DefsOf(lines, g.term)
      /\ Says(lines, g.terms, TermsOf(lines) \ {g.term})
  BY DEF TermsRead
<1>2. Says(e, g.terms, TermsOf(lines) \ {g.term})
  BY <1>1, SaysOn
<1>3. QED
  BY <1>1, <1>2 DEF TermsRead

\* A line after which the term that was open is kept, and t is open, or nothing.
LEMMA TermSaved ==
    ASSUME NEW lines, NEW g, TermsRead(lines, g), NEW e, NEW r, e \in Seq(TermLines),
           r \in GlossaryLines, r.n = Len(e), r.in <=> InNow(e), r.terms = SaveTerm(g).terms, Open(e) = r.term,
           r.term # 0 => r.defs = <<>>, DefsOf(lines, r.term) = {} \/ r.term = 0,
           r.term \notin TermsOf(lines), TermsOf(e) = TermsOf(lines), \A t : DefsOf(e, t) = DefsOf(lines, t)
    PROVE  TermsRead(e, r)
<1>1. Says(lines, SaveTerm(g).terms, TermsOf(lines))
  BY SaveTermIs
<1>2. Says(e, r.terms, TermsOf(e) \ {r.term})
  <2>1. TermsOf(e) \ {r.term} = TermsOf(lines)
    OBVIOUS
  <2>2. Says(e, SaveTerm(g).terms, TermsOf(lines))
    BY <1>1, SaysOn
  <2>3. QED
    BY <2>1, <2>2
<1>3. r.term # 0 => ToSet(r.defs) = DefsOf(e, r.term)
  <2>1. ToSet(<<>>) = {}
    BY DEF ToSet
  <2>2. QED
    BY <2>1
<1>4. QED
  BY <1>2, <1>3 DEF TermsRead

(* What parse_glossary has stands one line further.                         *)
LEMMA TermsReadOn ==
    ASSUME NEW lines, NEW g, NEW x \in TermLines, TermsRead(lines, g)
    PROVE  TermsRead(Append(lines, x), GlossaryLine(g, x))
<1>1. PICK e : e = Append(lines, x)
  OBVIOUS
<1>2. /\ g \in GlossaryLines /\ lines \in Seq(TermLines) /\ g.n = Len(lines) /\ (g.in <=> InNow(lines))
      /\ g.term = Open(lines)
      /\ g.term # 0 => ToSet(g.defs) = DefsOf(lines, g.term)
      /\ Says(lines, g.terms, TermsOf(lines) \ {g.term})
  BY DEF TermsRead
<1>3. OneTermLine(lines, x, e)
  BY <1>1, <1>2 DEF OneTermLine
<1>4. /\ e \in Seq(TermLines) /\ Len(e) = Len(lines) + 1 /\ Len(lines) \in Nat
      /\ x = "## Glossary" => InNow(e)
      /\ x = "##" => ~InNow(e)
      /\ x \in {"term", "-"} => (InNow(e) <=> InNow(lines))
  BY <1>3, GlossaryNext
<1>5. /\ x = "##" => Open(e) = 0
      /\ x = "term" => Open(e) = IF InNow(lines) THEN Len(e) ELSE 0
      /\ x \in {"## Glossary", "-"} => Open(e) = Open(lines)
  BY <1>3, OpenNext
<1>6. /\ \A t : DefsOf(e, t) = DefsOf(lines, t) \cup (IF x = "-" /\ InNow(lines) /\ LastTerm(lines) = t THEN {Len(e)} ELSE {})
      /\ TermsOf(e) = IF x = "-" /\ Open(lines) # 0 THEN TermsOf(lines) \cup {Open(lines)} ELSE TermsOf(lines)
      /\ DefsOf(lines, Len(e)) = {} /\ Len(e) \notin TermsOf(lines) /\ 0 \notin TermsOf(lines)
  BY <1>3, DefsNext
<1>7. PICK k : k = g.n + 1
  OBVIOUS
<1>8. k \in Nat /\ k = Len(e) /\ k # 0
  <2>1. g.n = Len(lines) /\ Len(e) = Len(lines) + 1 /\ Len(lines) \in Nat
    BY <1>2, <1>4
  <2>2. QED
    BY <1>7, <2>1
<1>9. PICK h : h = AtLine(g, k)
  OBVIOUS
<1>10. /\ h \in GlossaryLines
       /\ h.n = k /\ h.in = g.in /\ h.term = g.term /\ h.defs = g.defs /\ h.terms = g.terms
  <2>1. g \in GlossaryLines
    BY <1>2
  <2>2. \A j \in Nat :
         AtLine(g, j) \in GlossaryLines /\ AtLine(g, j).n = j /\ AtLine(g, j).in = g.in /\ AtLine(g, j).term = g.term /\ AtLine(g, j).defs = g.defs /\ AtLine(g, j).terms = g.terms
    BY <2>1, TermFields
  <2>3. QED
    BY <1>8, <1>9, <2>2
<1>11. /\ x = "## Glossary" => GlossaryLine(g, x) = Enters(h, TRUE)
       /\ x = "##" /\ g.in => GlossaryLine(g, x) = Leaves(SaveTerm(h), FALSE, 0)
       /\ x = "term" /\ g.in => GlossaryLine(g, x) = Opens(SaveTerm(h), k, <<>>)
       /\ x = "-" /\ g.in /\ g.term # 0 => GlossaryLine(g, x) = Defining(h, Append(g.defs, k))
       /\ x \in {"##", "term", "-"} /\ ~g.in => GlossaryLine(g, x) = h
       /\ x = "-" /\ g.term = 0 => GlossaryLine(g, x) = h
  <2>1. g \in GlossaryLines
    BY <1>2
  <2>2. /\ k \in Nat
        /\ AtLine(g, k) \in GlossaryLines
        /\ x = "## Glossary" => GlossaryLine(g, x) = Enters(AtLine(g, k), TRUE)
        /\ x = "##" /\ g.in => GlossaryLine(g, x) = Leaves(SaveTerm(AtLine(g, k)), FALSE, 0)
        /\ x = "term" /\ g.in => GlossaryLine(g, x) = Opens(SaveTerm(AtLine(g, k)), k, <<>>)
        /\ x = "-" /\ g.in /\ g.term # 0 => GlossaryLine(g, x) = Defining(AtLine(g, k), Append(g.defs, k))
        /\ x \in {"##", "term", "-"} /\ ~g.in => GlossaryLine(g, x) = AtLine(g, k)
        /\ x = "-" /\ g.term = 0 => GlossaryLine(g, x) = AtLine(g, k)
    BY <1>7, <2>1, GlossaryLineIs
  <2>3. QED
    BY <1>9, <2>2
<1>12. g.term # 0 => InNow(lines) /\ g.term = LastTerm(lines) /\ g.in
  BY <1>2, OpenIs
<1>13. /\ SaveTerm(h) \in GlossaryLines /\ SaveTerm(h).n = k /\ SaveTerm(h).in = g.in
       /\ SaveTerm(h).terms = SaveTerm(g).terms
  <2>1. /\ SaveTerm(h) \in GlossaryLines /\ SaveTerm(h).n = h.n /\ SaveTerm(h).in = h.in
        /\ SaveTerm(h).terms = IF h.term = 0 \/ h.defs = <<>> THEN h.terms ELSE Append(h.terms, <<h.term, h.defs>>)
    BY <1>10, SaveTermShape
  <2>2. SaveTerm(g).terms = IF g.term = 0 \/ g.defs = <<>> THEN g.terms ELSE Append(g.terms, <<g.term, g.defs>>)
    BY <1>2, SaveTermShape
  <2>3. QED
    BY <1>10, <2>1, <2>2
<1>14. <<>> \in Seq(Nat) /\ TRUE \in BOOLEAN /\ FALSE \in BOOLEAN /\ 0 \in Nat
  OBVIOUS
<1>15. x # "-" => TermsOf(e) = TermsOf(lines) /\ \A t : DefsOf(e, t) = DefsOf(lines, t)
  BY <1>6
<1>16. CASE x = "## Glossary"
  <2>1. PICK r : r = Enters(h, TRUE)
    OBVIOUS
  <2>2. /\ r \in GlossaryLines /\ r.n = k /\ r.in = TRUE /\ r.term = g.term /\ r.defs = g.defs /\ r.terms = g.terms
    BY <1>10, <1>14, <2>1, TermFields
  <2>3. Open(e) = g.term /\ InNow(e) /\ x # "-"
    BY <1>2, <1>4, <1>5, <1>16
  <2>4. TermsOf(e) = TermsOf(lines) /\ \A t : DefsOf(e, t) = DefsOf(lines, t)
    BY <1>15, <2>3
  <2>5. TermsRead(e, r)
    BY <1>4, <1>8, <2>2, <2>3, <2>4, NothingNew
  <2>6. QED
    BY <1>1, <1>11, <1>16, <2>1, <2>5
<1>17. CASE x = "##" /\ g.in
  <2>1. PICK r : r = Leaves(SaveTerm(h), FALSE, 0)
    OBVIOUS
  <2>2. /\ r \in GlossaryLines /\ r.n = k /\ r.in = FALSE /\ r.term = 0 /\ r.terms = SaveTerm(g).terms
    <3>1. \A b \in BOOLEAN, j \in Nat :
            Leaves(SaveTerm(h), b, j) \in GlossaryLines /\ Leaves(SaveTerm(h), b, j).n = SaveTerm(h).n /\ Leaves(SaveTerm(h), b, j).in = b /\ Leaves(SaveTerm(h), b, j).term = j /\ Leaves(SaveTerm(h), b, j).terms = SaveTerm(h).terms
      BY <1>13, TermFields
    <3>2. QED
      BY <1>13, <1>14, <2>1, <3>1
  <2>3. Open(e) = 0 /\ ~InNow(e) /\ x # "-"
    BY <1>4, <1>5, <1>17
  <2>4. TermsOf(e) = TermsOf(lines) /\ \A t : DefsOf(e, t) = DefsOf(lines, t)
    BY <1>15, <2>3
  <2>5. TermsRead(e, r)
    BY <1>4, <1>6, <1>8, <2>2, <2>3, <2>4, TermSaved
  <2>6. QED
    BY <1>1, <1>11, <1>17, <2>1, <2>5
<1>18. CASE x = "term" /\ g.in
  <2>1. PICK r : r = Opens(SaveTerm(h), k, <<>>)
    OBVIOUS
  <2>2. /\ r \in GlossaryLines /\ r.n = k /\ r.in = g.in /\ r.term = k /\ r.defs = <<>> /\ r.terms = SaveTerm(g).terms
    <3>1. \A j \in Nat, d \in Seq(Nat) :
            Opens(SaveTerm(h), j, d) \in GlossaryLines /\ Opens(SaveTerm(h), j, d).n = SaveTerm(h).n /\ Opens(SaveTerm(h), j, d).in = SaveTerm(h).in /\ Opens(SaveTerm(h), j, d).term = j /\ Opens(SaveTerm(h), j, d).defs = d /\ Opens(SaveTerm(h), j, d).terms = SaveTerm(h).terms
      BY <1>13, TermFields
    <3>2. QED
      BY <1>8, <1>13, <1>14, <2>1, <3>1
  <2>3. Open(e) = Len(e) /\ (g.in <=> InNow(e)) /\ x # "-"
    BY <1>2, <1>4, <1>5, <1>18
  <2>4. TermsOf(e) = TermsOf(lines) /\ \A t : DefsOf(e, t) = DefsOf(lines, t)
    BY <1>15, <2>3
  <2>5. TermsRead(e, r)
    <3>1. e \in Seq(TermLines)
      BY <1>4
    <3>2. r.n = Len(e) /\ (r.in <=> InNow(e)) /\ Open(e) = r.term
      BY <1>8, <2>2, <2>3
    <3>3. DefsOf(lines, r.term) = {} /\ r.term \notin TermsOf(lines)
      BY <1>6, <1>8, <2>2
    <3>4. QED
      BY <2>2, <2>4, <3>1, <3>2, <3>3, TermSaved
  <2>6. QED
    BY <1>1, <1>11, <1>18, <2>1, <2>5
<1>19. CASE x = "-" /\ g.in /\ g.term # 0
  <2>1. g.defs \in Seq(Nat)
    BY <1>2 DEF GlossaryLines
  <2>2. PICK d : d = Append(g.defs, k)
    OBVIOUS
  <2>3. d \in Seq(Nat) /\ ToSet(d) = ToSet(g.defs) \cup {k}
    BY <1>8, <2>1, <2>2, OneMoreDefinition
  <2>4. PICK r : r = Defining(h, d)
    OBVIOUS
  <2>5. /\ r \in GlossaryLines /\ r.n = k /\ r.in = g.in /\ r.term = g.term /\ r.defs = d /\ r.terms = g.terms
    <3>1. \A f \in Seq(Nat) :
            Defining(h, f) \in GlossaryLines /\ Defining(h, f).n = h.n /\ Defining(h, f).in = h.in /\ Defining(h, f).term = h.term /\ Defining(h, f).defs = f /\ Defining(h, f).terms = h.terms
      BY <1>10, TermFields
    <3>2. QED
      BY <1>10, <2>3, <2>4, <3>1
  <2>6. GlossaryLine(g, x) = r
    BY <1>11, <1>19, <2>2, <2>4
  <2>7. Open(e) = g.term /\ (g.in <=> InNow(e))
    BY <1>2, <1>4, <1>5, <1>19
  <2>8. \A t : DefsOf(e, t) = DefsOf(lines, t) \cup (IF g.term = t THEN {k} ELSE {})
    BY <1>6, <1>8, <1>12, <1>19
  <2>9. TermsOf(e) = TermsOf(lines) \cup {g.term}
    BY <1>2, <1>6, <1>19
  <2>10. TermsOf(e) \ {g.term} = TermsOf(lines) \ {g.term}
    BY <2>9
  <2>11. ToSet(d) = DefsOf(e, g.term)
    <3>1. ToSet(g.defs) = DefsOf(lines, g.term)
      BY <1>2, <1>19
    <3>2. DefsOf(e, g.term) = DefsOf(lines, g.term) \cup {k}
      BY <2>8
    <3>3. QED
      BY <2>3, <3>1, <3>2
  <2>12. Says(e, g.terms, TermsOf(e) \ {g.term})
    <3>1. PICK all : all = TermsOf(lines) \ {g.term}
      OBVIOUS
    <3>2. \A t \in all : DefsOf(e, t) = DefsOf(lines, t)
      BY <2>8, <3>1
    <3>3. Says(e, g.terms, all)
      BY <1>2, <3>1, <3>2, SaysOn
    <3>4. QED
      BY <2>10, <3>1, <3>3
  <2>13. TermsRead(e, r)
    BY <1>4, <1>8, <2>5, <2>7, <2>11, <2>12 DEF TermsRead
  <2>14. QED
    BY <1>1, <2>6, <2>13
<1>20. CASE (x \in {"##", "term", "-"} /\ ~g.in) \/ (x = "-" /\ g.term = 0)
  <2>1. GlossaryLine(g, x) = h
    BY <1>11, <1>20
  <2>2. g.term = 0
    BY <1>12, <1>20
  <2>3. Open(e) = g.term /\ (h.in <=> InNow(e))
    BY <1>2, <1>4, <1>5, <1>10, <1>20, <2>2
  <2>4. TermsOf(e) = TermsOf(lines)
    BY <1>2, <1>6, <2>2
  <2>5. ASSUME NEW t \in TermsOf(lines)
        PROVE  DefsOf(e, t) = DefsOf(lines, t)
    <3>1. IsTerm(lines, t) /\ t # 0
      BY <1>6, DefsAre
    <3>2. LastTerm(lines) # t
      BY <1>2, <2>2, <3>1 DEF Open
    <3>3. QED
      BY <1>6, <3>2
  <2>6. Says(e, g.terms, TermsOf(e) \ {g.term})
    <3>1. TermsOf(e) \ {g.term} = TermsOf(lines) \ {g.term}
      BY <2>4
    <3>2. \A t \in TermsOf(lines) \ {g.term} : DefsOf(e, t) = DefsOf(lines, t)
      BY <2>5
    <3>3. Says(e, g.terms, TermsOf(lines) \ {g.term})
      BY <1>2, <3>2, SaysOn
    <3>4. QED
      BY <3>1, <3>3
  <2>7. TermsRead(e, h)
    BY <1>4, <1>8, <1>10, <2>2, <2>3, <2>6 DEF TermsRead
  <2>8. QED
    BY <1>1, <2>1, <2>7
<1>21. QED
  BY <1>16, <1>17, <1>18, <1>19, <1>20 DEF TermLines

LEMMA TermsReadNothing == TermsRead(<<>>, NoTerms)
<1>1. PICK e : e = <<>>
  OBVIOUS
<1>2. e \in Seq(TermLines) /\ Len(e) = 0 /\ DOMAIN e = {} /\ e \in Seq(Nat) /\ e \in Seq(Nat \X Seq(Nat))
  BY <1>1
<1>3. LastTerm(e) = 0 /\ KindAt(e, 0) = "" /\ LastOf(e, 0, {"## Glossary", "##"}) = 0
  <2>1. ASSUME NEW kinds
        PROVE  LastOf(e, 0, kinds) = 0
    <3>1. LastOf(e, 0, kinds) \in 0..0
      BY LastOfIs
    <3>2. QED
      BY <3>1
  <2>2. QED
    BY <1>2, <2>1 DEF LastTerm, Latest, KindAt
<1>4. Open(e) = 0 /\ ~InNow(e)
  <2>1. "" # "## Glossary"
    OBVIOUS
  <2>2. QED
    BY <1>2, <1>3, <2>1 DEF Open, InNow, InGlossary
<1>5. NoTerms = [n |-> 0, in |-> FALSE, term |-> 0, defs |-> e, terms |-> e]
  BY <1>1 DEF NoTerms, Nowhere
<1>6. /\ NoTerms \in GlossaryLines /\ NoTerms.n = 0 /\ NoTerms.in = FALSE /\ NoTerms.term = 0 /\ NoTerms.terms = e
  BY <1>2, <1>5 DEF GlossaryLines
<1>7. TermsOf(e) = {}
  BY <1>2, DefsAre
<1>8. Says(e, e, {})
  BY <1>2 DEF Says, IsInjective
<1>9. QED
  BY <1>1, <1>2, <1>4, <1>6, <1>7, <1>8 DEF TermsRead

-----------------------------------------------------------------------------
(* The run: the shape's first element says what it is, the rest are lines.  *)
Words == Writable \cup TermLines \cup {"intent", "terms"}

(* The inductive invariant: the lines read so far went where they are       *)
(* written, and the reader stands where the next one belongs.               *)
FilesRead ==
    /\ shape \in Seq(Words) /\ shape # <<>>
    /\ Family = "intent" => Read(Tail(shape), intent)
    /\ Family = "terms" => TermsRead(Tail(shape), glossary)

LEMMA OneWordMore ==
    ASSUME NEW S, NEW s \in Seq(S), s # <<>>, NEW x \in S
    PROVE  /\ Append(s, x) \in Seq(S) /\ Append(s, x) # <<>>
           /\ Append(s, x)[1] = s[1] /\ Tail(Append(s, x)) = Append(Tail(s), x)
<1>1. Tail(Append(s, x)) = Append(Tail(s), x)
  BY HeadTailAppend
<1>2. Append(s, x) \in Seq(S) /\ Append(s, x) # <<>> /\ Append(s, x)[1] = s[1]
  OBVIOUS
<1>3. QED
  BY <1>1, <1>2

LEMMA FilesReadFirst ==
    ASSUME shape \in IntentFileStarts, NothingRead
    PROVE  FilesRead
<1>1. intent = Unread /\ glossary = NoTerms
  BY DEF NothingRead
<1>2. ASSUME NEW w \in Words
      PROVE  <<w>> \in Seq(Words) /\ <<w>> # <<>> /\ <<w>>[1] = w /\ Tail(<<w>>) = <<>>
  OBVIOUS
<1>3. "intent" \in Words /\ "terms" \in Words
  BY DEF Words
<1>4. PICK w \in Words : shape = <<w>>
  BY <1>3 DEF IntentFileStarts
<1>5. shape \in Seq(Words) /\ shape # <<>> /\ Tail(shape) = <<>>
  BY <1>2, <1>4
<1>6. QED
  BY <1>1, <1>5, ReadNothing, TermsReadNothing DEF FilesRead

\* A line of an intent file more.
LEMMA FilesReadLine ==
    ASSUME FilesRead, Family = "intent", NEW line \in Written(Tail(shape)), Piece(line), ReadLine(line)
    PROVE  FilesRead'
<1>1. PICK doc : doc = Tail(shape)
  OBVIOUS
<1>2. Read(doc, intent) /\ shape \in Seq(Words) /\ shape # <<>>
  BY <1>1 DEF FilesRead
<1>3. doc \in Seq(Writable) /\ Fits(doc) /\ line \in Written(doc)
  BY <1>1, <1>2 DEF Read
<1>4. line \in Writable
  BY <1>3, WrittenAllowed
<1>5. line \in Words
  BY <1>4 DEF Words
<1>6. shape' = Append(shape, line) /\ intent' = ParseLine(intent, line)
  BY DEF Piece, ReadLine
<1>7. Read(Append(doc, line), ParseLine(intent, line))
  BY <1>2, <1>3, ReadOn
<1>8. /\ shape' \in Seq(Words) /\ shape' # <<>>
      /\ shape'[1] = shape[1] /\ Tail(shape') = Append(doc, line)
  BY <1>1, <1>2, <1>5, <1>6, OneWordMore
<1>9. Read(Tail(shape'), intent')
  BY <1>6, <1>7, <1>8
<1>10. Family' # "terms"
  BY <1>8 DEF Family
<1>11. QED
  BY <1>8, <1>9, <1>10 DEF FilesRead

\* A line of a glossary more.
LEMMA FilesReadTerm ==
    ASSUME FilesRead, Family = "terms", NEW line \in TermLines, Piece(line), ReadGlossaryLine(line)
    PROVE  FilesRead'
<1>1. PICK lines : lines = Tail(shape)
  OBVIOUS
<1>2. TermsRead(lines, glossary) /\ shape \in Seq(Words) /\ shape # <<>>
  BY <1>1 DEF FilesRead
<1>3. line \in Words
  BY DEF Words
<1>4. shape' = Append(shape, line) /\ glossary' = GlossaryLine(glossary, line)
  BY DEF Piece, ReadGlossaryLine
<1>5. TermsRead(Append(lines, line), GlossaryLine(glossary, line))
  BY <1>2, TermsReadOn
<1>6. /\ shape' \in Seq(Words) /\ shape' # <<>>
      /\ shape'[1] = shape[1] /\ Tail(shape') = Append(lines, line)
  BY <1>1, <1>2, <1>3, <1>4, OneWordMore
<1>7. TermsRead(Tail(shape'), glossary')
  BY <1>4, <1>5, <1>6
<1>8. Family' # "intent"
  BY <1>6 DEF Family
<1>9. QED
  BY <1>6, <1>7, <1>8 DEF FilesRead

(* However an intent file or a glossary goes on, what was read of it so far *)
(* went where it is written, and the reader (the state parse_content and    *)
(* parse_glossary keep between lines) stands where the next line belongs.   *)
THEOREM IntentFilesReadInOrder == IntentFileSpec => []FilesRead
<1>1. shape \in IntentFileStarts /\ NothingRead => FilesRead
  BY FilesReadFirst
<1>2. FilesRead /\ [IntentFileGrows]_<<shape, intent, glossary>> => FilesRead'
  <2> SUFFICES ASSUME FilesRead, [IntentFileGrows]_<<shape, intent, glossary>>
               PROVE  FilesRead'
    OBVIOUS
  <2>1. ASSUME Family = "intent", NEW line \in Written(Tail(shape)), Piece(line), ReadLine(line)
        PROVE  FilesRead'
    BY <2>1, FilesReadLine
  <2>2. ASSUME Family = "terms", NEW line \in TermLines, Piece(line), ReadGlossaryLine(line)
        PROVE  FilesRead'
    BY <2>2, FilesReadTerm
  <2>3. CASE UNCHANGED <<shape, intent, glossary>>
    BY <2>3 DEF FilesRead, Family
  <2>4. QED
    BY <2>1, <2>2, <2>3 DEF IntentFileGrows, TermLines
<1>3. QED
  BY <1>1, <1>2, PTL DEF IntentFileSpec

LEMMA ReadLands ==
    ASSUME FilesRead
    PROVE  LinesLandInTheirSection
<1> SUFFICES ASSUME Family = "intent"
             PROVE  LET doc == Tail(shape)
                    IN /\ \A n \in DOMAIN doc :
                             Sound(doc, n - 1) => (Content.owner[n] = WrittenIn(doc, n) <=> ~Mislaid(doc, n))
                       /\ Sound(doc, Len(doc)) =>
                             /\ ToSet(Content.kept) = Sections(doc) \ Lost(doc)
                             /\ IsInjective(Content.kept)
  BY DEF LinesLandInTheirSection
<1> DEFINE doc == Tail(shape)
<1>1. Read(doc, intent)
  BY DEF FilesRead
<1> HIDE DEF doc
<1>2. intent \in Lines /\ OwnersAre(doc, intent) /\ (Sound(doc, Len(doc)) => Stands(doc, intent))
  BY <1>1 DEF Read
<1>3. /\ Content.owner = intent.owner
      /\ \A all : Holds(intent, all) /\ Nested(intent) => ToSet(Content.kept) = all /\ IsInjective(Content.kept)
  BY <1>2, FinishIs DEF Content
<1>4. \A n \in DOMAIN doc : Sound(doc, n - 1) => (Content.owner[n] = WrittenIn(doc, n) <=> ~Mislaid(doc, n))
  BY <1>2, <1>3 DEF OwnersAre
<1>5. Sound(doc, Len(doc)) => ToSet(Content.kept) = Sections(doc) \ Lost(doc) /\ IsInjective(Content.kept)
  BY <1>2, <1>3 DEF Stands, Keeps, All
<1>6. QED
  BY <1>4, <1>5 DEF doc

LEMMA ReadTerms ==
    ASSUME FilesRead
    PROVE  TermsKeepTheirDefinitions
<1>1. Family = "terms" => TermsRead(Tail(shape), glossary)
  BY DEF FilesRead
<1>2. Family = "terms" => Says(Tail(shape), SaveTerm(glossary).terms, TermsOf(Tail(shape)))
  BY <1>1, SaveTermIs
<1>3. QED
  BY <1>2 DEF TermsKeepTheirDefinitions, Says, Terms

(* Every line of an intent file, whatever its length, goes to the section   *)
(* it is written in, unless it or a line before is one the exceptions name; *)
(* and every section is in the result once, but for what a component drops  *)
(* (IntentFile::parse_content).                                             *)
THEOREM EveryLineLands == IntentFileSpec => []LinesLandInTheirSection
<1>1. IntentFileSpec => []FilesRead
  BY IntentFilesReadInOrder
<1>2. FilesRead => LinesLandInTheirSection
  BY ReadLands
<1>3. QED
  BY <1>1, <1>2, PTL

(* Every term with a definition is kept once, with the definitions written  *)
(* under it, in a glossary of any length (parse_glossary).                  *)
THEOREM EveryTermIsDefined == IntentFileSpec => []TermsKeepTheirDefinitions
<1>1. IntentFileSpec => []FilesRead
  BY IntentFilesReadInOrder
<1>2. FilesRead => TermsKeepTheirDefinitions
  BY ReadTerms
<1>3. QED
  BY <1>1, <1>2, PTL

(* What is written in an intent file or a glossary of any length is found   *)
(* where it was written in what the two readers return of it.               *)
THEOREM FilesKeepLines == IntentFileSpec => []IntentFilesKeepLines
<1>1. IntentFileSpec => []LinesLandInTheirSection
  BY EveryLineLands
<1>2. IntentFileSpec => []TermsKeepTheirDefinitions
  BY EveryTermIsDefined
<1>3. LinesLandInTheirSection /\ TermsKeepTheirDefinitions => IntentFilesKeepLines
  BY DEF IntentFilesKeepLines
<1>4. QED
  BY <1>1, <1>2, <1>3, PTL
=============================================================================
