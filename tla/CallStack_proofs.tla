--------------------------- MODULE CallStack_proofs ---------------------------
(***************************************************************************)
(* The safety properties of entering and leaving functions and blocks,     *)
(* proved for any number and depth of activations and of defer statements, *)
(* with and without errors.                                                *)
(***************************************************************************)
EXTENDS CallStackProps, SequenceTheorems, WellFoundedInduction, TLAPS

(***************************************************************************)
(* The inductive invariant, part by part. Its parts are of a stack fs and  *)
(* of a list rs of expressions that ran, so that a deferred expression and *)
(* the call it makes, one step of the interpreter, are two of the proof.   *)
(***************************************************************************)
TypeInv(fs, rs) ==
    /\ fs \in Seq(Frames) /\ Len(fs) <= MaxDepth
    /\ made \in 0..MaxFrames
    /\ env \in 0..made
    /\ deferrer \in Seq(1..made) /\ Len(deferrer) <= MaxDefers
    /\ deferred \in Seq(DOMAIN deferrer)
    /\ old \in 0..made
    /\ rs \in Seq([id : DOMAIN deferrer, by : 1..made])
    /\ abandoned \subseteq 1..made

\* Activations are numbered as they are entered, and none on the stack was
\* abandoned; what each found deferred is still deferred; a block has no
\* contract to check; only an activation that is running its deferred
\* expressions holds any, and what it called to run one may end in an error.
FramesInv(fs) ==
    /\ \A i \in DOMAIN fs :
         /\ fs[i].id \in 1..made /\ fs[i].id \notin abandoned
         /\ fs[i].previous <= made
         /\ fs[i].base <= Len(deferred)
         /\ fs[i].kind = "block" => ~fs[i].contract /\ fs[i].phase \in {"body", "defers"}
         /\ fs[i].phase # "defers" => fs[i].todo = <<>>
         /\ fs[i].phase = "defers" /\ i # Len(fs) => fs[i + 1].swallow
    /\ \A i, j \in DOMAIN fs :
         i < j => fs[i].id < fs[j].id /\ fs[i].base <= fs[j].base

\* The scope of an activation is that of the one below, or was left in place by
\* an error.
ScopeOf(fs, k) == IF k = 0 THEN 0 ELSE fs[k].id
ScopeInv(fs) ==
    /\ \A i \in DOMAIN fs : fs[i].previous = ScopeOf(fs, i - 1) \/ fs[i].previous \in abandoned
    /\ env = ScopeOf(fs, Len(fs)) \/ env \in abandoned

\* Whoever has a function above it since its body began has called one; the old
\* values are those of the activation that has a contract and called none.
OldInv(fs) ==
    /\ \A i, j \in DOMAIN fs :
         i < j /\ fs[j].kind = "function" /\ fs[i].phase # "pre" => fs[i].calls
    /\ \A i \in DOMAIN fs :
         fs[i].contract /\ fs[i].phase # "pre" /\ ~fs[i].calls => old = fs[i].id

\* Deferred expressions are kept in the order they were deferred in, each in one
\* place: on the stack of deferred expressions, with the activation that took it
\* from there, or among those that ran.
Increasing(s) == \A p, q \in DOMAIN s : p < q => s[p] < s[q]
Holds(s, d) == \E p \in DOMAIN s : s[p] = d
PlacesInv(fs, rs) ==
    /\ Increasing(deferred)
    /\ \A i \in DOMAIN fs :
         /\ fs[i].todo \in Seq(DOMAIN deferrer)
         /\ Increasing(fs[i].todo)
    /\ \A i \in DOMAIN fs, d \in DOMAIN deferrer : ~(Holds(deferred, d) /\ Holds(fs[i].todo, d))
    /\ \A i, j \in DOMAIN fs, d \in DOMAIN deferrer : i # j => ~(Holds(fs[i].todo, d) /\ Holds(fs[j].todo, d))
    /\ \A r \in DOMAIN rs : ~Holds(deferred, rs[r].id) /\ \A i \in DOMAIN fs : ~Holds(fs[i].todo, rs[r].id)

\* What was deferred by an activation on the stack lies above what that
\* activation found, and below what the next one found; the rest was left behind
\* by errors. An activation takes its own, and what errors left above it.
OwnersInv(fs) ==
    /\ \A p \in DOMAIN deferred :
         \/ deferrer[deferred[p]] \in abandoned
         \/ \E i \in DOMAIN fs :
              /\ fs[i].id = deferrer[deferred[p]] /\ fs[i].phase = "body"
              /\ fs[i].base < p
              /\ i # Len(fs) => p <= fs[i + 1].base
    /\ \A i \in DOMAIN fs : \A q \in DOMAIN fs[i].todo :
         deferrer[fs[i].todo[q]] = fs[i].id \/ deferrer[fs[i].todo[q]] \in abandoned

\* An activation that ran a deferred expression is past its body, and has only
\* earlier ones left.
RanInv(fs, rs) ==
    \A r \in DOMAIN rs, i \in DOMAIN fs :
        rs[r].by = fs[i].id =>
            /\ fs[i].phase \in {"defers", "post"}
            /\ \A q \in DOMAIN fs[i].todo : fs[i].todo[q] < rs[r].id

\* LostByErrorsOnly and LastInFirstOut.
Ran(rs, d) == \E r \in DOMAIN rs : rs[r].id = d
KeptInv(fs, rs) ==
    \A d \in DOMAIN deferrer :
        \/ Ran(rs, d)
        \/ /\ Holds(deferred, d) \/ \E i \in DOMAIN fs : Holds(fs[i].todo, d)
           /\ deferrer[d] \in abandoned \/ \E i \in DOMAIN fs : fs[i].id = deferrer[d]
OrderInv(rs) ==
    /\ \A r, s \in DOMAIN rs : rs[r].id = rs[s].id => r = s
    /\ \A r, s \in DOMAIN rs : r < s /\ rs[r].by = rs[s].by => rs[s].id < rs[r].id
    /\ \A r \in DOMAIN rs : deferrer[rs[r].id] = rs[r].by \/ deferrer[rs[r].id] \in abandoned

InvOf(fs, rs) ==
    /\ TypeInv(fs, rs) /\ FramesInv(fs) /\ ScopeInv(fs) /\ OldInv(fs)
    /\ PlacesInv(fs, rs) /\ OwnersInv(fs) /\ RanInv(fs, rs)
    /\ KeptInv(fs, rs) /\ OrderInv(rs)
IInv == InvOf(frames, ran)

(***************************************************************************)
(* Sequences, and the largest element of a set of positions.               *)
(***************************************************************************)
LEMMA LeastNumber ==
    ASSUME NEW T \in SUBSET Nat, T # {}
    PROVE  \E x \in T : \A y \in T : x <= y
<1>1. IsWellFoundedOn(OpToRel(<, Nat), Nat)
  BY NatLessThanWellFounded
<1>2. PICK x \in T : \A y \in T : ~(<<y, x>> \in OpToRel(<, Nat))
  BY <1>1, WFMin
<1>3. \A y \in T : ~(y < x)
  BY <1>2 DEF OpToRel
<1>4. QED
  BY <1>3

LEMMA LargestPosition ==
    ASSUME NEW n \in Nat, NEW T \in SUBSET (1..n), T # {}
    PROVE  Max(T) \in T /\ \A y \in T : Max(T) >= y
<1> DEFINE D == {i \in Nat : \E x \in T : i = n - x}
<1>1. \A x \in T : x \in 1..n /\ n - x \in Nat /\ n - x \in D
  OBVIOUS
<1>2. D \in SUBSET Nat /\ D # {}
  BY <1>1
<1>3. PICK d \in D : \A e \in D : d <= e
  BY <1>2, LeastNumber
<1>4. PICK x \in T : d = n - x
  OBVIOUS
<1>5. ASSUME NEW y \in T PROVE x >= y
  <2>1. n - x <= n - y /\ x \in 1..n /\ y \in 1..n
    BY <1>1, <1>3, <1>4
  <2>2. QED
    BY <2>1
<1>6. \E m \in T : \A y \in T : m >= y
  BY <1>5
<1>7. QED
  BY <1>6 DEF Max

LEMMA Prefix ==
    ASSUME NEW S, NEW s \in Seq(S), NEW m \in 0..Len(s)
    PROVE  /\ SubSeq(s, 1, m) \in Seq(S) /\ Len(SubSeq(s, 1, m)) = m
           /\ DOMAIN SubSeq(s, 1, m) = 1..m /\ 1..m \subseteq DOMAIN s
           /\ \A i \in 1..m : SubSeq(s, 1, m)[i] = s[i]
<1>1. Len(s) \in Nat /\ DOMAIN s = 1..Len(s)
  OBVIOUS
<1>2. \A i \in 1..m : i \in 1..Len(s) /\ s[i] \in S
  BY <1>1
<1>3. SubSeq(s, 1, m) \in Seq(S) /\ Len(SubSeq(s, 1, m)) = (IF 1 <= m THEN m - 1 + 1 ELSE 0)
  BY <1>1, <1>2, SubSeqProperties
<1>4. \A i \in 1..(m - 1 + 1) : SubSeq(s, 1, m)[i] = s[1 + i - 1]
  BY <1>1, <1>2, SubSeqProperties
<1>5. QED
  BY <1>1, <1>2, <1>3, <1>4

LEMMA Suffix ==
    ASSUME NEW S, NEW s \in Seq(S), NEW m \in 0..Len(s)
    PROVE  /\ SubSeq(s, m + 1, Len(s)) \in Seq(S) /\ DOMAIN SubSeq(s, m + 1, Len(s)) = 1..(Len(s) - m)
           /\ \A i \in 1..(Len(s) - m) : SubSeq(s, m + 1, Len(s))[i] = s[m + i] /\ m + i \in DOMAIN s
<1>1. Len(s) \in Nat /\ DOMAIN s = 1..Len(s) /\ m \in Nat
  OBVIOUS
<1>2. \A i \in (m + 1)..Len(s) : i \in 1..Len(s) /\ s[i] \in S
  BY <1>1
<1>3. /\ SubSeq(s, m + 1, Len(s)) \in Seq(S)
      /\ Len(SubSeq(s, m + 1, Len(s))) = IF m + 1 <= Len(s) THEN Len(s) - (m + 1) + 1 ELSE 0
  BY <1>1, <1>2, SubSeqProperties
<1>4. \A i \in 1..(Len(s) - (m + 1) + 1) : SubSeq(s, m + 1, Len(s))[i] = s[m + 1 + i - 1]
  BY <1>1, <1>2, SubSeqProperties
<1>5. Len(SubSeq(s, m + 1, Len(s))) = Len(s) - m
  <2> DEFINE len == Len(SubSeq(s, m + 1, Len(s)))
  <2>1. len = IF m + 1 <= Len(s) THEN Len(s) - (m + 1) + 1 ELSE 0
    BY <1>3
  <2> HIDE DEF len
  <2>2. CASE m = Len(s)
    <3>1. ~(m + 1 <= Len(s)) /\ Len(s) - m = 0
      BY <1>1, <2>2
    <3>2. len = Len(s) - m
      BY <2>1, <3>1
    <3>3. QED
      BY <3>2 DEF len
  <2>3. CASE m # Len(s)
    <3> DEFINE n == Len(s)
    <3>0. n \in Nat /\ m \in 0..n /\ m # n
      BY <1>1, <2>3
    <3> HIDE DEF n
    <3>1. m + 1 <= n /\ n - (m + 1) + 1 = n - m
      BY <3>0
    <3> USE DEF n
    <3>2. len = Len(s) - m
      BY <2>1, <3>1
    <3>3. QED
      BY <3>2 DEF len
  <2>4. QED
    BY <2>2, <2>3
<1>6. DOMAIN SubSeq(s, m + 1, Len(s)) = 1..(Len(s) - m)
  BY <1>3, <1>5
<1>7. ASSUME NEW i \in 1..(Len(s) - m)
      PROVE  SubSeq(s, m + 1, Len(s))[i] = s[m + i] /\ m + i \in DOMAIN s
  <2>1. i \in 1..(Len(s) - (m + 1) + 1) /\ m + 1 + i - 1 = m + i /\ m + i \in 1..Len(s)
    BY <1>1
  <2>2. QED
    BY <1>1, <1>4, <2>1
<1>8. QED
  BY <1>3, <1>6, <1>7

LEMMA Pushed ==
    ASSUME NEW S, NEW s \in Seq(S), NEW e \in S
    PROVE  /\ Append(s, e) \in Seq(S) /\ Len(Append(s, e)) = Len(s) + 1 /\ Len(s) \in Nat
           /\ DOMAIN s = 1..Len(s) /\ DOMAIN Append(s, e) = 1..(Len(s) + 1)
           /\ Append(s, e)[Len(s) + 1] = e
           /\ \A i \in 1..Len(s) : Append(s, e)[i] = s[i]
<1>1. Len(s) \in Nat /\ DOMAIN s = 1..Len(s)
  OBVIOUS
<1>2. Append(s, e) \in Seq(S) /\ Len(Append(s, e)) = Len(s) + 1
  OBVIOUS
<1>3. Append(s, e)[Len(s) + 1] = e /\ \A i \in 1..Len(s) : Append(s, e)[i] = s[i]
  BY <1>1
<1>4. DOMAIN Append(s, e) = 1..(Len(s) + 1)
  BY <1>2
<1>5. QED
  BY <1>1, <1>2, <1>3, <1>4

LEMMA Topmost ==
    ASSUME NEW S, NEW s \in Seq(S), s # <<>>
    PROVE  /\ Len(s) \in Nat \ {0} /\ Len(s) \in DOMAIN s /\ DOMAIN s = 1..Len(s)
           /\ Last(s) = s[Len(s)] /\ Last(s) \in S
           /\ Front(s) \in Seq(S) /\ Len(Front(s)) = Len(s) - 1 /\ Len(s) - 1 \in 0..Len(s)
           /\ Front(s) = SubSeq(s, 1, Len(s) - 1)
           /\ DOMAIN Front(s) = 1..(Len(s) - 1)
           /\ \A i \in 1..(Len(s) - 1) : Front(s)[i] = s[i]
<1>1. Len(s) \in Nat \ {0} /\ Len(s) \in 1..Len(s) /\ DOMAIN s = 1..Len(s) /\ Len(s) - 1 \in 0..Len(s)
  OBVIOUS
<1>2. s[Len(s)] \in S
  BY <1>1
<1>3. QED
  BY <1>1, <1>2, Prefix DEF Last, Front

\* The innermost activation is changed, the others stay.
LEMMA TopReplaced ==
    ASSUME NEW S, NEW s \in Seq(S), s # <<>>, NEW e \in S
    PROVE  LET t == Append(Front(s), e)
           IN  /\ t \in Seq(S) /\ Len(t) = Len(s) /\ DOMAIN t = DOMAIN s /\ t # <<>>
               /\ t[Len(s)] = e /\ \A i \in DOMAIN s : i # Len(s) => t[i] = s[i]
<1>1. /\ Front(s) \in Seq(S) /\ Len(Front(s)) = Len(s) - 1 /\ Len(s) \in Nat \ {0} /\ DOMAIN s = 1..Len(s)
      /\ \A i \in 1..(Len(s) - 1) : Front(s)[i] = s[i]
  BY Topmost
<1> DEFINE t == Append(Front(s), e)
<1>2. /\ t \in Seq(S) /\ Len(t) = Len(s) - 1 + 1 /\ DOMAIN t = 1..(Len(s) - 1 + 1)
      /\ t[Len(s) - 1 + 1] = e /\ \A i \in 1..(Len(s) - 1) : t[i] = Front(s)[i]
  BY <1>1, Pushed
<1>3. Len(s) - 1 + 1 = Len(s)
  BY <1>1
<1> HIDE DEF t
<1>4. t # <<>>
  BY <1>1, <1>2
<1>5. ASSUME NEW i \in DOMAIN s, i # Len(s) PROVE t[i] = s[i]
  <2>1. i \in 1..(Len(s) - 1)
    BY <1>1, <1>5
  <2>2. QED
    BY <1>1, <1>2, <2>1
<1>6. QED
  BY <1>1, <1>2, <1>3, <1>4, <1>5 DEF t

\* Distinct numbers from 1 to n, in order, are no more than n.
LEMMA IncreasingIsShort ==
    ASSUME NEW n \in Nat, NEW s \in Seq(1..n), Increasing(s)
    PROVE  Len(s) \in 0..n
<1>1. Len(s) \in Nat /\ DOMAIN s = 1..Len(s) /\ \A p \in 1..Len(s) : s[p] \in 1..n
  OBVIOUS
<1> DEFINE T == {p \in 1..Len(s) : s[p] < p}
<1>2. T = {}
  <2> SUFFICES ASSUME T # {} PROVE FALSE
    OBVIOUS
  <2>0. T \in SUBSET Nat
    BY <1>1
  <2>1. PICK p \in T : \A q \in T : p <= q
    <3> HIDE DEF T
    <3>1. QED
      BY <2>0, LeastNumber
  <2>2. p \in 1..Len(s) /\ s[p] < p /\ s[p] \in 1..n
    BY <1>1
  <2>3. p - 1 \in 1..Len(s) /\ p - 1 < p /\ p - 1 \notin T
    BY <1>1, <2>1, <2>2
  <2>4. s[p - 1] >= p - 1 /\ s[p - 1] \in 1..n
    BY <1>1, <2>3
  <2>5. s[p - 1] < s[p]
    BY <1>1, <2>2, <2>3 DEF Increasing
  <2>6. QED
    BY <2>2, <2>3, <2>4, <2>5
<1>3. CASE Len(s) = 0
  BY <1>3
<1>4. CASE Len(s) # 0
  <2>1. Len(s) \in 1..Len(s) /\ s[Len(s)] \in 1..n
    BY <1>1, <1>4
  <2>2. ~(s[Len(s)] < Len(s))
    BY <1>2, <2>1
  <2>3. QED
    BY <1>1, <2>1, <2>2
<1>5. QED
  BY <1>3, <1>4

LEMMA InitHolds == Init => IInv
<1> SUFFICES ASSUME Init PROVE IInv
  OBVIOUS
<1>1. DOMAIN <<>> = {} /\ Len(<<>>) = 0
  OBVIOUS
<1>2. MaxFrames \in Nat /\ MaxDepth \in Nat /\ MaxDefers \in Nat
  BY BoundsAssumption
<1>3. TypeInv(frames, ran)
  BY <1>1, <1>2 DEF Init, TypeInv
<1>4. FramesInv(frames) /\ ScopeInv(frames) /\ OldInv(frames)
  BY <1>1 DEF Init, FramesInv, ScopeInv, ScopeOf, OldInv
<1>5. PlacesInv(frames, ran) /\ OwnersInv(frames) /\ RanInv(frames, ran)
  BY <1>1 DEF Init, PlacesInv, OwnersInv, RanInv, Increasing
<1>6. KeptInv(frames, ran) /\ OrderInv(ran)
  BY <1>1 DEF Init, KeptInv, OrderInv
<1> QED
  BY <1>3, <1>4, <1>5, <1>6 DEF IInv, InvOf

(***************************************************************************)
(* Leaving: activations are taken off the stack, by an error or at their   *)
(* end. What they had deferred ran, or is lost to the error.               *)
(***************************************************************************)
\* Activations above m are left, all abandoned if not the topmost at its end.
Leaves(m) ==
    /\ m \in 0..Len(frames) /\ m < Len(frames)
    /\ frames' = SubSeq(frames, 1, m)
    /\ UNCHANGED <<made, deferred, deferrer, ran>>
    /\ \A i \in DOMAIN frames : i > m => frames[i].todo = <<>>
    /\ abandoned \subseteq abandoned'
    /\ \A x \in abandoned' : x \in abandoned \/ \E i \in DOMAIN frames : i > m /\ frames[i].id = x
    /\ \A i \in DOMAIN frames : i > m /\ frames[i].id \notin abandoned' =>
          i = Len(frames) /\ frames[i].phase # "body" /\ abandoned' = abandoned
    /\ env' = ScopeOf(frames, m) \/ env' \in abandoned'
    /\ old' = old \/ (old' = 0 /\ frames[Len(frames)].kind = "function")

LEMMA PopKeeps ==
    ASSUME IInv, NEW m, Leaves(m)
    PROVE  IInv'
<1> DEFINE n == Len(frames)
<1>1. /\ n \in Nat /\ m \in Nat /\ m < n /\ made \in Nat /\ DOMAIN frames = 1..n
      /\ frames \in Seq(Frames) /\ m \in 0..n
      /\ UNCHANGED <<made, deferred, deferrer, ran>>
      /\ \A i \in 1..n : i > m => frames[i].todo = <<>>
      /\ abandoned \subseteq abandoned' /\ abandoned \subseteq 1..made
  BY BoundsAssumption DEF IInv, InvOf, TypeInv, Leaves
<1>2. /\ frames' \in Seq(Frames) /\ Len(frames') = m /\ DOMAIN frames' = 1..m
       /\ \A i \in 1..m : frames'[i] = frames[i]
  BY <1>1, Prefix DEF Leaves
<1> HIDE DEF n
<1>3. \A i \in 1..m : i \in 1..n /\ i # n
  BY <1>1
<1>4. \A i, j \in 1..n : frames[i].id \in 1..made /\ (frames[i].id = frames[j].id => i = j)
  <2>1. \A i \in 1..n : frames[i].id \in 1..made
    BY <1>1 DEF IInv, InvOf, FramesInv
  <2>2. \A i, j \in 1..n : i < j => frames[i].id < frames[j].id
    BY <1>1 DEF IInv, InvOf, FramesInv
  <2>3. ASSUME NEW i \in 1..n, NEW j \in 1..n, frames[i].id = frames[j].id PROVE i = j
    <3>1. i < j \/ j < i \/ i = j
      BY <1>1
    <3>2. \A k \in 1..n : ~(frames[k].id < frames[k].id)
      BY <2>1
    <3>3. QED
      BY <2>2, <2>3, <3>1, <3>2
  <2>4. QED
    BY <2>1, <2>3
<1>5. TypeInv(frames, ran)'
  <2>1. abandoned' \subseteq 1..made
    BY <1>1, <1>4 DEF Leaves
  <2>2. ScopeOf(frames, m) \in 0..made
    BY <1>1, <1>3, <1>4 DEF ScopeOf
  <2>3. env' \in 0..made
    <3>1. env' = ScopeOf(frames, m) \/ env' \in abandoned'
      BY DEF Leaves
    <3>2. 1..made \subseteq 0..made
      BY <1>1
    <3>3. QED
      BY <2>1, <2>2, <3>1, <3>2
  <2>4. old' \in 0..made
    BY <1>1 DEF IInv, InvOf, TypeInv, Leaves
  <2>5. Len(frames') <= MaxDepth
    BY <1>1, <1>2, BoundsAssumption DEF IInv, InvOf, TypeInv, n
  <2>6. QED
    BY <1>1, <1>2, <2>1, <2>3, <2>4, <2>5 DEF IInv, InvOf, TypeInv
<1>6. /\ n \in Nat /\ n > m /\ m \in Nat /\ DOMAIN frames = 1..n /\ DOMAIN frames' = 1..m
      /\ (\A i \in 1..m : i \in 1..n /\ i # n /\ frames'[i] = frames[i])
      /\ abandoned \subseteq abandoned' /\ made \in Nat
      /\ UNCHANGED <<made, deferred, deferrer, ran>>
  BY <1>1, <1>2, <1>3
<1>7. FramesInv(frames)'
  <2>1. \A i \in 1..m : frames[i].id \notin abandoned'
    <3>1. \A i \in 1..m, j \in 1..n : j > m => frames[i].id # frames[j].id
      BY <1>6, <1>4
    <3>2. \A i \in 1..m : frames[i].id \notin abandoned
      BY <1>6 DEF IInv, InvOf, FramesInv
    <3>3. QED
      BY <1>6, <3>1, <3>2 DEF Leaves
  <2>2. Len(frames') = m
    BY <1>2
  <2>3. ASSUME NEW i \in 1..m
        PROVE  /\ frames[i].id \in 1..made
               /\ frames[i].previous <= made
               /\ frames[i].base <= Len(deferred)
               /\ frames[i].kind = "block" => ~frames[i].contract /\ frames[i].phase \in {"body", "defers"}
               /\ frames[i].phase # "defers" => frames[i].todo = <<>>
               /\ frames[i].phase = "defers" /\ i # m => frames'[i + 1].swallow
    <3>1. i # m => i + 1 \in 1..m
      BY <1>6
    <3>2. QED
      BY <1>6, <3>1 DEF IInv, InvOf, FramesInv, n
  <2>4. \A i, j \in 1..m : i < j => frames[i].id < frames[j].id /\ frames[i].base <= frames[j].base
    BY <1>6 DEF IInv, InvOf, FramesInv
  <2>5. QED
    BY <1>6, <2>1, <2>2, <2>3, <2>4 DEF FramesInv
<1>8. ScopeInv(frames)'
  <2>1. ASSUME NEW i \in 1..m
        PROVE  ScopeOf(frames', i - 1) = ScopeOf(frames, i - 1)
    <3>1. i - 1 = 0 \/ i - 1 \in 1..m
      BY <1>6
    <3>2. QED
      BY <1>6, <3>1 DEF ScopeOf
  <2>2. Len(frames') = m /\ ScopeOf(frames', m) = ScopeOf(frames, m)
    BY <1>6, <1>2 DEF ScopeOf
  <2>3. \A i \in 1..m : frames[i].previous = ScopeOf(frames, i - 1) \/ frames[i].previous \in abandoned
    BY <1>6 DEF IInv, InvOf, ScopeInv
  <2>4. \A i \in DOMAIN frames' : frames'[i].previous = ScopeOf(frames', i - 1) \/ frames'[i].previous \in abandoned'
    BY <1>6, <2>1, <2>3
  <2>5. env' = ScopeOf(frames', Len(frames')) \/ env' \in abandoned'
    BY <2>2 DEF Leaves
  <2>6. (\A i \in DOMAIN frames : frames[i].previous = ScopeOf(frames, i - 1) \/ frames[i].previous \in abandoned)'
    BY <2>4 DEF ScopeOf
  <2>7. (env = ScopeOf(frames, Len(frames)) \/ env \in abandoned)'
    BY <2>5 DEF ScopeOf
  <2>8. QED
    BY <2>6, <2>7 DEF ScopeInv
<1>9. OldInv(frames)'
  <2>1. \A i, j \in 1..m : i < j /\ frames[j].kind = "function" /\ frames[i].phase # "pre" => frames[i].calls
    BY <1>6 DEF IInv, InvOf, OldInv
  <2>2. ASSUME NEW i \in 1..m, frames[i].contract, frames[i].phase # "pre", ~frames[i].calls
        PROVE  old' = frames[i].id
    <3>1. i < n /\ n \in 1..n
      BY <1>6
    <3>2. old = frames[i].id /\ frames[n].kind # "function"
      BY <1>6, <2>2, <3>1 DEF IInv, InvOf, OldInv
    <3>3. QED
      BY <3>2 DEF Leaves, n
  <2>3. QED
    BY <1>6, <2>1, <2>2 DEF OldInv
<1>10. PlacesInv(frames, ran)'
  <2>1. PlacesInv(frames, ran)
    BY DEF IInv, InvOf
  <2>2. Increasing(deferred)' /\ \A i \in 1..m : frames'[i].todo \in Seq(DOMAIN deferrer') /\ Increasing(frames[i].todo)'
    BY <1>6, <2>1 DEF PlacesInv, Increasing
  <2>3. \A i \in 1..m, d \in DOMAIN deferrer : ~(Holds(deferred, d) /\ Holds(frames[i].todo, d))
    BY <1>6, <2>1 DEF PlacesInv
  <2>4. \A i, j \in 1..m, d \in DOMAIN deferrer :
           i # j => ~(Holds(frames[i].todo, d) /\ Holds(frames[j].todo, d))
    BY <1>6, <2>1 DEF PlacesInv
  <2>5. \A r \in DOMAIN ran : ~Holds(deferred, ran[r].id) /\ \A i \in 1..m : ~Holds(frames[i].todo, ran[r].id)
    BY <1>6, <2>1 DEF PlacesInv
  <2>6. QED
    BY <1>6, <2>2, <2>3, <2>4, <2>5 DEF PlacesInv, Increasing, Holds
<1>11. OwnersInv(frames)'
  <2>1. ASSUME NEW p \in DOMAIN deferred, deferrer[deferred[p]] \notin abandoned'
        PROVE  \E i \in 1..m : /\ frames[i].id = deferrer[deferred[p]] /\ frames[i].phase = "body"
                               /\ frames[i].base < p
                               /\ i # m => p <= frames'[i + 1].base
    <3>1. PICK i \in 1..n : /\ frames[i].id = deferrer[deferred[p]] /\ frames[i].phase = "body"
                            /\ frames[i].base < p
                            /\ i # n => p <= frames[i + 1].base
      BY <1>6, <2>1 DEF IInv, InvOf, OwnersInv, n
    <3>2. i \in 1..m
      <4>1. ~(i > m)
        BY <1>6, <2>1, <3>1 DEF Leaves
      <4>2. QED
        BY <1>6, <4>1
    <3>3. i # m => i + 1 \in 1..m
      BY <1>6, <3>2
    <3>4. QED
      BY <1>6, <3>1, <3>2, <3>3
  <2>2. \A i \in 1..m : \A q \in DOMAIN frames[i].todo :
           deferrer[frames[i].todo[q]] = frames[i].id \/ deferrer[frames[i].todo[q]] \in abandoned'
    BY <1>6 DEF IInv, InvOf, OwnersInv
  <2>3. Len(frames') = m
    BY <1>2
  <2>4. QED
    BY <1>6, <2>1, <2>2, <2>3 DEF OwnersInv
<1>12. RanInv(frames, ran)'
  BY <1>6 DEF IInv, InvOf, RanInv
<1>13. KeptInv(frames, ran)'
  <2>1. ASSUME NEW d \in DOMAIN deferrer, ~Ran(ran, d)
        PROVE  /\ Holds(deferred, d) \/ \E i \in 1..m : Holds(frames[i].todo, d)
               /\ deferrer[d] \in abandoned' \/ \E i \in 1..m : frames[i].id = deferrer[d]
    <3>1. /\ Holds(deferred, d) \/ \E i \in 1..n : Holds(frames[i].todo, d)
          /\ deferrer[d] \in abandoned \/ \E i \in 1..n : frames[i].id = deferrer[d]
      BY <1>6, <2>1 DEF IInv, InvOf, KeptInv
    <3>2. \A i \in 1..n : i \in 1..m \/ i > m
      BY <1>6
    <3>3. \A i \in 1..n : i > m => ~Holds(frames[i].todo, d)
      BY <1>1 DEF Holds
    <3>4. Holds(deferred, d) \/ \E i \in 1..m : Holds(frames[i].todo, d)
      BY <3>1, <3>2, <3>3
    <3>5. ASSUME NEW i \in 1..n, i > m, frames[i].id = deferrer[d], deferrer[d] \notin abandoned'
          PROVE  FALSE
      <4>1. i = n /\ frames[n].phase # "body" /\ abandoned' = abandoned
        BY <1>6, <3>5 DEF n, Leaves
      <4>2. ~Holds(deferred, d)
        <5> SUFFICES ASSUME NEW p \in DOMAIN deferred, deferred[p] = d PROVE FALSE
          BY DEF Holds
        <5>1. PICK j \in 1..n : frames[j].id = deferrer[d] /\ frames[j].phase = "body"
          BY <1>6, <3>5, <4>1 DEF IInv, InvOf, OwnersInv, n
        <5>2. QED
          BY <1>4, <3>3, <3>5, <4>1, <5>1
      <4>3. PICK j \in 1..m : Holds(frames[j].todo, d)
        BY <3>4, <4>2
      <4>4. frames[j].id = deferrer[d]
        BY <1>6, <3>5, <4>1, <4>3 DEF IInv, InvOf, OwnersInv, Holds
      <4>5. QED
        BY <1>6, <1>4, <3>3, <3>5, <4>1, <4>4
    <3>6. QED
      BY <1>6, <3>1, <3>2, <3>4, <3>5
  <2>2. QED
    BY <1>6, <2>1 DEF KeptInv, Ran, Holds
<1>14. OrderInv(ran)'
  BY <1>6 DEF IInv, InvOf, OrderInv
<1>15. QED
  BY <1>5, <1>7, <1>8, <1>9, <1>10, <1>11, <1>12, <1>13, <1>14 DEF IInv, InvOf

LEMMA AtTop ==
    ASSUME IInv, frames # <<>>
    PROVE  /\ frames \in Seq(Frames) /\ Len(frames) \in Nat /\ Len(frames) > 0
           /\ DOMAIN frames = 1..Len(frames) /\ Len(frames) \in DOMAIN frames
           /\ Top = frames[Len(frames)] /\ Top \in Frames
           /\ Len(frames) - 1 \in 0..Len(frames)
           /\ Below = SubSeq(frames, 1, Len(frames) - 1)
<1>1. frames \in Seq(Frames)
  BY DEF IInv, InvOf, TypeInv
<1>2. /\ Len(frames) \in Nat \ {0} /\ Len(frames) \in DOMAIN frames /\ DOMAIN frames = 1..Len(frames)
      /\ Last(frames) = frames[Len(frames)] /\ Last(frames) \in Frames
      /\ Len(frames) - 1 \in 0..Len(frames)
      /\ Front(frames) = SubSeq(frames, 1, Len(frames) - 1)
  BY <1>1, Topmost, Zenon
<1>3. Len(frames) > 0
  BY <1>2
<1>4. QED
  BY <1>1, <1>2, <1>3 DEF Top, Below

LEMMA RanIsTyped ==
    ASSUME NEW fs, NEW rs, TypeInv(fs, rs)
    PROVE  /\ Len(rs) \in Nat /\ DOMAIN rs = 1..Len(rs)
           /\ \A r \in DOMAIN rs : rs[r].id \in DOMAIN deferrer /\ rs[r].by \in 1..made
<1> DEFINE A == [id : DOMAIN deferrer, by : 1..made]
<1>1. rs \in Seq(A)
  BY DEF TypeInv
<1>2. \A x \in A : x.id \in DOMAIN deferrer /\ x.by \in 1..made
  OBVIOUS
<1> HIDE DEF A
<1>3. Len(rs) \in Nat /\ DOMAIN rs = 1..Len(rs) /\ \A r \in DOMAIN rs : rs[r] \in A
  BY <1>1
<1>4. QED
  BY <1>2, <1>3

LEMMA Unwinding ==
    ASSUME IInv, frames # <<>>, Top.phase # "defers"
    PROVE  \E m \in 0..Len(frames) :
              /\ m < Len(frames)
              /\ Unwound(frames) = SubSeq(frames, 1, m)
              /\ Lost(frames, Unwound(frames)) = {frames[i].id : i \in {k \in DOMAIN frames : k > m}}
              /\ \A i \in DOMAIN frames : i > m => frames[i].todo = <<>>
<1> DEFINE n == Len(frames)
           guards == {i \in DOMAIN frames : frames[i].swallow}
<1>1. frames \in Seq(Frames) /\ n \in Nat /\ n > 0 /\ DOMAIN frames = 1..n /\ frames[n].phase # "defers"
  BY AtTop
<1>2. Unwound(frames) = IF guards = {} THEN <<>> ELSE SubSeq(frames, 1, Max(guards) - 1)
  BY DEF Unwound
<1>3. SubSeq(frames, 1, 0) = <<>>
  <2>1. SubSeq(frames, 1, 0) \in Seq(Frames) /\ Len(SubSeq(frames, 1, 0)) = 0
    BY <1>1, Prefix
  <2>2. QED
    BY <2>1
<1>4. guards \subseteq 1..n
  BY <1>1
<1> HIDE DEF n
<1>5. PICK m \in 0..n : /\ m < n /\ Unwound(frames) = SubSeq(frames, 1, m)
                        /\ \A i \in guards : i <= m + 1
  <2>1. CASE guards = {}
    <3>1. 0 \in 0..n /\ 0 < n /\ Unwound(frames) = SubSeq(frames, 1, 0)
      BY <1>1, <1>2, <1>3, <2>1
    <3>2. QED
      BY <2>1, <3>1
  <2>2. CASE guards # {}
    <3> HIDE DEF guards
    <3>1. Max(guards) \in guards /\ \A y \in guards : Max(guards) >= y
      BY <1>1, <1>4, <2>2, LargestPosition
    <3>2. Max(guards) \in 1..n
      BY <1>4, <3>1
    <3>3. Max(guards) - 1 \in 0..n /\ Max(guards) - 1 < n /\ \A y \in guards : y <= Max(guards) - 1 + 1
      BY <1>1, <1>4, <3>1, <3>2
    <3>4. QED
      BY <1>2, <2>2, <3>3
  <2>3. QED
    BY <2>1, <2>2
<1>6. DOMAIN Unwound(frames) = 1..m /\ m \in Nat
  BY <1>1, <1>5, Prefix DEF n
<1>7. Lost(frames, Unwound(frames)) = {frames[i].id : i \in {k \in DOMAIN frames : k > m}}
  <2>1. DOMAIN frames \ DOMAIN Unwound(frames) = {k \in DOMAIN frames : k > m}
    BY <1>1, <1>6
  <2>2. QED
    BY <2>1 DEF Lost
<1>8. ASSUME NEW i \in DOMAIN frames, i > m PROVE frames[i].todo = <<>>
  <2>1. CASE frames[i].phase # "defers"
    BY <2>1 DEF IInv, InvOf, FramesInv
  <2>2. CASE frames[i].phase = "defers"
    <3>1. i # n /\ i + 1 \in 1..n /\ i + 1 > m + 1
      BY <1>1, <1>6, <1>8, <2>2
    <3>2. frames[i + 1].swallow
      BY <2>2, <3>1 DEF IInv, InvOf, FramesInv, n
    <3>3. i + 1 \in guards
      BY <1>1, <3>1, <3>2
    <3>4. i + 1 <= m + 1
      BY <1>5, <3>3
    <3>5. QED
      BY <1>1, <1>6, <3>1, <3>4
  <2>3. QED
    BY <2>1, <2>2
<1>9. QED
  BY <1>5, <1>7, <1>8 DEF n

\* An error: the scope left in place is that of an activation it left, or was
\* left in place by another.
LEMMA ErrorKeeps ==
    ASSUME IInv, frames # <<>>, Top.phase # "defers",
           frames' = Unwound(frames),
           abandoned' = abandoned \cup Lost(frames, frames'),
           UNCHANGED <<made, deferred, deferrer, ran>>,
           env' \in {env, Top.previous},
           old' = old \/ (old' = 0 /\ Top.kind = "function")
    PROVE  IInv'
<1> DEFINE n == Len(frames)
<1>1. frames \in Seq(Frames) /\ n \in Nat /\ n > 0 /\ DOMAIN frames = 1..n /\ Top = frames[n]
  BY AtTop
<1>2. PICK m \in 0..n :
         /\ m < n
         /\ Unwound(frames) = SubSeq(frames, 1, m)
         /\ Lost(frames, Unwound(frames)) = {frames[i].id : i \in {k \in DOMAIN frames : k > m}}
         /\ \A i \in DOMAIN frames : i > m => frames[i].todo = <<>>
  BY Unwinding
<1>3. /\ \A x : x \in abandoned' <=> x \in abandoned \/ \E i \in DOMAIN frames : i > m /\ frames[i].id = x
      /\ abandoned \subseteq abandoned'
  <2>1. abandoned' = abandoned \cup {frames[i].id : i \in {k \in DOMAIN frames : k > m}}
    BY <1>2
  <2>2. QED
    BY <2>1
<1>4. env' = ScopeOf(frames, m) \/ env' \in abandoned'
  <2>1. env = frames[n].id \/ env \in abandoned
    BY <1>1 DEF IInv, InvOf, ScopeInv, ScopeOf
  <2>2. env \in abandoned'
    BY <1>1, <1>2, <1>3, <2>1
  <2>3. Top.previous = ScopeOf(frames, n - 1) \/ Top.previous \in abandoned
    BY <1>1 DEF IInv, InvOf, ScopeInv
  <2>4. CASE m = n - 1
    BY <1>3, <2>2, <2>3, <2>4
  <2>5. CASE m # n - 1
    <3>1. n - 1 \in 1..n /\ n - 1 > m
      BY <1>1, <1>2, <2>5
    <3>2. ScopeOf(frames, n - 1) = frames[n - 1].id /\ frames[n - 1].id \in abandoned'
      BY <1>1, <1>3, <3>1 DEF ScopeOf
    <3>3. QED
      BY <1>3, <2>2, <2>3, <3>2
  <2>6. QED
    BY <2>4, <2>5
<1>5. Leaves(m)
  BY <1>1, <1>2, <1>3, <1>4 DEF Leaves
<1>6. QED
  BY <1>5, PopKeeps

LEMMA ErrorsHold ==
    ASSUME IInv, PreconditionFails \/ Fails \/ PostconditionFails
    PROVE  IInv'
<1>1. /\ frames # <<>> /\ Top.phase # "defers"
      /\ frames' = Unwound(frames)
      /\ abandoned' = abandoned \cup Lost(frames, frames')
      /\ UNCHANGED <<made, deferred, deferrer, ran>>
      /\ env' \in {env, Top.previous}
      /\ old' = old \/ (old' = 0 /\ Top.phase = "post")
  BY DEF PreconditionFails, Fails, PostconditionFails, In
<1>2. Top.phase = "post" => Top.kind = "function"
  <2>1. Top \in Frames /\ Top = frames[Len(frames)] /\ Len(frames) \in DOMAIN frames
    BY <1>1, AtTop
  <2>2. Top.kind = "block" => Top.phase \in {"body", "defers"}
    BY <2>1 DEF IInv, InvOf, FramesInv
  <2>3. Top.kind \in {"function", "block"}
    BY <2>1 DEF Frames
  <2>4. QED
    BY <2>2, <2>3
<1>3. QED
  BY <1>1, <1>2, ErrorKeeps

LEMMA LeavingHolds ==
    ASSUME IInv, LeaveBlock \/ LeaveFunction
    PROVE  IInv'
<1> DEFINE n == Len(frames)
<1>1. /\ frames # <<>> /\ Top.phase \in {"defers", "post"}
      /\ Top.phase = "defers" => Top.todo = <<>>
      /\ frames' = Below /\ env' = Top.previous
      /\ UNCHANGED <<made, deferred, deferrer, ran, abandoned>>
      /\ old' = old \/ (old' = 0 /\ Top.phase = "post")
  BY DEF LeaveBlock, LeaveFunction, In
<1>2. /\ n \in Nat /\ n > 0 /\ DOMAIN frames = 1..n /\ n \in DOMAIN frames
      /\ Top = frames[n] /\ Top \in Frames /\ n - 1 \in 0..n
      /\ Below = SubSeq(frames, 1, n - 1)
  BY <1>1, AtTop
<1> HIDE DEF n
<1>3. n - 1 < n /\ \A i \in DOMAIN frames : i > n - 1 => i = n
  BY <1>2
<1>4. Top.todo = <<>>
  BY <1>1, <1>2 DEF IInv, InvOf, FramesInv
<1>5. env' = ScopeOf(frames, n - 1) \/ env' \in abandoned'
  BY <1>1, <1>2 DEF IInv, InvOf, ScopeInv
<1>6. Top.phase = "post" => Top.kind = "function"
  <2>1. Top.kind = "block" => Top.phase \in {"body", "defers"}
    BY <1>2 DEF IInv, InvOf, FramesInv
  <2>2. Top.kind \in {"function", "block"}
    BY <1>2 DEF Frames
  <2>3. QED
    BY <2>1, <2>2
<1>7. PICK m : m = n - 1
  OBVIOUS
<1>8. Leaves(m)
  BY <1>1, <1>2, <1>3, <1>4, <1>5, <1>6, <1>7 DEF Leaves, n
<1>9. QED
  BY <1>8, PopKeeps

(***************************************************************************)
(* Entering: the new activation e is the innermost. The stack it is put on *)
(* may be that of a deferred expression being taken in the same step.      *)
(***************************************************************************)
Enters(stack, rs, e) ==
    /\ frames' = Append(stack, e) /\ ran' = rs
    /\ made < MaxFrames /\ Len(stack) < MaxDepth
    /\ made' = made + 1 /\ env' = made + 1
    /\ UNCHANGED <<deferred, old, deferrer, abandoned>>
    /\ e \in Frames
    /\ e.id = made + 1 /\ e.previous = env /\ e.base = Len(deferred) /\ e.todo = <<>>
    /\ e.kind = "block" => ~e.contract /\ e.phase = "body"
    /\ e.contract => e.phase = "pre"
    /\ e.phase # "defers"
    /\ \A i \in DOMAIN stack : stack[i].phase = "defers" /\ i = Len(stack) => e.swallow
    /\ e.kind = "function" => \A i \in DOMAIN stack : stack[i].phase # "pre" => stack[i].calls

LEMMA Entered ==
    ASSUME NEW stack, NEW rs, InvOf(stack, rs), NEW e, Enters(stack, rs, e)
    PROVE  IInv'
<1> DEFINE n == Len(stack)
<1>1. /\ n \in Nat /\ stack \in Seq(Frames) /\ DOMAIN stack = 1..n /\ e \in Frames
      /\ made \in Nat /\ abandoned \subseteq 1..made /\ made' = made + 1 /\ env' = made + 1
      /\ UNCHANGED <<deferred, old, deferrer, abandoned>> /\ ran' = rs
      /\ frames' = Append(stack, e)
      /\ e.id = made + 1 /\ e.previous = env /\ e.base = Len(deferred) /\ e.todo = <<>>
      /\ Len(deferred) \in Nat
  BY BoundsAssumption DEF InvOf, TypeInv, Enters
<1>2. /\ frames' \in Seq(Frames) /\ Len(frames') = n + 1 /\ DOMAIN frames' = 1..(n + 1)
      /\ frames'[n + 1] = e /\ \A i \in 1..n : frames'[i] = stack[i]
  BY <1>1, Pushed
<1> HIDE DEF n
<1>3. /\ \A i \in 1..n : i \in 1..(n + 1) /\ i # n + 1 /\ i < n + 1
      /\ \A i \in 1..(n + 1) : i \in 1..n \/ i = n + 1
      /\ n + 1 \in 1..(n + 1)
  BY <1>1
<1>4. \A i \in 1..n : stack[i].id \in 1..made /\ stack[i].id # made + 1 /\ stack[i].id < made + 1
  <2>1. \A i \in 1..n : stack[i].id \in 1..made
    BY <1>1 DEF InvOf, FramesInv
  <2>2. \A k \in 1..made : k # made + 1 /\ k < made + 1
    BY <1>1
  <2>3. QED
    BY <2>1, <2>2
<1>5. made + 1 \notin abandoned
  BY <1>1
<1>6. TypeInv(frames, ran)'
  <2>1. made + 1 \in 0..MaxFrames /\ Len(frames') <= MaxDepth
    BY <1>1, <1>2, BoundsAssumption DEF Enters, n
  <2>2. 1..made \subseteq 1..made' /\ env' \in 0..made' /\ old' \in 0..made'
    BY <1>1 DEF InvOf, TypeInv
  <2>3. deferrer' \in Seq(1..made')
    BY <1>1, <2>2 DEF InvOf, TypeInv
  <2>4. ran' \in Seq([id : DOMAIN deferrer', by : 1..made'])
    <3> DEFINE A == [id : DOMAIN deferrer, by : 1..made]
               B == [id : DOMAIN deferrer', by : 1..made']
    <3>1. A \subseteq B
      BY <1>1, <2>2
    <3>2. rs \in Seq(A)
      BY DEF InvOf, TypeInv
    <3> HIDE DEF A, B
    <3>3. rs \in Seq(B)
      BY <3>1, <3>2
    <3>4. QED
      BY <1>1, <3>3 DEF B
  <2>5. abandoned' \subseteq 1..made'
    BY <1>1, <2>2
  <2>6. QED
    BY <1>1, <1>2, <2>1, <2>2, <2>3, <2>4, <2>5 DEF InvOf, TypeInv
<1>7. FramesInv(frames)'
  <2>1. ASSUME NEW i \in 1..n
        PROVE  /\ stack[i].id \in 1..(made + 1) /\ stack[i].id \notin abandoned
               /\ stack[i].previous <= made + 1
               /\ stack[i].base <= Len(deferred)
               /\ stack[i].kind = "block" => ~stack[i].contract /\ stack[i].phase \in {"body", "defers"}
               /\ stack[i].phase # "defers" => stack[i].todo = <<>>
               /\ stack[i].phase = "defers" => frames'[i + 1].swallow
    <3>1. stack[i].id \in 1..(made + 1)
      BY <1>1, <1>4
    <3>2. stack[i].previous <= made + 1
      <4>1. stack[i].previous \in Nat /\ stack[i].previous <= made
        <5>1. stack[i] \in Frames /\ MaxFrames \in Nat
          BY <1>1, BoundsAssumption
        <5>2. stack[i].previous \in 0..MaxFrames
          BY <5>1 DEF Frames
        <5>3. stack[i].previous <= made
          BY <1>1 DEF InvOf, FramesInv
        <5>4. QED
          BY <5>1, <5>2, <5>3
      <4>2. QED
        BY <1>1, <4>1
    <3>3. i # n => i + 1 \in 1..n
      BY <1>1
    <3>4. stack[i].phase = "defers" => frames'[i + 1].swallow
      <4>1. CASE i = n
        BY <1>1, <1>2, <4>1 DEF Enters, n
      <4>2. CASE i # n
        BY <1>1, <1>2, <3>3, <4>2 DEF InvOf, FramesInv, n
      <4>3. QED
        BY <4>1, <4>2
    <3>5. QED
      BY <1>1, <3>1, <3>2, <3>4 DEF InvOf, FramesInv
  <2>2. /\ e.id \in 1..(made + 1) /\ e.id \notin abandoned
        /\ e.previous <= made + 1
        /\ e.base <= Len(deferred)
        /\ e.kind = "block" => ~e.contract /\ e.phase \in {"body", "defers"}
        /\ e.phase # "defers" /\ e.todo = <<>>
    <3>1. env <= made + 1
      BY <1>1 DEF InvOf, TypeInv
    <3>2. QED
      BY <1>1, <1>5, <3>1 DEF Enters
  <2>3. \A i, j \in 1..(n + 1) : i < j => frames'[i].id < frames'[j].id /\ frames'[i].base <= frames'[j].base
    <3>1. \A i, j \in 1..n : i < j => stack[i].id < stack[j].id /\ stack[i].base <= stack[j].base
      BY <1>1 DEF InvOf, FramesInv
    <3>2. \A i \in 1..n : stack[i].id < e.id /\ stack[i].base <= e.base
      BY <1>1, <1>4, <2>1
    <3>3. \A i \in 1..(n + 1) : ~(n + 1 < i)
      BY <1>1
    <3>4. QED
      BY <1>2, <1>3, <3>1, <3>2, <3>3
  <2>4. ASSUME NEW i \in 1..(n + 1)
        PROVE  /\ frames'[i].id \in 1..made' /\ frames'[i].id \notin abandoned'
               /\ frames'[i].previous <= made'
               /\ frames'[i].base <= Len(deferred')
               /\ frames'[i].kind = "block" => ~frames'[i].contract /\ frames'[i].phase \in {"body", "defers"}
               /\ frames'[i].phase # "defers" => frames'[i].todo = <<>>
               /\ frames'[i].phase = "defers" /\ i # n + 1 => frames'[i + 1].swallow
    <3>1. CASE i \in 1..n
      BY <1>1, <1>2, <2>1, <3>1
    <3>2. CASE i = n + 1
      BY <1>1, <1>2, <2>2, <3>2
    <3>3. QED
      BY <1>3, <3>1, <3>2
  <2>5. QED
    BY <1>2, <2>3, <2>4 DEF FramesInv
<1>8. ScopeInv(frames)'
  <2>1. ASSUME NEW i \in 1..(n + 1)
        PROVE  frames'[i].previous = (IF i - 1 = 0 THEN 0 ELSE frames'[i - 1].id) \/ frames'[i].previous \in abandoned'
    <3>1. i - 1 = 0 \/ i - 1 \in 1..n
      BY <1>1
    <3>2. (IF i - 1 = 0 THEN 0 ELSE frames'[i - 1].id) = ScopeOf(stack, i - 1)
      BY <1>2, <3>1 DEF ScopeOf
    <3>3. CASE i \in 1..n
      BY <1>1, <1>2, <3>2, <3>3 DEF InvOf, ScopeInv
    <3>4. CASE i = n + 1
      <4>1. i - 1 = n
        BY <1>1, <3>4
      <4>2. QED
        BY <1>1, <1>2, <3>2, <3>4, <4>1 DEF InvOf, ScopeInv, n
    <3>5. QED
      BY <1>3, <3>3, <3>4
  <2>2. Len(frames') # 0 /\ env' = frames'[Len(frames')].id
    BY <1>1, <1>2
  <2>3. QED
    BY <1>2, <2>1, <2>2 DEF ScopeInv, ScopeOf
<1>9. OldInv(frames)'
  <2>1. \A i, j \in 1..n : i < j /\ stack[j].kind = "function" /\ stack[i].phase # "pre" => stack[i].calls
    BY <1>1 DEF InvOf, OldInv
  <2>2. \A i \in 1..n : e.kind = "function" /\ stack[i].phase # "pre" => stack[i].calls
    BY <1>1 DEF Enters
  <2>3. \A i \in 1..(n + 1) : ~(n + 1 < i)
    BY <1>1
  <2>4. \A i \in 1..n : stack[i].contract /\ stack[i].phase # "pre" /\ ~stack[i].calls => old' = stack[i].id
    BY <1>1 DEF InvOf, OldInv
  <2>5. ~(e.contract /\ e.phase # "pre")
    BY DEF Enters
  <2>6. QED
    BY <1>2, <1>3, <2>1, <2>2, <2>3, <2>4, <2>5 DEF OldInv
<1>10. PlacesInv(frames, ran)'
  <2>1. PlacesInv(stack, rs)
    BY DEF InvOf
  <2>2. <<>> \in Seq(DOMAIN deferrer) /\ Increasing(<<>>) /\ \A d : ~Holds(<<>>, d)
    BY DEF Increasing, Holds
  <2>3. \A i \in 1..n : frames'[i].todo = stack[i].todo
    BY <1>2
  <2>4. frames'[n + 1].todo = <<>>
    BY <1>1, <1>2
  <2>5. Increasing(deferred)
    BY <2>1 DEF PlacesInv
  <2>6. \A i \in 1..(n + 1) : frames'[i].todo \in Seq(DOMAIN deferrer) /\ Increasing(frames'[i].todo)
    BY <1>1, <1>3, <2>1, <2>2, <2>3, <2>4 DEF PlacesInv
  <2>7. \A i \in 1..(n + 1), d \in DOMAIN deferrer : ~(Holds(deferred, d) /\ Holds(frames'[i].todo, d))
    BY <1>1, <1>3, <2>1, <2>2, <2>3, <2>4 DEF PlacesInv
  <2>8. \A i, j \in 1..(n + 1), d \in DOMAIN deferrer :
           i # j => ~(Holds(frames'[i].todo, d) /\ Holds(frames'[j].todo, d))
    BY <1>1, <1>3, <2>1, <2>2, <2>3, <2>4 DEF PlacesInv
  <2>9. \A r \in DOMAIN rs : /\ ~Holds(deferred, rs[r].id)
                             /\ \A i \in 1..(n + 1) : ~Holds(frames'[i].todo, rs[r].id)
    BY <1>1, <1>3, <2>1, <2>2, <2>3, <2>4 DEF PlacesInv
  <2>10. QED
    <3>1. Increasing(deferred)'
      BY <1>1, <2>5 DEF Increasing
    <3>2. (\A i \in DOMAIN frames : frames[i].todo \in Seq(DOMAIN deferrer) /\ Increasing(frames[i].todo))'
      BY <1>1, <1>2, <2>6 DEF Increasing
    <3>3. (\A i \in DOMAIN frames, d \in DOMAIN deferrer : ~(Holds(deferred, d) /\ Holds(frames[i].todo, d)))'
      BY <1>1, <1>2, <2>7 DEF Holds
    <3>4. (\A i, j \in DOMAIN frames, d \in DOMAIN deferrer :
              i # j => ~(Holds(frames[i].todo, d) /\ Holds(frames[j].todo, d)))'
      BY <1>1, <1>2, <2>8 DEF Holds
    <3>5. (\A r \in DOMAIN ran : /\ ~Holds(deferred, ran[r].id)
                                 /\ \A i \in DOMAIN frames : ~Holds(frames[i].todo, ran[r].id))'
      BY <1>1, <1>2, <2>9 DEF Holds
    <3>6. QED
      BY <3>1, <3>2, <3>3, <3>4, <3>5 DEF PlacesInv
<1>11. OwnersInv(frames)'
  <2>1. ASSUME NEW p \in DOMAIN deferred, deferrer[deferred[p]] \notin abandoned
        PROVE  \E i \in 1..(n + 1) : /\ frames'[i].id = deferrer[deferred[p]] /\ frames'[i].phase = "body"
                                     /\ frames'[i].base < p
                                     /\ i # n + 1 => p <= frames'[i + 1].base
    <3>1. PICK i \in 1..n : /\ stack[i].id = deferrer[deferred[p]] /\ stack[i].phase = "body"
                            /\ stack[i].base < p
                            /\ i # n => p <= stack[i + 1].base
      BY <1>1, <2>1 DEF InvOf, OwnersInv, n
    <3>2. p <= Len(deferred)
      BY DEF InvOf, TypeInv
    <3>3. i # n => i + 1 \in 1..n
      BY <1>1
    <3>4. p <= frames'[i + 1].base
      BY <1>1, <1>2, <3>1, <3>2, <3>3
    <3>5. QED
      BY <1>2, <1>3, <3>1, <3>4
  <2>2. \A i \in 1..(n + 1) : \A q \in DOMAIN frames'[i].todo :
           deferrer[frames'[i].todo[q]] = frames'[i].id \/ deferrer[frames'[i].todo[q]] \in abandoned
    <3>1. DOMAIN <<>> = {}
      OBVIOUS
    <3>2. QED
      BY <1>1, <1>2, <1>3, <3>1 DEF InvOf, OwnersInv
  <2>3. QED
    BY <1>1, <1>2, <2>1, <2>2 DEF OwnersInv
<1>12. RanInv(frames, ran)'
  <2>1. \A r \in DOMAIN rs : rs[r].by # made + 1
    <3>1. \A r \in DOMAIN rs : rs[r].by \in 1..made
      BY RanIsTyped DEF InvOf
    <3>2. QED
      BY <1>1, <3>1
  <2>2. QED
    BY <1>1, <1>2, <1>3, <2>1 DEF InvOf, RanInv
<1>13. KeptInv(frames, ran)'
  <2>1. \A d \in DOMAIN deferrer :
          \/ Ran(rs, d)
          \/ /\ Holds(deferred, d) \/ \E i \in 1..n : Holds(stack[i].todo, d)
             /\ deferrer[d] \in abandoned \/ \E i \in 1..n : stack[i].id = deferrer[d]
    BY <1>1 DEF InvOf, KeptInv
  <2>2. \A d \in DOMAIN deferrer :
          \/ Ran(rs, d)
          \/ /\ Holds(deferred, d) \/ \E i \in 1..(n + 1) : Holds(frames'[i].todo, d)
             /\ deferrer[d] \in abandoned \/ \E i \in 1..(n + 1) : frames'[i].id = deferrer[d]
    BY <1>2, <1>3, <2>1
  <2>3. QED
    BY <1>1, <1>2, <2>2 DEF KeptInv, Ran, Holds
<1>14. OrderInv(ran)'
  BY <1>1 DEF InvOf, OrderInv
<1>15. QED
  BY <1>6, <1>7, <1>8, <1>9, <1>10, <1>11, <1>12, <1>13, <1>14 DEF IInv, InvOf

LEMMA NewFrameIs ==
    ASSUME NEW fs, NEW rs, InvOf(fs, rs), made < MaxFrames,
           NEW kind \in {"function", "block"}, NEW contract \in BOOLEAN, NEW swallow \in BOOLEAN
    PROVE  LET e == NewFrame(kind, contract, swallow)
           IN  /\ e \in Frames /\ e.id = made + 1 /\ e.kind = kind /\ e.contract = contract
               /\ e.previous = env /\ e.base = Len(deferred) /\ e.todo = <<>> /\ e.swallow = swallow
               /\ e.phase = (IF contract THEN "pre" ELSE "body")
<1>1. made \in Nat /\ MaxFrames \in Nat /\ MaxDefers \in Nat /\ env \in 0..made
  BY BoundsAssumption DEF InvOf, TypeInv
<1>2. Len(deferred) \in 0..MaxDefers
  <2>1. /\ Len(deferrer) \in Nat /\ DOMAIN deferrer = 1..Len(deferrer) /\ Len(deferrer) <= MaxDefers
        /\ deferred \in Seq(DOMAIN deferrer) /\ Increasing(deferred)
    BY DEF InvOf, TypeInv, PlacesInv
  <2>2. Len(deferred) \in 0..Len(deferrer)
    BY <2>1, IncreasingIsShort
  <2>3. QED
    BY <1>1, <2>1, <2>2
<1>3. made + 1 \in 1..MaxFrames /\ env \in 0..MaxFrames
  BY <1>1
<1>4. <<>> \in Seq(1..MaxDefers)
  OBVIOUS
<1>5. QED
  BY <1>2, <1>3, <1>4 DEF NewFrame, Frames

LEMMA EnterBlockHolds ==
    ASSUME IInv, EnterBlock
    PROVE  IInv'
<1>1. PICK stack, rs, e : stack = frames /\ rs = ran /\ e = NewFrame("block", FALSE, FALSE)
  OBVIOUS
<1>2. InvOf(stack, rs)
  BY <1>1 DEF IInv
<1>3. made < MaxFrames /\ Len(stack) < MaxDepth
  BY <1>1 DEF EnterBlock, MayEnter
<1>4. /\ e \in Frames /\ e.id = made + 1 /\ e.kind = "block" /\ e.contract = FALSE
      /\ e.previous = env /\ e.base = Len(deferred) /\ e.todo = <<>> /\ e.phase = "body"
  BY <1>1, <1>2, <1>3, NewFrameIs
<1>5. stack[Len(stack)].phase = "body"
  <2>1. frames # <<>> /\ Top.phase = "body"
    BY DEF EnterBlock, In
  <2>2. QED
    BY <1>1, <2>1, AtTop
<1>6. Enters(stack, rs, e)
  BY <1>1, <1>3, <1>4, <1>5 DEF EnterBlock, Enters
<1>7. QED
  BY <1>2, <1>6, Entered

\* Whoever is past its preconditions has called a function.
Calling(stack) == [i \in DOMAIN stack |-> [stack[i] EXCEPT !.calls = @ \/ stack[i].phase # "pre"]]

LEMMA CallingHolds ==
    ASSUME NEW stack, NEW rs, InvOf(stack, rs)
    PROVE  /\ InvOf(Calling(stack), rs) /\ Len(Calling(stack)) = Len(stack)
           /\ DOMAIN Calling(stack) = DOMAIN stack
           /\ \A i \in DOMAIN stack : /\ Calling(stack)[i].phase = stack[i].phase
                                      /\ stack[i].phase # "pre" => Calling(stack)[i].calls
<1> DEFINE t == Calling(stack)
           n == Len(stack)
<1>1. stack \in Seq(Frames) /\ n \in Nat /\ DOMAIN stack = 1..n /\ DOMAIN t = 1..n
  BY DEF InvOf, TypeInv, Calling
<1>2. ASSUME NEW i \in 1..n
      PROVE  /\ t[i] \in Frames
             /\ t[i].id = stack[i].id /\ t[i].kind = stack[i].kind /\ t[i].contract = stack[i].contract
             /\ t[i].previous = stack[i].previous /\ t[i].base = stack[i].base
             /\ t[i].phase = stack[i].phase /\ t[i].todo = stack[i].todo /\ t[i].swallow = stack[i].swallow
             /\ stack[i].phase # "pre" => t[i].calls
             /\ stack[i].phase = "pre" => t[i].calls = stack[i].calls
  <2>1. stack[i] \in Frames
    BY <1>1
  <2>2. t[i] = [stack[i] EXCEPT !.calls = stack[i].calls \/ stack[i].phase # "pre"]
    BY <1>1 DEF Calling
  <2>3. (stack[i].calls \/ stack[i].phase # "pre") \in BOOLEAN /\ stack[i].calls \in BOOLEAN
    BY <2>1 DEF Frames
  <2> HIDE DEF t
  <2>4. QED
    BY <2>1, <2>2, <2>3 DEF Frames
<1> HIDE DEF t
<1>3. t \in Seq(Frames) /\ Len(t) = n
  <2>1. t = [i \in 1..n |-> t[i]]
    BY <1>1 DEF t, Calling
  <2>2. QED
    BY <1>1, <1>2, <2>1
<1> HIDE DEF n
<1>4. TypeInv(t, rs)
  BY <1>3 DEF InvOf, TypeInv, n
<1>5. FramesInv(t)
  <2>1. \A i \in 1..n : i # n => i + 1 \in 1..n
    BY <1>1
  <2>2. QED
    BY <1>1, <1>2, <1>3, <2>1 DEF InvOf, FramesInv, n
<1>6. ScopeInv(t)
  <2>1. \A i \in 1..n : i - 1 = 0 \/ i - 1 \in 1..n
    BY <1>1
  <2>2. n = 0 \/ n \in 1..n
    BY <1>1
  <2>3. QED
    BY <1>1, <1>2, <1>3, <2>1, <2>2 DEF InvOf, ScopeInv, ScopeOf, n
<1>7. OldInv(t)
  BY <1>1, <1>2 DEF InvOf, OldInv
<1>8. PlacesInv(t, rs)
  BY <1>1, <1>2 DEF InvOf, PlacesInv
<1>9. OwnersInv(t)
  <2>1. \A i \in 1..n : i # n => i + 1 \in 1..n
    BY <1>1
  <2>2. ASSUME NEW p \in DOMAIN deferred, deferrer[deferred[p]] \notin abandoned
        PROVE  \E i \in 1..n : /\ t[i].id = deferrer[deferred[p]] /\ t[i].phase = "body"
                               /\ t[i].base < p
                               /\ i # n => p <= t[i + 1].base
    <3>1. PICK i \in 1..n : /\ stack[i].id = deferrer[deferred[p]] /\ stack[i].phase = "body"
                            /\ stack[i].base < p
                            /\ i # n => p <= stack[i + 1].base
      BY <1>1, <2>2 DEF InvOf, OwnersInv, n
    <3>2. QED
      BY <1>2, <2>1, <3>1
  <2>3. \A i \in 1..n : \A q \in DOMAIN t[i].todo :
           deferrer[t[i].todo[q]] = t[i].id \/ deferrer[t[i].todo[q]] \in abandoned
    BY <1>1, <1>2 DEF InvOf, OwnersInv
  <2>4. QED
    BY <1>1, <1>3, <2>2, <2>3 DEF OwnersInv
<1>10. RanInv(t, rs) /\ KeptInv(t, rs) /\ OrderInv(rs)
  BY <1>1, <1>2 DEF InvOf, RanInv, KeptInv
<1>11. QED
  BY <1>1, <1>2, <1>3, <1>4, <1>5, <1>6, <1>7, <1>8, <1>9, <1>10 DEF InvOf, t, n

LEMMA EnterHolds ==
    ASSUME NEW stack, NEW rs, InvOf(stack, rs), Len(stack) = Len(frames),
           NEW contract \in BOOLEAN, NEW swallow \in BOOLEAN, Enter(stack, contract, swallow),
           ran' = rs, deferrer' = deferrer,
           \A i \in DOMAIN stack : stack[i].phase = "defers" /\ i = Len(stack) => swallow
    PROVE  IInv'
<1>1. PICK called, e : called = Calling(stack) /\ e = NewFrame("function", contract, swallow)
  OBVIOUS
<1>2. made < MaxFrames /\ Len(frames) < MaxDepth
  BY DEF Enter, MayEnter
<1>3. /\ InvOf(called, rs) /\ Len(called) = Len(stack) /\ DOMAIN called = DOMAIN stack
      /\ \A i \in DOMAIN stack : called[i].phase = stack[i].phase /\ (stack[i].phase # "pre" => called[i].calls)
  BY <1>1, CallingHolds
<1>4. /\ e \in Frames /\ e.id = made + 1 /\ e.kind = "function" /\ e.contract = contract
      /\ e.previous = env /\ e.base = Len(deferred) /\ e.todo = <<>> /\ e.swallow = swallow
      /\ e.phase = (IF contract THEN "pre" ELSE "body")
  BY <1>1, <1>2, NewFrameIs
<1>5. frames' = Append(called, e)
  BY <1>1 DEF Enter, Calling
<1>6. Enters(called, rs, e)
  BY <1>2, <1>3, <1>4, <1>5 DEF Enter, Enters
<1>7. QED
  BY <1>3, <1>6, Entered

LEMMA CallHolds ==
    ASSUME IInv, Call
    PROVE  IInv'
<1>1. PICK stack, rs : stack = frames /\ rs = ran
  OBVIOUS
<1>2. PICK contract \in BOOLEAN : Enter(frames, contract, FALSE)
  BY DEF Call
<1>3. ran' = ran /\ deferrer' = deferrer
  BY DEF Call
<1>4. ASSUME NEW i \in DOMAIN frames, frames[i].phase = "defers", i = Len(frames)
      PROVE  FALSE
  <2>1. frames # <<>>
    BY <1>4
  <2>2. Top.phase = "defers"
    BY <1>4, <2>1, AtTop
  <2>3. QED
    BY <2>1, <2>2 DEF Call, In
<1>5. QED
  BY <1>1, <1>2, <1>3, <1>4, EnterHolds DEF IInv

\* A part of the invariant of the next stack is one of the next state when the
\* variables it reads stay.
LEMMA Primed ==
    ASSUME UNCHANGED <<deferred, deferrer, abandoned>>
    PROVE  /\ PlacesInv(frames', ran') => PlacesInv(frames, ran)'
           /\ OwnersInv(frames') => OwnersInv(frames)'
           /\ RanInv(frames', ran') => RanInv(frames, ran)'
           /\ KeptInv(frames', ran') => KeptInv(frames, ran)'
           /\ OrderInv(ran') => OrderInv(ran)'
<1>1. PlacesInv(frames', ran') => PlacesInv(frames, ran)'
  BY DEF PlacesInv, Increasing, Holds
<1>2. OwnersInv(frames') => OwnersInv(frames)'
  BY DEF OwnersInv
<1>3. RanInv(frames', ran') => RanInv(frames, ran)'
  BY DEF RanInv
<1>4. KeptInv(frames', ran') => KeptInv(frames, ran)'
  BY DEF KeptInv, Holds, Ran
<1>5. OrderInv(ran') => OrderInv(ran)'
  BY DEF OrderInv
<1>6. QED
  BY <1>1, <1>2, <1>3, <1>4, <1>5

(***************************************************************************)
(* Going on: the innermost activation changes, the others stay.            *)
(***************************************************************************)
Changed(t, e) ==
    /\ t \in Seq(Frames) /\ Len(t) = Len(frames) /\ DOMAIN t = 1..Len(frames)
    /\ t[Len(frames)] = e
    /\ \A i \in 1..Len(frames) : i # Len(frames) => t[i] = frames[i]
    /\ \A i \in 1..Len(frames) :
         /\ t[i].id = frames[i].id /\ t[i].kind = frames[i].kind /\ t[i].contract = frames[i].contract
         /\ t[i].previous = frames[i].previous /\ t[i].base = frames[i].base
         /\ t[i].swallow = frames[i].swallow /\ t[i].calls = frames[i].calls

NextTop(phase, todo) == [Top EXCEPT !.phase = phase, !.todo = todo]
NextStack(phase, todo) == Append(Below, NextTop(phase, todo))

LEMMA TopChanges ==
    ASSUME IInv, frames # <<>>, NEW phase \in {"pre", "body", "defers", "post"},
           NEW todo \in Seq(DOMAIN deferrer),
           phase # "defers" => todo = <<>>,
           Top.kind = "block" => phase \in {"body", "defers"}
    PROVE  /\ Changed(NextStack(phase, todo), NextTop(phase, todo))
           /\ NextTop(phase, todo).phase = phase /\ NextTop(phase, todo).todo = todo
           /\ NextTop(phase, todo).id = Top.id
           /\ FramesInv(NextStack(phase, todo)) /\ ScopeInv(NextStack(phase, todo))
<1> DEFINE e == NextTop(phase, todo)
           t == NextStack(phase, todo)
           n == Len(frames)
<1>1. /\ frames \in Seq(Frames) /\ n \in Nat /\ n > 0 /\ DOMAIN frames = 1..n /\ n \in 1..n
      /\ Top = frames[n] /\ Top \in Frames
  BY AtTop
<1>2. todo \in Seq(1..MaxDefers)
  <2>1. Len(deferrer) \in Nat /\ DOMAIN deferrer = 1..Len(deferrer) /\ Len(deferrer) <= MaxDefers /\ MaxDefers \in Nat
    BY BoundsAssumption DEF IInv, InvOf, TypeInv
  <2>2. DOMAIN deferrer \subseteq 1..MaxDefers
    BY <2>1
  <2>3. QED
    <3> DEFINE A == DOMAIN deferrer
               B == 1..MaxDefers
    <3>1. todo \in Seq(A) /\ A \subseteq B
      BY <2>2
    <3> HIDE DEF A, B
    <3>2. todo \in Seq(B)
      BY <3>1
    <3>3. QED
      BY <3>2 DEF B
<1>3. /\ e \in Frames /\ e.phase = phase /\ e.todo = todo
      /\ e.id = Top.id /\ e.kind = Top.kind /\ e.contract = Top.contract
      /\ e.previous = Top.previous /\ e.base = Top.base
      /\ e.swallow = Top.swallow /\ e.calls = Top.calls
  BY <1>1, <1>2 DEF Frames, NextTop
<1> HIDE DEF e
<1>4. /\ t \in Seq(Frames) /\ Len(t) = n /\ DOMAIN t = 1..n /\ t # <<>>
      /\ t[n] = e /\ \A i \in 1..n : i # n => t[i] = frames[i]
  <2>1. t = Append(Front(frames), e)
    BY DEF NextStack, Below, e
  <2> HIDE DEF t
  <2>2. LET s == Append(Front(frames), e)
        IN  /\ s \in Seq(Frames) /\ Len(s) = Len(frames) /\ DOMAIN s = DOMAIN frames /\ s # <<>>
            /\ s[Len(frames)] = e /\ \A i \in DOMAIN frames : i # Len(frames) => s[i] = frames[i]
    <3>1. frames \in Seq(Frames) /\ frames # <<>> /\ e \in Frames
      BY <1>1, <1>3
    <3> HIDE DEF n
    <3>2. QED
      BY <3>1, TopReplaced
  <2>3. QED
    BY <1>1, <2>1, <2>2
<1> HIDE DEF t, n
<1>5. ASSUME NEW i \in 1..n
      PROVE  /\ t[i].id = frames[i].id /\ t[i].kind = frames[i].kind /\ t[i].contract = frames[i].contract
             /\ t[i].previous = frames[i].previous /\ t[i].base = frames[i].base
             /\ t[i].swallow = frames[i].swallow /\ t[i].calls = frames[i].calls
  BY <1>1, <1>3, <1>4
<1>6. Changed(t, e)
  BY <1>4, <1>5 DEF Changed, n
<1>7. FramesInv(t)
  <2>1. ASSUME NEW i \in 1..n
        PROVE  /\ t[i].kind = "block" => ~t[i].contract /\ t[i].phase \in {"body", "defers"}
               /\ t[i].phase # "defers" => t[i].todo = <<>>
    <3>1. /\ frames[i].kind = "block" => ~frames[i].contract /\ frames[i].phase \in {"body", "defers"}
          /\ frames[i].phase # "defers" => frames[i].todo = <<>>
      BY <1>1 DEF IInv, InvOf, FramesInv
    <3>2. CASE i = n
      BY <1>1, <1>3, <1>4, <3>1, <3>2
    <3>3. CASE i # n
      BY <1>4, <3>1, <3>3
    <3>4. QED
      BY <3>2, <3>3
  <2>2. ASSUME NEW i \in 1..n, i # n, t[i].phase = "defers" PROVE t[i + 1].swallow
    <3>1. i + 1 \in 1..n
      BY <1>1, <2>2
    <3>2. QED
      BY <1>1, <1>4, <1>5, <2>2, <3>1 DEF IInv, InvOf, FramesInv, n
  <2>3. \A i \in 1..n : /\ t[i].id \in 1..made /\ t[i].id \notin abandoned
                        /\ t[i].previous <= made /\ t[i].base <= Len(deferred)
    BY <1>1, <1>5 DEF IInv, InvOf, FramesInv
  <2>4. \A i, j \in 1..n : i < j => t[i].id < t[j].id /\ t[i].base <= t[j].base
    BY <1>1, <1>5 DEF IInv, InvOf, FramesInv
  <2>5. QED
    BY <1>4, <2>1, <2>2, <2>3, <2>4 DEF FramesInv
<1>8. ScopeInv(t)
  <2>1. \A i \in 1..n : i - 1 = 0 \/ i - 1 \in 1..n
    BY <1>1
  <2>2. QED
    BY <1>1, <1>4, <1>5, <2>1 DEF IInv, InvOf, ScopeInv, ScopeOf, n
<1>9. QED
  BY <1>3, <1>6, <1>7, <1>8 DEF t, e

\* The body begins, or the postconditions are next.
LEMMA PhaseMoves ==
    ASSUME IInv, frames # <<>>, NEW phase,
           (Top.phase = "pre" /\ phase = "body") \/ (Top.phase = "defers" /\ phase = "post"),
           Top.todo = <<>>,
           frames' = Append(Below, [Top EXCEPT !.phase = phase]),
           UNCHANGED <<made, env, deferred, deferrer, ran, abandoned>>,
           phase = "post" => Top.kind = "function",
           old' = IF phase = "body" THEN Top.id ELSE old
    PROVE  IInv'
<1> DEFINE n == Len(frames)
<1>1. PICK e, t : e = NextTop(phase, <<>>) /\ t = NextStack(phase, <<>>)
  OBVIOUS
<1>2. /\ n \in Nat /\ n > 0 /\ DOMAIN frames = 1..n /\ n \in 1..n /\ Top = frames[n] /\ Top \in Frames
  BY AtTop
<1>3. frames' = t
  <2>1. [Top EXCEPT !.phase = phase].todo = <<>>
    BY <1>2 DEF Frames
  <2>2. [Top EXCEPT !.phase = phase] = e
    BY <1>1, <1>2, <2>1 DEF Frames, NextTop
  <2>3. QED
    BY <1>1, <2>2 DEF NextStack
<1>4. Changed(t, e) /\ e.phase = phase /\ e.todo = <<>> /\ e.id = Top.id /\ FramesInv(t) /\ ScopeInv(t)
  <2>1. <<>> \in Seq(DOMAIN deferrer)
    OBVIOUS
  <2>2. phase \in {"pre", "body", "defers", "post"} /\ phase # "defers"
    OBVIOUS
  <2>3. Top.kind = "block" => phase \in {"body", "defers"}
    OBVIOUS
  <2>4. QED
    <3>1. /\ Changed(NextStack(phase, <<>>), NextTop(phase, <<>>))
          /\ NextTop(phase, <<>>).phase = phase /\ NextTop(phase, <<>>).todo = <<>>
          /\ NextTop(phase, <<>>).id = Top.id
          /\ FramesInv(NextStack(phase, <<>>)) /\ ScopeInv(NextStack(phase, <<>>))
      BY <2>1, <2>2, <2>3, TopChanges, Zenon
    <3>2. QED
      BY <1>1, <3>1
<1>5. /\ t \in Seq(Frames) /\ Len(t) = n /\ DOMAIN t = 1..n
      /\ t[n] = e /\ \A i \in 1..n : i # n => t[i] = frames[i]
      /\ \A i \in 1..n :
           /\ t[i].id = frames[i].id /\ t[i].kind = frames[i].kind /\ t[i].contract = frames[i].contract
           /\ t[i].base = frames[i].base /\ t[i].calls = frames[i].calls
  BY <1>4 DEF Changed
<1> HIDE DEF n
<1>6. \A i \in 1..n : t[i].todo = frames[i].todo
  BY <1>2, <1>4, <1>5
<1>7. TypeInv(frames, ran)'
  <2>1. old' \in 0..made
    <3>1. Top.id \in 1..made /\ made \in Nat /\ old \in 0..made
      <4>1. made \in 0..MaxFrames /\ old \in 0..made /\ MaxFrames \in Nat
        BY BoundsAssumption DEF IInv, InvOf, TypeInv
      <4>2. Top.id \in 1..made
        BY <1>2 DEF IInv, InvOf, FramesInv
      <4>3. QED
        BY <4>1, <4>2
    <3>2. QED
      BY <3>1
  <2>2. Len(frames') <= MaxDepth
    BY <1>3, <1>5 DEF IInv, InvOf, TypeInv, n
  <2>3. QED
    BY <1>3, <1>5, <2>1, <2>2 DEF IInv, InvOf, TypeInv
<1>8. FramesInv(frames)' /\ ScopeInv(frames)'
  BY <1>3, <1>4 DEF FramesInv, ScopeInv, ScopeOf
<1>9. OldInv(frames)'
  <2>1. \A i \in 1..n : ~(n < i) /\ (i # n => i < n)
    BY <1>2
  <2>2. \A i, j \in 1..n : i < j => i # n
    BY <2>1
  <2>3. \A i, j \in 1..n : i < j /\ t[j].kind = "function" /\ t[i].phase # "pre" => t[i].calls
    BY <1>2, <1>5, <2>2 DEF IInv, InvOf, OldInv
  <2>4. ASSUME NEW i \in 1..n, t[i].contract, t[i].phase # "pre", ~t[i].calls
        PROVE  old' = t[i].id
    <3>1. CASE phase = "post"
      <4>1. frames[i].phase # "pre"
        BY <1>2, <1>5, <2>4, <3>1
      <4>2. QED
        BY <1>2, <1>5, <2>4, <3>1, <4>1 DEF IInv, InvOf, OldInv
    <3>2. CASE phase = "body"
      <4>1. Top.kind = "function"
        <5>1. Top.phase = "pre"
          BY <3>2
        <5>2. Top.kind \in {"function", "block"}
          BY <1>2 DEF Frames
        <5>3. QED
          BY <1>2, <5>1, <5>2 DEF IInv, InvOf, FramesInv
      <4>2. i = n
        BY <1>2, <1>5, <2>1, <2>4, <4>1 DEF IInv, InvOf, OldInv
      <4>3. QED
        BY <1>4, <1>5, <3>2, <4>2
    <3>3. QED
      BY <3>1, <3>2
  <2>5. QED
    BY <1>3, <1>5, <2>3, <2>4 DEF OldInv
<1>10. PlacesInv(frames, ran)' /\ KeptInv(frames, ran)'
  <2>1. PlacesInv(t, ran)
    BY <1>2, <1>5, <1>6 DEF IInv, InvOf, PlacesInv
  <2>2. KeptInv(t, ran)
    BY <1>2, <1>5, <1>6 DEF IInv, InvOf, KeptInv
  <2>3. QED
    BY <1>3, <2>1, <2>2, Primed
<1>11. OwnersInv(frames)'
  <2>1. \A i \in 1..n : i # n => i + 1 \in 1..n
    BY <1>2
  <2>2. ASSUME NEW p \in DOMAIN deferred, deferrer[deferred[p]] \notin abandoned
        PROVE  \E i \in 1..n : /\ t[i].id = deferrer[deferred[p]] /\ t[i].phase = "body"
                               /\ t[i].base < p
                               /\ i # n => p <= t[i + 1].base
    <3>1. PICK i \in 1..n : /\ frames[i].id = deferrer[deferred[p]] /\ frames[i].phase = "body"
                            /\ frames[i].base < p
                            /\ i # n => p <= frames[i + 1].base
      BY <1>2, <2>2 DEF IInv, InvOf, OwnersInv, n
    <3>2. i # n
      BY <1>2, <3>1
    <3>3. QED
      BY <1>5, <2>1, <3>1, <3>2
  <2>3. \A i \in 1..n : \A q \in DOMAIN t[i].todo :
           deferrer[t[i].todo[q]] = t[i].id \/ deferrer[t[i].todo[q]] \in abandoned
    BY <1>2, <1>5, <1>6 DEF IInv, InvOf, OwnersInv
  <2>4. OwnersInv(t)
    BY <1>5, <2>2, <2>3 DEF OwnersInv
  <2>5. QED
    BY <1>3, <2>4, Primed
<1>12. RanInv(frames, ran)'
  <2>1. ASSUME NEW r \in DOMAIN ran, NEW i \in 1..n, ran[r].by = t[i].id
        PROVE  /\ t[i].phase \in {"defers", "post"}
               /\ \A q \in DOMAIN t[i].todo : t[i].todo[q] < ran[r].id
    <3>1. /\ frames[i].phase \in {"defers", "post"}
          /\ \A q \in DOMAIN frames[i].todo : frames[i].todo[q] < ran[r].id
      BY <1>2, <1>5, <2>1 DEF IInv, InvOf, RanInv
    <3>2. t[i].phase \in {"defers", "post"}
      BY <1>2, <1>4, <1>5, <3>1
    <3>3. QED
      BY <1>6, <3>1, <3>2
  <2>2. RanInv(t, ran)
    BY <1>5, <2>1 DEF RanInv
  <2>3. QED
    BY <1>3, <2>2, Primed
<1>13. OrderInv(ran)'
  BY DEF IInv, InvOf, OrderInv
<1>14. QED
  BY <1>7, <1>8, <1>9, <1>10, <1>11, <1>12, <1>13 DEF IInv, InvOf

LEMMA PhasesHold ==
    ASSUME IInv, BeginBody \/ CheckPostconditions
    PROVE  IInv'
<1>1. CASE BeginBody
  <2>1. frames # <<>> /\ Top.phase = "pre"
    BY <1>1 DEF BeginBody, In
  <2>2. Top.todo = <<>>
    <3>1. Top = frames[Len(frames)] /\ Len(frames) \in DOMAIN frames
      BY <2>1, AtTop
    <3>2. QED
      BY <2>1, <3>1 DEF IInv, InvOf, FramesInv
  <2>3. PICK phase : phase = "body"
    OBVIOUS
  <2>4. QED
    BY <1>1, <2>1, <2>2, <2>3, PhaseMoves DEF BeginBody, CaptureOld
<1>2. CASE CheckPostconditions
  <2>1. PICK phase : phase = "post"
    OBVIOUS
  <2>2. QED
    BY <1>2, <2>1, PhaseMoves DEF CheckPostconditions, In
<1>3. QED
  BY <1>1, <1>2

LEMMA PrimedAll ==
    ASSUME UNCHANGED <<made, env, deferred, old, deferrer, abandoned>>, InvOf(frames', ran')
    PROVE  IInv'
<1>1. TypeInv(frames, ran)'
  BY DEF InvOf, TypeInv
<1>2. FramesInv(frames)' /\ ScopeInv(frames)' /\ OldInv(frames)'
  BY DEF InvOf, FramesInv, ScopeInv, ScopeOf, OldInv
<1>3. PlacesInv(frames, ran)' /\ OwnersInv(frames)' /\ RanInv(frames, ran)'
      /\ KeptInv(frames, ran)' /\ OrderInv(ran)'
  BY Primed DEF InvOf
<1>4. QED
  BY <1>1, <1>2, <1>3 DEF IInv, InvOf

\* The last deferred expression moves from those an activation took to those
\* that ran: it is none of the others, and later than those that are left.
LEMMA TakesLast ==
    ASSUME IInv, frames # <<>>, Top.phase = "defers", Top.todo # <<>>,
           NEW t, t = NextStack("defers", Front(Top.todo)),
           NEW rs, rs = Append(ran, [id |-> Last(Top.todo), by |-> Top.id])
    PROVE  InvOf(t, rs) /\ Changed(t, NextTop("defers", Front(Top.todo)))
<1> DEFINE n == Len(frames)
           todo == Top.todo
           left == Front(todo)
           last == Last(todo)
           k == Len(todo)
           m == Len(ran)
<1>1. /\ n \in Nat /\ n > 0 /\ DOMAIN frames = 1..n /\ n \in 1..n /\ Top = frames[n] /\ Top \in Frames
  BY AtTop
<1>2. todo \in Seq(DOMAIN deferrer) /\ Increasing(todo)
  BY <1>1 DEF IInv, InvOf, PlacesInv
<1>3. /\ k \in Nat \ {0} /\ k \in DOMAIN todo /\ DOMAIN todo = 1..k
      /\ last = todo[k] /\ last \in DOMAIN deferrer
      /\ left \in Seq(DOMAIN deferrer) /\ DOMAIN left = 1..(k - 1)
      /\ \A i \in 1..(k - 1) : left[i] = todo[i]
  <2> HIDE DEF todo
  <2>1. todo # <<>>
    BY DEF todo
  <2>2. QED
    BY <1>2, <2>1, Topmost
<1> HIDE DEF k
<1>4. /\ \A i \in 1..(k - 1) : i \in 1..k /\ i < k
      /\ \A i \in 1..k : i \in 1..(k - 1) \/ i = k
  BY <1>3
<1>5. /\ Increasing(left) /\ \A q \in DOMAIN left : left[q] < last
      /\ \A d : Holds(todo, d) <=> Holds(left, d) \/ d = last
      /\ ~Holds(left, last) /\ Holds(todo, last)
  <2>1. \A q \in DOMAIN left : left[q] < last
    BY <1>2, <1>3, <1>4 DEF Increasing
  <2>2. \A q \in DOMAIN left : left[q] \in Nat
    <3>1. DOMAIN deferrer \subseteq Nat
      <4>1. Len(deferrer) \in Nat /\ DOMAIN deferrer = 1..Len(deferrer)
        BY DEF IInv, InvOf, TypeInv
      <4>2. QED
        BY <4>1
    <3>2. \A q \in DOMAIN left : left[q] \in DOMAIN deferrer
      BY <1>3
    <3>3. QED
      BY <3>1, <3>2
  <2>3. ~Holds(left, last)
    BY <2>1, <2>2 DEF Holds
  <2>4. Increasing(left)
    BY <1>2, <1>3, <1>4 DEF Increasing
  <2>5. \A d : Holds(todo, d) <=> Holds(left, d) \/ d = last
    BY <1>3, <1>4 DEF Holds
  <2>6. QED
    BY <2>1, <2>3, <2>4, <2>5
<1>6. m \in Nat /\ DOMAIN ran = 1..m /\ \A r \in 1..m : ran[r].id \in DOMAIN deferrer /\ ran[r].by \in 1..made
  BY RanIsTyped DEF IInv, InvOf
<1>7. /\ rs \in Seq([id : DOMAIN deferrer, by : 1..made])
      /\ Len(rs) = m + 1 /\ DOMAIN rs = 1..(m + 1)
      /\ rs[m + 1].id = last /\ rs[m + 1].by = Top.id
      /\ \A r \in 1..m : rs[r] = ran[r]
  <2> DEFINE A == [id : DOMAIN deferrer, by : 1..made]
             new == [id |-> last, by |-> Top.id]
  <2>1. ran \in Seq(A)
    BY DEF IInv, InvOf, TypeInv
  <2>2. Top.id \in 1..made
    BY <1>1 DEF IInv, InvOf, FramesInv
  <2>3. new \in A /\ new.id = last /\ new.by = Top.id
    BY <1>3, <2>2
  <2>4. rs = Append(ran, new)
    OBVIOUS
  <2> HIDE DEF A, new
  <2>5. /\ rs \in Seq(A) /\ Len(rs) = m + 1 /\ DOMAIN rs = 1..(m + 1) /\ rs[m + 1] = new
        /\ \A r \in 1..m : rs[r] = ran[r]
    BY <2>1, <2>3, <2>4, Pushed
  <2>6. QED
    BY <2>3, <2>5 DEF A
<1> HIDE DEF todo, left, last, m
<1>8. \A r \in 1..(m + 1) : r \in 1..m \/ r = m + 1
  BY <1>6
<1>9. PICK e : e = NextTop("defers", left)
  OBVIOUS
<1>10. Changed(t, e) /\ e.phase = "defers" /\ e.todo = left /\ e.id = Top.id /\ FramesInv(t) /\ ScopeInv(t)
  <2>1. /\ Changed(NextStack("defers", left), NextTop("defers", left))
        /\ NextTop("defers", left).phase = "defers" /\ NextTop("defers", left).todo = left
        /\ NextTop("defers", left).id = Top.id
        /\ FramesInv(NextStack("defers", left)) /\ ScopeInv(NextStack("defers", left))
    BY <1>3, TopChanges
  <2>2. t = NextStack("defers", left)
    BY DEF left, todo
  <2>3. QED
    BY <1>9, <2>1, <2>2
<1> HIDE DEF n
<1>11. /\ t \in Seq(Frames) /\ Len(t) = n /\ DOMAIN t = 1..n
       /\ t[n] = e /\ \A i \in 1..n : i # n => t[i] = frames[i]
       /\ \A i \in 1..n :
           /\ t[i].id = frames[i].id /\ t[i].kind = frames[i].kind /\ t[i].contract = frames[i].contract
           /\ t[i].base = frames[i].base /\ t[i].calls = frames[i].calls /\ t[i].phase = frames[i].phase
  BY <1>1, <1>10 DEF Changed, n
<1>12. /\ \A i \in 1..n : \A d : Holds(t[i].todo, d) => Holds(frames[i].todo, d)
       /\ \A i \in 1..n : Holds(frames[i].todo, last) => i = n
       /\ \A i \in 1..n : ~Holds(t[i].todo, last)
       /\ \A i \in 1..n : \A d : Holds(frames[i].todo, d) /\ d # last => Holds(t[i].todo, d)
       /\ ~Holds(deferred, last)
  <2>1. \A i \in 1..n : Holds(frames[i].todo, last) => i = n
    BY <1>1, <1>3, <1>5 DEF IInv, InvOf, PlacesInv, todo
  <2>2. ~Holds(deferred, last)
    BY <1>1, <1>3, <1>5 DEF IInv, InvOf, PlacesInv, todo
  <2>3. t[n].todo = left /\ frames[n].todo = todo
    BY <1>1, <1>10, <1>11 DEF todo
  <2>4. \A i \in 1..n : i # n => t[i].todo = frames[i].todo
    BY <1>11
  <2>5. QED
    BY <1>5, <2>1, <2>2, <2>3, <2>4
<1>13. TypeInv(t, rs)
  BY <1>7, <1>11 DEF IInv, InvOf, TypeInv, n
<1>14. OldInv(t)
  <2>1. \A i, j \in 1..n : i < j /\ t[j].kind = "function" /\ t[i].phase # "pre" => t[i].calls
    BY <1>1, <1>11 DEF IInv, InvOf, OldInv
  <2>2. \A i \in 1..n : t[i].contract /\ t[i].phase # "pre" /\ ~t[i].calls => old = t[i].id
    BY <1>1, <1>11 DEF IInv, InvOf, OldInv
  <2>3. QED
    BY <1>11, <2>1, <2>2 DEF OldInv
<1>15. PlacesInv(t, rs)
  <2>1. PlacesInv(frames, ran)
    BY DEF IInv, InvOf
  <2>2. \A i \in 1..n : t[i].todo \in Seq(DOMAIN deferrer) /\ Increasing(t[i].todo)
    <3>1. t[n].todo \in Seq(DOMAIN deferrer) /\ Increasing(t[n].todo)
      BY <1>3, <1>5, <1>10, <1>11
    <3>2. QED
      BY <1>1, <1>11, <2>1, <3>1 DEF PlacesInv
  <2>3. \A i \in 1..n, d \in DOMAIN deferrer : ~(Holds(deferred, d) /\ Holds(t[i].todo, d))
    BY <1>1, <1>12, <2>1 DEF PlacesInv
  <2>4. \A i, j \in 1..n, d \in DOMAIN deferrer : i # j => ~(Holds(t[i].todo, d) /\ Holds(t[j].todo, d))
    BY <1>1, <1>12, <2>1 DEF PlacesInv
  <2>5. \A r \in 1..m : ~Holds(deferred, ran[r].id) /\ \A i \in 1..n : ~Holds(t[i].todo, ran[r].id)
    BY <1>1, <1>6, <1>12, <2>1 DEF PlacesInv
  <2>6. \A r \in DOMAIN rs : ~Holds(deferred, rs[r].id) /\ \A i \in 1..n : ~Holds(t[i].todo, rs[r].id)
    BY <1>7, <1>8, <1>12, <2>5
  <2>7. Increasing(deferred)
    BY <2>1 DEF PlacesInv
  <2>8. DOMAIN t = 1..n
    BY <1>11
  <2>9. QED
    BY <2>2, <2>3, <2>4, <2>6, <2>7, <2>8 DEF PlacesInv
<1>16. OwnersInv(t)
  <2>1. \A i \in 1..n : i # n => i + 1 \in 1..n
    BY <1>1
  <2>2. ASSUME NEW p \in DOMAIN deferred, deferrer[deferred[p]] \notin abandoned
        PROVE  \E i \in 1..n : /\ t[i].id = deferrer[deferred[p]] /\ t[i].phase = "body"
                               /\ t[i].base < p
                               /\ i # n => p <= t[i + 1].base
    <3>1. PICK i \in 1..n : /\ frames[i].id = deferrer[deferred[p]] /\ frames[i].phase = "body"
                            /\ frames[i].base < p
                            /\ i # n => p <= frames[i + 1].base
      BY <1>1, <2>2 DEF IInv, InvOf, OwnersInv, n
    <3>2. QED
      BY <1>11, <2>1, <3>1
  <2>3. ASSUME NEW i \in 1..n, NEW q \in DOMAIN t[i].todo
        PROVE  deferrer[t[i].todo[q]] = t[i].id \/ deferrer[t[i].todo[q]] \in abandoned
    <3>1. PICK p \in DOMAIN frames[i].todo : frames[i].todo[p] = t[i].todo[q]
      BY <1>12 DEF Holds
    <3>2. QED
      BY <1>1, <1>11, <3>1 DEF IInv, InvOf, OwnersInv
  <2>4. QED
    BY <1>11, <2>2, <2>3 DEF OwnersInv
<1>17. RanInv(t, rs)
  <2>1. ASSUME NEW r \in 1..m, NEW i \in 1..n, ran[r].by = t[i].id
        PROVE  /\ t[i].phase \in {"defers", "post"}
               /\ \A q \in DOMAIN t[i].todo : t[i].todo[q] < ran[r].id
    <3>1. /\ frames[i].phase \in {"defers", "post"}
          /\ \A q \in DOMAIN frames[i].todo : frames[i].todo[q] < ran[r].id
      BY <1>1, <1>6, <1>11, <2>1 DEF IInv, InvOf, RanInv
    <3>2. ASSUME NEW q \in DOMAIN t[i].todo PROVE t[i].todo[q] < ran[r].id
      <4>1. PICK p \in DOMAIN frames[i].todo : frames[i].todo[p] = t[i].todo[q]
        BY <1>12 DEF Holds
      <4>2. QED
        BY <3>1, <4>1
    <3>3. QED
      BY <1>11, <3>1, <3>2
  <2>2. ASSUME NEW i \in 1..n, Top.id = t[i].id
        PROVE  t[i].phase = "defers" /\ \A q \in DOMAIN t[i].todo : t[i].todo[q] < last
    <3>1. i = n
      <4>1. \A j \in 1..n : frames[j].id \in Nat
        BY <1>1 DEF IInv, InvOf, FramesInv
      <4>2. i < n => frames[i].id < frames[n].id
        BY <1>1 DEF IInv, InvOf, FramesInv
      <4>3. QED
        BY <1>1, <1>11, <2>2, <4>1, <4>2
    <3>2. QED
      BY <1>5, <1>10, <1>11, <3>1
  <2>3. QED
    BY <1>7, <1>8, <1>11, <2>1, <2>2 DEF RanInv
<1>18. KeptInv(t, rs)
  <2>1. m + 1 \in DOMAIN rs /\ \A r \in 1..m : r \in DOMAIN rs
    BY <1>6, <1>7
  <2>2. ASSUME NEW d \in DOMAIN deferrer, ~Ran(rs, d)
        PROVE  /\ Holds(deferred, d) \/ \E i \in 1..n : Holds(t[i].todo, d)
               /\ deferrer[d] \in abandoned \/ \E i \in 1..n : t[i].id = deferrer[d]
    <3>1. d # last /\ ~Ran(ran, d)
      BY <1>6, <1>7, <2>1, <2>2 DEF Ran
    <3>2. /\ Holds(deferred, d) \/ \E i \in 1..n : Holds(frames[i].todo, d)
          /\ deferrer[d] \in abandoned \/ \E i \in 1..n : frames[i].id = deferrer[d]
      BY <1>1, <3>1 DEF IInv, InvOf, KeptInv
    <3>3. Holds(deferred, d) \/ \E i \in 1..n : Holds(t[i].todo, d)
      BY <1>12, <3>1, <3>2
    <3>4. QED
      BY <1>11, <3>2, <3>3
  <2>3. QED
    BY <1>11, <2>2 DEF KeptInv
<1>19. OrderInv(rs)
  <2>1. /\ \A r, s \in 1..m : ran[r].id = ran[s].id => r = s
        /\ \A r, s \in 1..m : r < s /\ ran[r].by = ran[s].by => ran[s].id < ran[r].id
        /\ \A r \in 1..m : deferrer[ran[r].id] = ran[r].by \/ deferrer[ran[r].id] \in abandoned
    BY <1>6 DEF IInv, InvOf, OrderInv
  <2>2. \A r \in 1..m : ran[r].id # last
    BY <1>1, <1>5, <1>6 DEF IInv, InvOf, PlacesInv, todo
  <2>3. \A r \in 1..m : ran[r].by = Top.id => last < ran[r].id
    <3>1. k \in DOMAIN frames[n].todo /\ frames[n].todo[k] = last
      BY <1>1, <1>3 DEF todo
    <3>2. QED
      BY <1>1, <1>6, <3>1 DEF IInv, InvOf, RanInv
  <2>4. deferrer[last] = Top.id \/ deferrer[last] \in abandoned
    BY <1>1, <1>3 DEF IInv, InvOf, OwnersInv, todo
  <2>5. \A r \in 1..(m + 1) : ~(m + 1 < r) /\ (r \in 1..m => r # m + 1)
    BY <1>6
  <2>6. QED
    BY <1>7, <1>8, <2>1, <2>2, <2>3, <2>4, <2>5 DEF OrderInv
<1>20. QED
  BY <1>9, <1>10, <1>13, <1>14, <1>15, <1>16, <1>17, <1>18, <1>19 DEF InvOf, left, todo

LEMMA RunDeferredHolds ==
    ASSUME IInv, RunDeferred
    PROVE  IInv'
<1>1. frames # <<>> /\ Top.phase = "defers" /\ Top.todo # <<>>
  BY DEF RunDeferred, In
<1>2. PICK t, rs : /\ t = NextStack("defers", Front(Top.todo))
                   /\ rs = Append(ran, [id |-> Last(Top.todo), by |-> Top.id])
  OBVIOUS
<1>3. InvOf(t, rs) /\ Changed(t, NextTop("defers", Front(Top.todo)))
  BY <1>1, <1>2, TakesLast
<1>4. t = Append(Below, [Top EXCEPT !.todo = Front(Top.todo)])
  <2>1. Top \in Frames
    BY <1>1, AtTop
  <2>2. [Top EXCEPT !.todo = Front(Top.todo)] = NextTop("defers", Front(Top.todo))
    BY <1>1, <2>1 DEF Frames, NextTop
  <2>3. QED
    BY <1>2, <2>2 DEF NextStack
<1>5. Len(t) = Len(frames)
  BY <1>3 DEF Changed
<1>6. ran' = rs /\ deferrer' = deferrer
  BY <1>2 DEF RunDeferred, LastDeferred
<1>7. CASE frames' = t /\ UNCHANGED <<made, env, deferred, old, abandoned>>
  BY <1>3, <1>6, <1>7, PrimedAll
<1>8. CASE \E contract \in BOOLEAN : Enter(t, contract, TRUE)
  BY <1>3, <1>5, <1>6, <1>8, EnterHolds
<1>9. QED
  BY <1>4, <1>7, <1>8 DEF RunDeferred, LastDeferred

\* What was deferred since the body of the innermost activation began is its
\* own, or was left by activations that errors ended.
LEMMA DrainHolds ==
    ASSUME IInv, Drain
    PROVE  IInv'
<1> DEFINE n == Len(frames)
           b == Top.base
           c == Len(deferred)
           left == SubSeq(deferred, 1, b)
           todo == SubSeq(deferred, b + 1, c)
<1>1. /\ frames # <<>> /\ Top.phase = "body"
      /\ frames' = Append(Below, [Top EXCEPT !.phase = "defers", !.todo = todo])
      /\ deferred' = left
      /\ UNCHANGED <<made, env, old, deferrer, ran, abandoned>>
  BY DEF Drain, In
<1>2. /\ n \in Nat /\ n > 0 /\ DOMAIN frames = 1..n /\ n \in 1..n /\ Top = frames[n] /\ Top \in Frames
  BY <1>1, AtTop
<1>3. c \in Nat /\ deferred \in Seq(DOMAIN deferrer) /\ DOMAIN deferred = 1..c /\ Increasing(deferred)
  BY DEF IInv, InvOf, TypeInv, PlacesInv
<1>4. b \in Nat /\ b \in 0..c
  <2>1. b \in 0..MaxDefers /\ MaxDefers \in Nat
    BY <1>2, BoundsAssumption DEF Frames
  <2>2. b <= c
    BY <1>2 DEF IInv, InvOf, FramesInv
  <2>3. QED
    BY <1>3, <2>1, <2>2
<1>5. /\ left \in Seq(DOMAIN deferrer) /\ Len(left) = b /\ DOMAIN left = 1..b
      /\ \A p \in 1..b : left[p] = deferred[p]
  <2> HIDE DEF b, c
  <2>1. QED
    BY <1>3, <1>4, Prefix DEF c
<1>6. /\ todo \in Seq(DOMAIN deferrer) /\ DOMAIN todo = 1..(c - b)
      /\ \A q \in 1..(c - b) : todo[q] = deferred[b + q] /\ b + q \in 1..c
  <2> HIDE DEF b
  <2>1. QED
    BY <1>3, <1>4, Suffix
<1>7. PICK e, t : e = NextTop("defers", todo) /\ t = NextStack("defers", todo)
  OBVIOUS
<1>8. frames' = t
  BY <1>1, <1>7 DEF NextStack, NextTop
<1>9. Changed(t, e) /\ e.phase = "defers" /\ e.todo = todo /\ e.id = Top.id /\ FramesInv(t) /\ ScopeInv(t)
  <2> HIDE DEF todo
  <2>1. /\ Changed(NextStack("defers", todo), NextTop("defers", todo))
        /\ NextTop("defers", todo).phase = "defers" /\ NextTop("defers", todo).todo = todo
        /\ NextTop("defers", todo).id = Top.id
        /\ FramesInv(NextStack("defers", todo)) /\ ScopeInv(NextStack("defers", todo))
    BY <1>1, <1>6, TopChanges
  <2>2. QED
    BY <1>7, <2>1
<1>10. UNCHANGED <<made, env, old, deferrer, ran, abandoned>> /\ deferred' = left
  BY <1>1
<1> HIDE DEF n, b, c, left, todo
<1>11. /\ t \in Seq(Frames) /\ Len(t) = n /\ DOMAIN t = 1..n
       /\ t[n] = e /\ \A i \in 1..n : i # n => t[i] = frames[i]
       /\ \A i \in 1..n :
           /\ t[i].id = frames[i].id /\ t[i].kind = frames[i].kind /\ t[i].contract = frames[i].contract
           /\ t[i].base = frames[i].base /\ t[i].calls = frames[i].calls
           /\ t[i].phase # "pre" => frames[i].phase # "pre"
  BY <1>1, <1>2, <1>9 DEF Changed, n
<1>12. /\ \A p \in 1..b : p \in 1..c
       /\ \A p \in 1..c : p \in 1..b \/ (p - b \in 1..(c - b) /\ b + (p - b) = p)
  BY <1>3, <1>4
<1>13. Increasing(left) /\ Increasing(todo)
  <2>1. \A p, q \in 1..(c - b) : p < q => b + p < b + q
    BY <1>3, <1>4
  <2>2. Increasing(todo)
    BY <1>3, <1>6, <2>1 DEF Increasing
  <2>3. Increasing(left)
    BY <1>3, <1>5, <1>12 DEF Increasing
  <2>4. QED
    BY <2>2, <2>3
<1>14. /\ \A d : Holds(deferred, d) <=> Holds(left, d) \/ Holds(todo, d)
       /\ \A d : ~(Holds(left, d) /\ Holds(todo, d))
  <2>1. ASSUME NEW d, Holds(left, d) PROVE Holds(deferred, d)
    BY <1>3, <1>5, <1>12, <2>1 DEF Holds
  <2>2. ASSUME NEW d, Holds(todo, d) PROVE Holds(deferred, d)
    BY <1>3, <1>6, <2>2 DEF Holds
  <2>3. ASSUME NEW d, Holds(deferred, d) PROVE Holds(left, d) \/ Holds(todo, d)
    <3>1. PICK p \in 1..c : deferred[p] = d
      BY <1>3, <2>3 DEF Holds
    <3>2. CASE p \in 1..b
      BY <1>5, <3>1, <3>2 DEF Holds
    <3>3. CASE p - b \in 1..(c - b) /\ b + (p - b) = p
      BY <1>6, <3>1, <3>3 DEF Holds
    <3>4. QED
      BY <1>12, <3>2, <3>3
  <2>4. ASSUME NEW d, Holds(left, d), Holds(todo, d) PROVE FALSE
    <3>1. PICK p \in 1..b : deferred[p] = d
      BY <1>5, <2>4 DEF Holds
    <3>2. PICK q \in 1..(c - b) : deferred[b + q] = d
      BY <1>6, <2>4 DEF Holds
    <3>3. p \in 1..c /\ b + q \in 1..c /\ p < b + q
      BY <1>3, <1>4, <1>12
    <3>4. d < d
      BY <1>3, <3>1, <3>2, <3>3 DEF Increasing
    <3>5. d \in DOMAIN deferrer
      BY <1>3, <3>1, <3>3
    <3>6. Len(deferrer) \in Nat /\ DOMAIN deferrer = 1..Len(deferrer)
      BY DEF IInv, InvOf, TypeInv
    <3>7. QED
      BY <3>4, <3>5, <3>6
  <2>5. QED
    BY <2>1, <2>2, <2>3, <2>4
<1>15. TypeInv(frames, ran)'
  BY <1>5, <1>8, <1>10, <1>11 DEF IInv, InvOf, TypeInv, n
<1>16. FramesInv(frames)'
  <2>1. ASSUME NEW i \in 1..n PROVE t[i].base <= b
    <3>1. i < n \/ i = n
      BY <1>2
    <3>2. frames[n].base = b
      BY <1>2 DEF b
    <3>3. i < n => frames[i].base <= frames[n].base
      BY <1>2 DEF IInv, InvOf, FramesInv
    <3>4. QED
      BY <1>4, <1>11, <3>1, <3>2, <3>3
  <2>2. Len(deferred') = b
    BY <1>5, <1>10
  <2>3. QED
    BY <1>8, <1>9, <1>10, <1>11, <2>1, <2>2 DEF FramesInv
<1>17. ScopeInv(frames)'
  BY <1>8, <1>9, <1>10 DEF ScopeInv, ScopeOf
<1>18. OldInv(frames)'
  <2>1. \A i, j \in 1..n : i < j /\ t[j].kind = "function" /\ t[i].phase # "pre" => t[i].calls
    BY <1>2, <1>11 DEF IInv, InvOf, OldInv
  <2>2. \A i \in 1..n : t[i].contract /\ t[i].phase # "pre" /\ ~t[i].calls => old = t[i].id
    BY <1>2, <1>11 DEF IInv, InvOf, OldInv
  <2>3. QED
    BY <1>8, <1>10, <1>11, <2>1, <2>2 DEF OldInv
<1>19. PlacesInv(frames, ran)'
  <2>1. PlacesInv(frames, ran)
    BY DEF IInv, InvOf
  <2>2. t[n].todo = todo /\ \A i \in 1..n : i # n => t[i].todo = frames[i].todo
    BY <1>9, <1>11
  <2>3. \A i \in 1..n : t[i].todo \in Seq(DOMAIN deferrer) /\ Increasing(t[i].todo)
    BY <1>2, <1>6, <1>13, <2>1, <2>2 DEF PlacesInv
  <2>4. \A i \in 1..n, d \in DOMAIN deferrer : ~(Holds(left, d) /\ Holds(t[i].todo, d))
    BY <1>2, <1>14, <2>1, <2>2 DEF PlacesInv
  <2>5. \A i, j \in 1..n, d \in DOMAIN deferrer : i # j => ~(Holds(t[i].todo, d) /\ Holds(t[j].todo, d))
    BY <1>2, <1>14, <2>1, <2>2 DEF PlacesInv
  <2>6. \A r \in DOMAIN ran : ~Holds(left, ran[r].id) /\ \A i \in 1..n : ~Holds(t[i].todo, ran[r].id)
    BY <1>2, <1>14, <2>1, <2>2 DEF PlacesInv
  <2>7. Increasing(deferred)'
    BY <1>10, <1>13 DEF Increasing
  <2>8. (\A i \in DOMAIN frames : frames[i].todo \in Seq(DOMAIN deferrer) /\ Increasing(frames[i].todo))'
    BY <1>8, <1>10, <1>11, <2>3 DEF Increasing
  <2>9. (\A i \in DOMAIN frames, d \in DOMAIN deferrer : ~(Holds(deferred, d) /\ Holds(frames[i].todo, d)))'
    BY <1>8, <1>10, <1>11, <2>4 DEF Holds
  <2>10. (\A i, j \in DOMAIN frames, d \in DOMAIN deferrer :
             i # j => ~(Holds(frames[i].todo, d) /\ Holds(frames[j].todo, d)))'
    BY <1>8, <1>10, <1>11, <2>5 DEF Holds
  <2>11. (\A r \in DOMAIN ran : /\ ~Holds(deferred, ran[r].id)
                                /\ \A i \in DOMAIN frames : ~Holds(frames[i].todo, ran[r].id))'
    BY <1>8, <1>10, <1>11, <2>6 DEF Holds
  <2>12. QED
    BY <2>7, <2>8, <2>9, <2>10, <2>11 DEF PlacesInv
<1>20. OwnersInv(frames)'
  <2>1. ASSUME NEW p \in 1..c, deferrer[deferred[p]] \notin abandoned
        PROVE  \E i \in 1..n : /\ frames[i].id = deferrer[deferred[p]] /\ frames[i].phase = "body"
                               /\ frames[i].base < p
                               /\ i # n => p <= frames[i + 1].base
    BY <1>2, <1>3, <2>1 DEF IInv, InvOf, OwnersInv, n
  <2>2. frames[n].base = b /\ \A i \in 1..n : frames[i].base <= b /\ (i # n => i + 1 \in 1..n)
    <3>1. frames[n].base = b
      BY <1>2 DEF b
    <3>2. \A i \in 1..n : i < n => frames[i].base <= frames[n].base
      BY <1>2 DEF IInv, InvOf, FramesInv
    <3>3. \A i \in 1..n : i # n => i < n /\ i + 1 \in 1..n
      BY <1>2
    <3>4. b <= b
      BY <1>4
    <3>5. QED
      BY <3>1, <3>2, <3>3, <3>4
  <2>3. ASSUME NEW p \in 1..b, deferrer[left[p]] \notin abandoned
        PROVE  \E i \in 1..n : /\ t[i].id = deferrer[left[p]] /\ t[i].phase = "body"
                               /\ t[i].base < p
                               /\ i # n => p <= t[i + 1].base
    <3>1. p \in 1..c /\ left[p] = deferred[p] /\ ~(b < p)
      BY <1>4, <1>5, <1>12
    <3>2. PICK i \in 1..n : /\ frames[i].id = deferrer[deferred[p]] /\ frames[i].phase = "body"
                            /\ frames[i].base < p
                            /\ i # n => p <= frames[i + 1].base
      BY <2>1, <2>3, <3>1
    <3>3. i # n
      BY <2>2, <3>1, <3>2
    <3>4. QED
      BY <1>11, <2>2, <3>1, <3>2, <3>3
  <2>4. ASSUME NEW q \in 1..(c - b)
        PROVE  deferrer[todo[q]] = Top.id \/ deferrer[todo[q]] \in abandoned
    <3>1. b + q \in 1..c /\ todo[q] = deferred[b + q]
      BY <1>6
    <3>2. SUFFICES ASSUME deferrer[deferred[b + q]] \notin abandoned
                   PROVE  deferrer[deferred[b + q]] = Top.id
      BY <3>1
    <3>3. PICK i \in 1..n : /\ frames[i].id = deferrer[deferred[b + q]]
                            /\ i # n => b + q <= frames[i + 1].base
      BY <2>1, <3>1, <3>2
    <3>4. i = n
      <4>1. SUFFICES ASSUME i # n PROVE FALSE
        OBVIOUS
      <4>2. b + q <= frames[i + 1].base /\ frames[i + 1].base <= b /\ i + 1 \in 1..n
        BY <2>2, <3>3, <4>1
      <4>3. frames[i + 1].base \in Nat
        <5>1. frames[i + 1] \in Frames /\ MaxDefers \in Nat
          BY <1>2, <4>2, BoundsAssumption DEF IInv, InvOf, TypeInv
        <5>2. frames[i + 1].base \in 0..MaxDefers
          BY <5>1 DEF Frames
        <5>3. QED
          BY <5>1, <5>2
      <4>4. QED
        BY <1>3, <1>4, <4>2, <4>3
    <3>5. QED
      BY <1>2, <3>3, <3>4
  <2>5. ASSUME NEW i \in 1..n, NEW q \in DOMAIN t[i].todo
        PROVE  deferrer[t[i].todo[q]] = t[i].id \/ deferrer[t[i].todo[q]] \in abandoned
    <3>1. CASE i = n
      BY <1>2, <1>6, <1>9, <1>11, <2>4, <3>1
    <3>2. CASE i # n
      BY <1>2, <1>11, <3>2 DEF IInv, InvOf, OwnersInv
    <3>3. QED
      BY <3>1, <3>2
  <2>6. DOMAIN deferred' = 1..b /\ Len(frames') = n /\ DOMAIN frames' = 1..n
    BY <1>5, <1>8, <1>10, <1>11
  <2>7. (\A p \in DOMAIN deferred :
         \/ deferrer[deferred[p]] \in abandoned
         \/ \E i \in DOMAIN frames :
              /\ frames[i].id = deferrer[deferred[p]] /\ frames[i].phase = "body"
              /\ frames[i].base < p
              /\ i # Len(frames) => p <= frames[i + 1].base)'
    BY <1>8, <1>10, <2>3, <2>6
  <2>8. (\A i \in DOMAIN frames : \A q \in DOMAIN frames[i].todo :
            deferrer[frames[i].todo[q]] = frames[i].id \/ deferrer[frames[i].todo[q]] \in abandoned)'
    BY <1>8, <1>10, <2>5, <2>6
  <2>9. QED
    BY <2>7, <2>8 DEF OwnersInv
<1>21. RanInv(frames, ran)'
  <2>1. ASSUME NEW r \in DOMAIN ran, NEW i \in 1..n, ran[r].by = t[i].id
        PROVE  /\ t[i].phase \in {"defers", "post"}
               /\ \A q \in DOMAIN t[i].todo : t[i].todo[q] < ran[r].id
    <3>1. /\ frames[i].phase \in {"defers", "post"}
          /\ \A q \in DOMAIN frames[i].todo : frames[i].todo[q] < ran[r].id
      BY <1>2, <1>11, <2>1 DEF IInv, InvOf, RanInv
    <3>2. i # n
      BY <1>1, <1>2, <3>1
    <3>3. QED
      BY <1>11, <3>1, <3>2
  <2>2. QED
    BY <1>8, <1>10, <1>11, <2>1 DEF RanInv
<1>22. KeptInv(frames, ran)'
  <2>1. ASSUME NEW d \in DOMAIN deferrer, ~Ran(ran, d)
        PROVE  /\ Holds(left, d) \/ \E i \in 1..n : Holds(t[i].todo, d)
               /\ deferrer[d] \in abandoned \/ \E i \in 1..n : t[i].id = deferrer[d]
    <3>1. /\ Holds(deferred, d) \/ \E i \in 1..n : Holds(frames[i].todo, d)
          /\ deferrer[d] \in abandoned \/ \E i \in 1..n : frames[i].id = deferrer[d]
      BY <1>2, <2>1 DEF IInv, InvOf, KeptInv
    <3>2. frames[n].todo = <<>> /\ ~Holds(<<>>, d)
      BY <1>1, <1>2 DEF IInv, InvOf, FramesInv, Holds
    <3>3. Holds(left, d) \/ \E i \in 1..n : Holds(t[i].todo, d)
      BY <1>2, <1>9, <1>11, <1>14, <3>1, <3>2
    <3>4. QED
      BY <1>11, <3>1, <3>3
  <2>2. QED
    BY <1>8, <1>10, <1>11, <2>1 DEF KeptInv, Holds, Ran
<1>23. OrderInv(ran)'
  BY <1>10 DEF IInv, InvOf, OrderInv
<1>24. QED
  BY <1>15, <1>16, <1>17, <1>18, <1>19, <1>20, <1>21, <1>22, <1>23 DEF IInv, InvOf

\* A defer statement gets the next number, and is the innermost's.
LEMMA DeferHolds ==
    ASSUME IInv, DeferStatement
    PROVE  IInv'
<1> DEFINE n == Len(frames)
           c == Len(deferred)
           k == Len(deferrer)
<1>1. /\ frames # <<>> /\ Top.phase = "body" /\ k < MaxDefers
      /\ deferrer' = Append(deferrer, Top.id) /\ deferred' = Append(deferred, k + 1)
      /\ UNCHANGED <<frames, made, env, old, ran, abandoned>>
  BY DEF DeferStatement, In
<1>2. /\ n \in Nat /\ n > 0 /\ DOMAIN frames = 1..n /\ n \in 1..n /\ Top = frames[n] /\ Top \in Frames
  BY <1>1, AtTop
<1>3. /\ c \in Nat /\ deferred \in Seq(DOMAIN deferrer) /\ DOMAIN deferred = 1..c /\ Increasing(deferred)
      /\ k \in Nat /\ deferrer \in Seq(1..made) /\ DOMAIN deferrer = 1..k
  BY DEF IInv, InvOf, TypeInv, PlacesInv
<1>4. Top.id \in 1..made /\ Top.base <= c /\ Top.base \in Nat
  <2>1. Top.base \in 0..MaxDefers /\ MaxDefers \in Nat
    BY <1>2, BoundsAssumption DEF Frames
  <2>2. QED
    BY <1>2, <2>1 DEF IInv, InvOf, FramesInv
<1> HIDE DEF n
<1>5. /\ deferrer' \in Seq(1..made) /\ Len(deferrer') = k + 1 /\ DOMAIN deferrer' = 1..(k + 1)
      /\ deferrer'[k + 1] = Top.id /\ \A d \in 1..k : deferrer'[d] = deferrer[d]
  BY <1>1, <1>3, <1>4, Pushed
<1>6. 1..k \subseteq 1..(k + 1) /\ k + 1 \in 1..(k + 1) /\ k + 1 \notin 1..k
      /\ \A d \in 1..(k + 1) : d \in 1..k \/ d = k + 1
  BY <1>3
<1>7. ASSUME NEW s \in Seq(1..k) PROVE s \in Seq(1..(k + 1)) /\ \A q \in DOMAIN s : s[q] \in 1..k
  <2>1. s \in Seq(1..(k + 1))
    BY <1>6
  <2>2. \A q \in DOMAIN s : s[q] \in 1..k
    OBVIOUS
  <2>3. QED
    BY <2>1, <2>2
<1>8. /\ deferred' \in Seq(1..(k + 1)) /\ Len(deferred') = c + 1 /\ DOMAIN deferred' = 1..(c + 1)
      /\ deferred'[c + 1] = k + 1 /\ \A p \in 1..c : deferred'[p] = deferred[p] /\ deferred[p] \in 1..k
  <2>1. deferred \in Seq(1..(k + 1))
    BY <1>3, <1>7
  <2>2. \A p \in 1..c : deferred[p] \in 1..k
    BY <1>3
  <2>3. QED
    BY <1>1, <1>6, <2>1, <2>2, Pushed
<1> HIDE DEF c, k
<1>9. /\ 1..c \subseteq 1..(c + 1) /\ c + 1 \in 1..(c + 1)
      /\ \A p \in 1..(c + 1) : p \in 1..c \/ p = c + 1
  BY <1>3
<1>10. UNCHANGED <<frames, made, env, old, ran, abandoned>>
  BY <1>1
<1>11. TypeInv(frames, ran)'
  <2>1. ran \in Seq([id : DOMAIN deferrer', by : 1..made])
    <3> DEFINE A == [id : DOMAIN deferrer, by : 1..made]
               B == [id : DOMAIN deferrer', by : 1..made]
    <3>1. A \subseteq B
      BY <1>3, <1>5, <1>6
    <3>2. ran \in Seq(A)
      BY DEF IInv, InvOf, TypeInv
    <3> HIDE DEF A, B
    <3>3. ran \in Seq(B)
      BY <3>1, <3>2
    <3>4. QED
      BY <3>3 DEF B
  <2>2. Len(deferrer') <= MaxDefers
    BY <1>1, <1>3, <1>5, BoundsAssumption DEF k
  <2>3. QED
    BY <1>5, <1>8, <1>10, <2>1, <2>2 DEF IInv, InvOf, TypeInv
<1>12. FramesInv(frames)'
  <2>1. ASSUME NEW i \in 1..n PROVE frames[i].base <= c + 1
    <3>1. frames[i] \in Frames /\ MaxDefers \in Nat
      BY <1>2, BoundsAssumption DEF IInv, InvOf, TypeInv
    <3>2. frames[i].base \in Nat
      BY <3>1 DEF Frames
    <3>3. frames[i].base <= c
      BY <1>2 DEF IInv, InvOf, FramesInv, c
    <3>4. QED
      BY <1>3, <3>2, <3>3
  <2>2. QED
    BY <1>2, <1>8, <1>10, <2>1 DEF IInv, InvOf, FramesInv
<1>13. ScopeInv(frames)' /\ OldInv(frames)'
  BY <1>10 DEF IInv, InvOf, ScopeInv, ScopeOf, OldInv
<1>14. /\ \A d : Holds(deferred', d) <=> Holds(deferred, d) \/ d = k + 1
       /\ ~Holds(deferred, k + 1)
       /\ \A i \in 1..n : frames[i].todo \in Seq(1..k) /\ ~Holds(frames[i].todo, k + 1)
  <2>1. \A d : Holds(deferred', d) <=> Holds(deferred, d) \/ d = k + 1
    BY <1>3, <1>8, <1>9 DEF Holds
  <2>2. ~Holds(deferred, k + 1)
    BY <1>3, <1>6, <1>8 DEF Holds
  <2>3. ASSUME NEW i \in 1..n
        PROVE  frames[i].todo \in Seq(1..k) /\ ~Holds(frames[i].todo, k + 1)
    <3>1. frames[i].todo \in Seq(1..k)
      BY <1>2, <1>3 DEF IInv, InvOf, PlacesInv
    <3>2. \A q \in DOMAIN frames[i].todo : frames[i].todo[q] \in 1..k
      BY <1>7, <3>1
    <3>3. QED
      BY <1>6, <3>1, <3>2 DEF Holds
  <2>4. QED
    BY <2>1, <2>2, <2>3
<1>15. \A r \in DOMAIN ran : ran[r].id \in 1..k
  BY <1>3, RanIsTyped DEF IInv, InvOf
<1>16. PlacesInv(frames, ran)'
  <2>1. PlacesInv(frames, ran)
    BY DEF IInv, InvOf
  <2>2. Increasing(deferred)'
    <3>1. ASSUME NEW p \in 1..(c + 1), NEW q \in 1..(c + 1), p < q
          PROVE  deferred'[p] < deferred'[q]
      <4>1. p \in 1..c
        BY <1>3, <3>1
      <4>2. CASE q \in 1..c
        BY <1>3, <1>8, <3>1, <4>1, <4>2 DEF Increasing
      <4>3. CASE q = c + 1
        <5>1. deferred'[p] \in 1..k
          BY <1>8, <4>1
        <5>2. QED
          BY <1>3, <1>8, <4>3, <5>1
      <4>4. QED
        BY <1>9, <4>2, <4>3
    <3>2. QED
      BY <1>8, <3>1 DEF Increasing
  <2>3. \A i \in 1..n : frames[i].todo \in Seq(1..(k + 1)) /\ Increasing(frames[i].todo)
    BY <1>2, <1>7, <1>14, <2>1 DEF PlacesInv
  <2>4. \A i \in 1..n, d \in 1..(k + 1) : ~(Holds(deferred', d) /\ Holds(frames[i].todo, d))
    BY <1>2, <1>3, <1>6, <1>14, <2>1 DEF PlacesInv
  <2>5. \A i, j \in 1..n, d \in 1..(k + 1) : i # j => ~(Holds(frames[i].todo, d) /\ Holds(frames[j].todo, d))
    BY <1>2, <1>3, <1>6, <1>14, <2>1 DEF PlacesInv
  <2>6. \A r \in DOMAIN ran : ~Holds(deferred', ran[r].id) /\ \A i \in 1..n : ~Holds(frames[i].todo, ran[r].id)
    BY <1>2, <1>6, <1>14, <1>15, <2>1 DEF PlacesInv
  <2>7. (\A i \in DOMAIN frames : frames[i].todo \in Seq(DOMAIN deferrer) /\ Increasing(frames[i].todo))'
    BY <1>2, <1>5, <1>10, <2>3 DEF Increasing
  <2>8. (\A i \in DOMAIN frames, d \in DOMAIN deferrer : ~(Holds(deferred, d) /\ Holds(frames[i].todo, d)))'
    BY <1>2, <1>5, <1>10, <2>4 DEF Holds
  <2>9. (\A i, j \in DOMAIN frames, d \in DOMAIN deferrer :
             i # j => ~(Holds(frames[i].todo, d) /\ Holds(frames[j].todo, d)))'
    BY <1>2, <1>5, <1>10, <2>5 DEF Holds
  <2>10. (\A r \in DOMAIN ran : /\ ~Holds(deferred, ran[r].id)
                                /\ \A i \in DOMAIN frames : ~Holds(frames[i].todo, ran[r].id))'
    BY <1>2, <1>10, <2>6 DEF Holds
  <2>11. QED
    BY <2>2, <2>7, <2>8, <2>9, <2>10 DEF PlacesInv
<1>17. OwnersInv(frames)'
  <2>1. ASSUME NEW p \in 1..(c + 1), deferrer'[deferred'[p]] \notin abandoned
        PROVE  \E i \in 1..n : /\ frames[i].id = deferrer'[deferred'[p]] /\ frames[i].phase = "body"
                               /\ frames[i].base < p
                               /\ i # n => p <= frames[i + 1].base
    <3>1. CASE p \in 1..c
      <4>1. deferred'[p] = deferred[p] /\ deferrer'[deferred[p]] = deferrer[deferred[p]]
        BY <1>5, <1>8, <3>1
      <4>2. QED
        BY <1>2, <1>3, <2>1, <3>1, <4>1 DEF IInv, InvOf, OwnersInv, n
    <3>2. CASE p = c + 1
      <4>1. deferrer'[deferred'[p]] = frames[n].id /\ frames[n].phase = "body"
        BY <1>1, <1>2, <1>5, <1>8, <3>2
      <4>2. frames[n].base < p
        BY <1>2, <1>3, <1>4, <3>2
      <4>3. QED
        BY <1>2, <4>1, <4>2
    <3>3. QED
      BY <1>9, <3>1, <3>2
  <2>2. ASSUME NEW i \in 1..n, NEW q \in DOMAIN frames[i].todo
        PROVE  deferrer'[frames[i].todo[q]] = frames[i].id \/ deferrer'[frames[i].todo[q]] \in abandoned
    <3>1. frames[i].todo[q] \in 1..k
      BY <1>7, <1>14
    <3>2. deferrer'[frames[i].todo[q]] = deferrer[frames[i].todo[q]]
      BY <1>5, <3>1
    <3>3. QED
      BY <1>2, <3>2 DEF IInv, InvOf, OwnersInv
  <2>3. (\A p \in DOMAIN deferred :
         \/ deferrer[deferred[p]] \in abandoned
         \/ \E i \in DOMAIN frames :
              /\ frames[i].id = deferrer[deferred[p]] /\ frames[i].phase = "body"
              /\ frames[i].base < p
              /\ i # Len(frames) => p <= frames[i + 1].base)'
    BY <1>2, <1>8, <1>10, <2>1 DEF n
  <2>4. (\A i \in DOMAIN frames : \A q \in DOMAIN frames[i].todo :
            deferrer[frames[i].todo[q]] = frames[i].id \/ deferrer[frames[i].todo[q]] \in abandoned)'
    BY <1>2, <1>10, <2>2
  <2>5. QED
    BY <2>3, <2>4 DEF OwnersInv
<1>18. RanInv(frames, ran)'
  BY <1>10 DEF IInv, InvOf, RanInv
<1>19. KeptInv(frames, ran)'
  <2>1. ASSUME NEW d \in 1..(k + 1), ~Ran(ran, d)
        PROVE  /\ Holds(deferred', d) \/ \E i \in 1..n : Holds(frames[i].todo, d)
               /\ deferrer'[d] \in abandoned \/ \E i \in 1..n : frames[i].id = deferrer'[d]
    <3>1. CASE d \in 1..k
      <4>1. /\ Holds(deferred, d) \/ \E i \in 1..n : Holds(frames[i].todo, d)
            /\ deferrer[d] \in abandoned \/ \E i \in 1..n : frames[i].id = deferrer[d]
        BY <1>2, <1>3, <2>1, <3>1 DEF IInv, InvOf, KeptInv
      <4>2. QED
        BY <1>5, <1>14, <3>1, <4>1
    <3>2. CASE d = k + 1
      BY <1>2, <1>5, <1>14, <3>2
    <3>3. QED
      BY <1>6, <3>1, <3>2
  <2>2. QED
    BY <1>2, <1>5, <1>10, <2>1 DEF KeptInv, Holds, Ran
<1>20. OrderInv(ran)'
  <2>1. \A r \in DOMAIN ran : deferrer'[ran[r].id] = deferrer[ran[r].id]
    BY <1>5, <1>15
  <2>2. QED
    BY <1>10, <2>1 DEF IInv, InvOf, OrderInv
<1>21. QED
  BY <1>11, <1>12, <1>13, <1>16, <1>17, <1>18, <1>19, <1>20 DEF IInv, InvOf

(***************************************************************************)
(* The theorems.                                                           *)
(***************************************************************************)

\* The inductive invariant holds in every reachable state, however functions and
\* blocks are entered and left.
THEOREM Invariance == Spec => []IInv
<1>1. ASSUME IInv, [Next]_vars PROVE IInv'
  <2>1. CASE EnterBlock
    BY <1>1, <2>1, EnterBlockHolds
  <2>2. CASE Call
    BY <1>1, <2>2, CallHolds
  <2>3. CASE BeginBody \/ CheckPostconditions
    BY <1>1, <2>3, PhasesHold
  <2>4. CASE PreconditionFails \/ Fails \/ PostconditionFails
    BY <1>1, <2>4, ErrorsHold
  <2>5. CASE DeferStatement
    BY <1>1, <2>5, DeferHolds
  <2>6. CASE Drain
    BY <1>1, <2>6, DrainHolds
  <2>7. CASE RunDeferred
    BY <1>1, <2>7, RunDeferredHolds
  <2>8. CASE LeaveBlock \/ LeaveFunction
    BY <1>1, <2>8, LeavingHolds
  <2>9. CASE Finished \/ UNCHANGED vars
    <3>1. UNCHANGED <<made, env, deferred, old, deferrer, abandoned>> /\ frames' = frames /\ ran' = ran
      BY <2>9 DEF Finished, vars
    <3>2. InvOf(frames', ran')
      BY <1>1, <3>1 DEF IInv
    <3>3. QED
      BY <3>1, <3>2, PrimedAll
  <2>10. QED
    BY <1>1, <2>1, <2>2, <2>3, <2>4, <2>5, <2>6, <2>7, <2>8, <2>9 DEF Next
<1>2. QED
  BY <1>1, InitHolds, PTL DEF Spec

\* What call_function drains is in range: the stack of deferred expressions is
\* never shorter than what an activation found on it, whatever errors passed.
THEOREM TypeCorrect == Spec => []TypeOK
<1>1. IInv => TypeOK
  BY DEF IInv, InvOf, TypeInv, FramesInv, TypeOK
<1>2. QED
  BY <1>1, Invariance, PTL

\* A deferred expression that did not run is kept, by an activation that has not
\* been left or for good when an error left it.
THEOREM DefersAreKept == Spec => []LostByErrorsOnly
<1>1. ASSUME IInv PROVE LostByErrorsOnly
  <2>1. \A s, d : Holds(s, d) /\ DOMAIN s = 1..Len(s) => Contains(s, d)
    BY DEF Holds, Contains
  <2>2. DOMAIN deferred = 1..Len(deferred)
    BY <1>1 DEF IInv, InvOf, TypeInv
  <2>3. \A i \in DOMAIN frames : DOMAIN frames[i].todo = 1..Len(frames[i].todo)
    BY <1>1 DEF IInv, InvOf, PlacesInv
  <2>4. ASSUME NEW d \in DOMAIN deferrer
        PROVE  /\ IsPending(d) \/ HasRun(d)
               /\ HasRun(d) \/ IsActive(deferrer[d]) \/ deferrer[d] \in abandoned
    <3>1. \/ Ran(ran, d)
          \/ /\ Holds(deferred, d) \/ \E i \in DOMAIN frames : Holds(frames[i].todo, d)
             /\ deferrer[d] \in abandoned \/ \E i \in DOMAIN frames : frames[i].id = deferrer[d]
      BY <1>1 DEF IInv, InvOf, KeptInv
    <3>2. CASE Ran(ran, d)
      BY <3>2 DEF Ran, HasRun
    <3>3. CASE ~Ran(ran, d)
      BY <2>1, <2>2, <2>3, <3>1, <3>3 DEF IsPending, IsActive
    <3>4. QED
      BY <3>2, <3>3
  <2>5. QED
    BY <2>4 DEF LostByErrorsOnly
<1>2. QED
  BY <1>1, Invariance, PTL

\* Deferred expressions run in the reverse of their order, once, and by the
\* activation that deferred them unless an error ended it.
THEOREM DefersRunInReverse == Spec => []LastInFirstOut
<1>1. IInv => LastInFirstOut
  BY DEF IInv, InvOf, OrderInv, LastInFirstOut
<1>2. QED
  BY <1>1, Invariance, PTL

\* The environment is the innermost activation's, or an error left it.
THEOREM ScopesAreRestored == Spec => []ScopeIsInnermost
<1>1. ASSUME IInv PROVE ScopeIsInnermost
  <2>1. env = ScopeOf(frames, Len(frames)) \/ env \in abandoned
    BY <1>1 DEF IInv, InvOf, ScopeInv
  <2>2. CASE frames = <<>>
    BY <2>1, <2>2 DEF ScopeIsInnermost, ScopeOf
  <2>3. CASE frames # <<>>
    <3>1. Top = frames[Len(frames)] /\ Len(frames) # 0
      BY <1>1, <2>3, AtTop
    <3>2. QED
      BY <2>1, <2>3, <3>1 DEF ScopeIsInnermost, ScopeOf
  <2>4. QED
    BY <2>2, <2>3
<1>2. QED
  BY <1>1, Invariance, PTL

\* A function that calls no other finds its own old values at its postconditions.
THEOREM LeavesSeeTheirOld == Spec => []LeafSeesItsOld
<1>1. ASSUME IInv PROVE LeafSeesItsOld
  <2>1. SUFFICES ASSUME In("post"), Top.contract, ~Top.calls PROVE old = Top.id
    BY DEF LeafSeesItsOld
  <2>2. frames # <<>> /\ Top.phase = "post"
    BY <2>1 DEF In
  <2>3. Top = frames[Len(frames)] /\ Len(frames) \in DOMAIN frames
    BY <1>1, <2>2, AtTop
  <2>4. QED
    BY <1>1, <2>1, <2>2, <2>3 DEF IInv, InvOf, OldInv
<1>2. QED
  BY <1>1, Invariance, PTL
=============================================================================
