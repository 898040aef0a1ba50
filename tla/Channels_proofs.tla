-------------------------- MODULE Channels_proofs --------------------------
(***************************************************************************)
(* The safety properties of a channel, proved for any set of threads and   *)
(* any number of values.                                                   *)
(***************************************************************************)
EXTENDS ChannelsProps, SequenceTheorems, TLAPS

USE MaxSendsAssumption, NoThreadAssumption

(***************************************************************************)
(* Taking the first of what waits after what was received keeps the order. *)
(***************************************************************************)
LEMMA TakenInOrder ==
    ASSUME NEW S, NEW s \in Seq(S), NEW q \in Seq(S), q # <<>>
    PROVE  /\ Head(q) \in S /\ Tail(q) \in Seq(S)
           /\ Append(s, Head(q)) \in Seq(S)
           /\ Append(s, Head(q)) \o Tail(q) = s \o q
OBVIOUS

(***************************************************************************)
(* What was offered stays among the values offered when there are more.    *)
(***************************************************************************)
LEMMA OfferedGrows ==
    ASSUME NEW n \in Nat, NEW s \in Seq(1..n)
    PROVE  s \in Seq(1..(n + 1)) /\ Append(s, n + 1) \in Seq(1..(n + 1))
<1>1. \A i \in 1..n : i \in 1..(n + 1)
  OBVIOUS
<1>2. s \in Seq(1..(n + 1))
  BY <1>1
<1>3. n + 1 \in 1..(n + 1)
  OBVIOUS
<1> QED
  BY <1>2, <1>3

\* Conserved is inductive once the types are known.
IInv == TypeOK /\ Conserved

(***************************************************************************)
(* A channel starts empty, with nothing accepted or received.              *)
(***************************************************************************)
LEMMA InitInv == Init => IInv
<1> SUFFICES ASSUME Init PROVE IInv
  OBVIOUS
<1>1. \A n : <<>> \in Seq(1..n)
  OBVIOUS
<1>2. TypeOK
  <2>1. call \in [Threads -> Receives \cup {"none"}] /\ receiver \in Threads \cup {NoThread}
    BY DEF Init
  <2>2. closed = FALSE /\ offered = 0 /\ 0 \in 0..MaxSends
    BY DEF Init
  <2>3. buffer \in Seq(1..offered) /\ accepted \in Seq(1..offered) /\ received \in Seq(1..offered)
    BY <1>1, Zenon DEF Init
  <2> QED
    BY <2>1, <2>2, <2>3 DEF Init, TypeOK
<1>3. Conserved
  BY DEF Init, Conserved
<1> QED
  BY <1>2, <1>3 DEF IInv

(***************************************************************************)
(* Every operation keeps the invariant.                                    *)
(***************************************************************************)
LEMMA NextInv == IInv /\ [Next]_vars => IInv'
<1> SUFFICES ASSUME IInv, [Next]_vars PROVE TypeOK' /\ Conserved'
  BY DEF IInv
<1> USE DEF IInv
<1>1. ASSUME NEW t \in Threads, Send(t) PROVE TypeOK' /\ Conserved'
  <2>1. /\ offered \in Nat /\ offered' = offered + 1 /\ offered' \in 0..MaxSends
    BY <1>1 DEF Send, TypeOK
  <2>2. /\ buffer \in Seq(1..offered') /\ Append(buffer, offered') \in Seq(1..offered')
        /\ accepted \in Seq(1..offered') /\ Append(accepted, offered') \in Seq(1..offered')
        /\ received \in Seq(1..offered')
    BY <2>1, OfferedGrows DEF TypeOK
  <2>3. TypeOK'
    BY <1>1, <2>1, <2>2 DEF Send, TypeOK
  <2>4. offered' \in 1..offered'
    BY <2>1
  <2>5. Append(received \o buffer, offered') = received \o Append(buffer, offered')
    <3>1. ASSUME NEW S, received \in Seq(S), buffer \in Seq(S), offered' \in S
          PROVE  Append(received \o buffer, offered') = received \o Append(buffer, offered')
      BY <3>1
    <3> QED
      BY <2>2, <2>4, <3>1
  <2>6. Conserved'
    BY <1>1, <2>1, <2>5 DEF Send, Conserved
  <2> QED
    BY <2>3, <2>6
<1>2. ASSUME NEW t \in Threads, Close(t) PROVE TypeOK' /\ Conserved'
  BY <1>2 DEF Close, TypeOK, Conserved
<1>3. ASSUME NEW t \in Threads, Begin(t) PROVE TypeOK' /\ Conserved'
  BY <1>3 DEF Begin, TypeOK, Conserved, Receives
<1>4. ASSUME NEW t \in Threads, Lock(t) PROVE TypeOK' /\ Conserved'
  BY <1>4 DEF Lock, TypeOK, Conserved
<1>5. ASSUME NEW t \in Threads, Take(t) PROVE TypeOK' /\ Conserved'
  <2>1. /\ Tail(buffer) \in Seq(1..offered)
        /\ Append(received, Head(buffer)) \in Seq(1..offered)
        /\ Append(received, Head(buffer)) \o Tail(buffer) = received \o buffer
    BY <1>5, TakenInOrder DEF Take, TypeOK
  <2> QED
    BY <1>5, <2>1 DEF Take, Return, TypeOK, Conserved
<1>6. ASSUME NEW t \in Threads, GiveUp(t) PROVE TypeOK' /\ Conserved'
  BY <1>6 DEF GiveUp, Return, TypeOK, Conserved
<1>7. ASSUME UNCHANGED vars PROVE TypeOK' /\ Conserved'
  BY <1>7 DEF vars, TypeOK, Conserved
<1> QED
  BY <1>1, <1>2, <1>3, <1>4, <1>5, <1>6, <1>7 DEF Next

(***************************************************************************)
(* A channel keeps its types and conserves its values, in order.           *)
(***************************************************************************)
THEOREM Invariance == Spec => []IInv
BY InitInv, NextInv, PTL DEF Spec

(***************************************************************************)
(* Every variable keeps its type, and who holds the receiver's mutex is in *)
(* a receiving call.                                                       *)
(***************************************************************************)
THEOREM TypeCorrect == Spec => []TypeOK
<1>1. IInv => TypeOK
  BY DEF IInv
<1> QED
  BY <1>1, Invariance, PTL

(***************************************************************************)
(* The values accepted are the values received and those that wait, in     *)
(* order, whoever sends, receives, times out and closes.                   *)
(***************************************************************************)
THEOREM ValuesAreConserved == Spec => []Conserved
<1>1. IInv => Conserved
  BY DEF IInv
<1> QED
  BY <1>1, Invariance, PTL

(***************************************************************************)
(* A closed channel accepts nothing.                                       *)
(***************************************************************************)
THEOREM ClosedAcceptsNothing == Spec => NothingAfterClose
<1>1. [Next]_vars => [closed => accepted' = accepted]_vars
  BY DEF Next, vars, Send, Close, Begin, Lock, Take, GiveUp
<1> QED
  BY <1>1, PTL DEF Spec, NothingAfterClose
=============================================================================
