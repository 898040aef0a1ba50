-------------------------- MODULE HttpBridge_proofs --------------------------
(***************************************************************************)
(* The safety properties of the HTTP bridge, proved for any set of         *)
(* requests and any buffer size.                                           *)
(***************************************************************************)
EXTENDS HttpBridgeProps, FiniteSetTheorems, SequenceTheorems, TLAPS

USE BufferAssumption, NoRequestAssumption, MayPanicAssumption

(***************************************************************************)
(* Membership in a sequence after the operations of the channel.           *)
(***************************************************************************)
LEMMA IsInAppend ==
    ASSUME NEW S, NEW s \in Seq(S), NEW e \in S
    PROVE  \A x : IsIn(x, Append(s, e)) <=> IsIn(x, s) \/ x = e
BY DEF IsIn

LEMMA IsInTail ==
    ASSUME NEW S, NEW s \in Seq(S), s # <<>>
    PROVE  /\ Head(s) \in S /\ Tail(s) \in Seq(S) /\ IsIn(Head(s), s)
           /\ Len(Tail(s)) = Len(s) - 1
           /\ \A x : IsIn(x, s) <=> IsIn(x, Tail(s)) \/ x = Head(s)
           /\ Distinct(s) => Distinct(Tail(s)) /\ ~IsIn(Head(s), Tail(s))
<1>1. /\ Head(s) = s[1] /\ Head(s) \in S /\ Tail(s) \in Seq(S)
      /\ Len(s) \in Nat \ {0} /\ Len(Tail(s)) = Len(s) - 1
      /\ \A i \in 1..Len(Tail(s)) : Tail(s)[i] = s[i + 1]
  OBVIOUS
<1>2. DOMAIN s = 1..Len(s) /\ DOMAIN Tail(s) = 1..Len(Tail(s))
  BY <1>1
<1>3. ASSUME NEW x PROVE IsIn(x, s) <=> IsIn(x, Tail(s)) \/ x = Head(s)
  <2>1. ASSUME NEW i \in 1..Len(s), s[i] = x, i # 1
        PROVE  i - 1 \in 1..Len(Tail(s)) /\ Tail(s)[i - 1] = x
    BY <1>1, <2>1
  <2>2. ASSUME NEW i \in 1..Len(Tail(s)), Tail(s)[i] = x
        PROVE  i + 1 \in 1..Len(s) /\ s[i + 1] = x
    BY <1>1, <2>2
  <2>3. 1 \in 1..Len(s)
    BY <1>1
  <2>4. IsIn(x, s) => IsIn(x, Tail(s)) \/ x = Head(s)
    BY <1>1, <1>2, <2>1 DEF IsIn
  <2>5. IsIn(x, Tail(s)) \/ x = Head(s) => IsIn(x, s)
    BY <1>1, <1>2, <2>2, <2>3 DEF IsIn
  <2> QED
    BY <2>4, <2>5
<1>4. Distinct(s) => Distinct(Tail(s)) /\ ~IsIn(Head(s), Tail(s))
  BY <1>1, <1>2 DEF Distinct, IsIn
<1>5. QED
  BY <1>1, <1>2, <1>3, <1>4 DEF IsIn

(***************************************************************************)
(* Cancelling a waiter removes it from the line and nobody else.           *)
(***************************************************************************)
LEMMA WithoutRemoves ==
    ASSUME NEW S, NEW s \in Seq(S), NEW e, Distinct(s)
    PROVE  /\ Without(s, e) \in Seq(S)
           /\ Distinct(Without(s, e))
           /\ \A x : IsIn(x, Without(s, e)) <=> IsIn(x, s) /\ x # e
           /\ Without(s, e) # <<>> => s # <<>>
<1>1. CASE ~IsIn(e, s)
  BY <1>1 DEF Without, IsIn
<1>2. CASE IsIn(e, s)
  <2> DEFINE k == CHOOSE i \in DOMAIN s : s[i] = e
             w == [i \in 1..(Len(s) - 1) |-> IF i < k THEN s[i] ELSE s[i + 1]]
  <2>1. k \in 1..Len(s) /\ s[k] = e
    BY <1>2 DEF IsIn
  <2>2. Without(s, e) = w
    BY <1>2 DEF Without
  <2>3. /\ w \in Seq(S) /\ DOMAIN w = 1..(Len(s) - 1) /\ Len(w) = Len(s) - 1
    <3>1. Len(s) - 1 \in Nat /\ \A i \in 1..(Len(s) - 1) : w[i] \in S
      BY <2>1
    <3>2. w \in [1..(Len(s) - 1) -> S]
      BY <3>1
    <3>3. QED
      BY <3>1, <3>2
  <2>10. \A i \in DOMAIN w : w[i] = IF i < k THEN s[i] ELSE s[i + 1]
    OBVIOUS
  <2> HIDE DEF k, w
  <2>4. ASSUME NEW i \in DOMAIN w, NEW j \in DOMAIN w, w[i] = w[j]
        PROVE  i = j
    BY <2>1, <2>3, <2>10, <2>4 DEF Distinct
  <2>5. ASSUME NEW i \in DOMAIN w
        PROVE  IsIn(w[i], s) /\ w[i] # e
    BY <2>1, <2>3, <2>10 DEF Distinct, IsIn
  <2>6. ASSUME NEW i \in DOMAIN s, s[i] # e
        PROVE  IsIn(s[i], w)
    <3>1. CASE i < k
      BY <2>1, <2>3, <2>10, <3>1 DEF IsIn
    <3>2. CASE i > k
      <4>1. i - 1 \in DOMAIN w /\ w[i - 1] = s[i]
        BY <2>1, <2>3, <2>10, <3>2
      <4>2. QED
        BY <4>1 DEF IsIn
    <3>3. QED
      BY <2>1, <2>6, <3>1, <3>2
  <2>7. Distinct(w)
    BY <2>4 DEF Distinct
  <2>8. \A x : IsIn(x, w) <=> IsIn(x, s) /\ x # e
    BY <2>5, <2>6, <2>1 DEF IsIn
  <2>9. s # <<>>
    BY <2>1
  <2> QED
    BY <2>2, <2>3, <2>7, <2>8, <2>9
<1> QED
  BY <1>1, <1>2

(***************************************************************************)
(* A log, the prefix of it that was taken and the rest that is held: the   *)
(* relation between the three survives appending a new element.            *)
(***************************************************************************)
TakenAndHeld(log, taken, held) ==
    /\ Distinct(log)
    /\ Len(taken) <= Len(log)
    /\ Len(log) = Len(taken) + Len(held)
    /\ \A i \in DOMAIN taken : taken[i] = log[i]
    /\ \A i \in DOMAIN held : held[i] = log[Len(taken) + i]

LEMMA AppendKeepsOrder ==
    ASSUME NEW log \in Seq(Requests), NEW taken \in Seq(Requests),
           NEW held \in Seq(Requests), NEW e \in Requests,
           ~IsIn(e, log), TakenAndHeld(log, taken, held)
    PROVE  TakenAndHeld(Append(log, e), taken, Append(held, e))
<1> SUFFICES
        /\ Distinct(Append(log, e))
        /\ Len(taken) <= Len(Append(log, e))
        /\ Len(Append(log, e)) = Len(taken) + Len(Append(held, e))
        /\ \A i \in DOMAIN taken : taken[i] = Append(log, e)[i]
        /\ \A i \in DOMAIN Append(held, e) :
              Append(held, e)[i] = Append(log, e)[Len(taken) + i]
  BY Zenon DEF TakenAndHeld
<1> DEFINE l == Append(log, e)  h == Append(held, e)  n == Len(log)  m == Len(held)  k == Len(taken)
<1>1. /\ n \in Nat /\ m \in Nat /\ k \in Nat /\ n = k + m
      /\ Len(l) = n + 1 /\ Len(h) = m + 1
      /\ DOMAIN log = 1..n /\ DOMAIN held = 1..m /\ DOMAIN taken = 1..k
      /\ DOMAIN l = 1..(n + 1) /\ DOMAIN h = 1..(m + 1)
      /\ l[n + 1] = e /\ h[m + 1] = e
  <2>1. n \in Nat /\ m \in Nat /\ k \in Nat /\ n = k + m
    BY DEF TakenAndHeld
  <2>2. Len(l) = n + 1 /\ l[n + 1] = e /\ l \in Seq(Requests)
    OBVIOUS
  <2>3. Len(h) = m + 1 /\ h[m + 1] = e /\ h \in Seq(Requests)
    OBVIOUS
  <2>4. DOMAIN log = 1..n /\ DOMAIN held = 1..m /\ DOMAIN taken = 1..k
    OBVIOUS
  <2>5. DOMAIN l = 1..Len(l) /\ DOMAIN h = 1..Len(h)
    BY <2>2, <2>3
  <2> QED
    BY <2>1, <2>2, <2>3, <2>4, <2>5
<1>2. (\A i \in 1..n : l[i] = log[i]) /\ (\A i \in 1..m : h[i] = held[i])
  OBVIOUS
<1>3. /\ \A i \in 1..n : log[i] # e
      /\ \A i, j \in 1..n : log[i] = log[j] => i = j
      /\ \A i \in 1..k : taken[i] = log[i]
      /\ \A i \in 1..m : held[i] = log[k + i]
  BY <1>1 DEF IsIn, Distinct, TakenAndHeld
<1> HIDE DEF l, h, n, m, k
<1>4. \A i, j \in 1..(n + 1) : l[i] = l[j] => i = j
  <2> SUFFICES ASSUME NEW i \in 1..(n + 1), NEW j \in 1..(n + 1), l[i] = l[j] PROVE i = j
    OBVIOUS
  <2>1. (i = n + 1 \/ i \in 1..n) /\ (j = n + 1 \/ j \in 1..n)
    BY <1>1
  <2>2. /\ i \in 1..n => l[i] = log[i] /\ log[i] # e
        /\ j \in 1..n => l[j] = log[j] /\ log[j] # e
    BY <1>2, <1>3
  <2>3. CASE i = n + 1 \/ j = n + 1
    BY <1>1, <2>1, <2>2, <2>3
  <2>4. CASE i \in 1..n /\ j \in 1..n
    BY <1>3, <2>2, <2>4
  <2> QED
    BY <2>1, <2>3, <2>4
<1>5. \A i \in 1..k : taken[i] = l[i]
  BY <1>1, <1>2, <1>3
<1>6. ASSUME NEW i \in 1..(m + 1) PROVE h[i] = l[k + i]
  <2>1. CASE i = m + 1
    BY <1>1, <2>1
  <2>2. CASE i \in 1..m
    <3>1. k + i \in 1..n
      BY <1>1, <2>2
    <3> QED
      BY <1>2, <1>3, <2>2, <3>1
  <2> QED
    BY <1>1, <2>1, <2>2
<1>7. Len(taken) <= Len(l) /\ Len(l) = Len(taken) + Len(h)
  BY <1>1 DEF k
<1> QED
  BY <1>1, <1>4, <1>5, <1>6, <1>7 DEF l, h, k, Distinct

-----------------------------------------------------------------------------
(***************************************************************************)
(* Slots: what each way of moving a slot does to the count.                *)
(***************************************************************************)
LEMMA SlotFreedCounts ==
    ASSUME TypeOK, LineInv,
           NEW holders \in SUBSET granted, IsFiniteSet(holders),
           permits + Cardinality(holders) < Buffer,
           SlotFreed(holders)
    PROVE  /\ permits' \in 0..Buffer
           /\ sendq' \in Seq(Requests)
           /\ granted' \in SUBSET Requests
           /\ IsFiniteSet(granted')
           /\ permits' + Cardinality(granted') = permits + Cardinality(holders) + 1
           /\ sendq' # <<>> => sendq # <<>> /\ permits' = permits
           /\ Distinct(sendq')
           /\ \A r \in Requests : IsIn(r, sendq') => IsIn(r, sendq) /\ r \notin granted'
           /\ \A r \in granted' : r \in holders \/ IsIn(r, sendq)
           /\ \A r \in Requests : r \in holders \/ IsIn(r, sendq) => IsIn(r, sendq') \/ r \in granted'
<1>1. CASE sendq = <<>>
  <2>1. Cardinality(holders) \in Nat
    BY FS_CardinalityType
  <2> QED
    BY <1>1, <2>1 DEF SlotFreed, TypeOK, LineInv, IsIn, Distinct
<1>2. CASE sendq # <<>>
  <2>1. /\ Head(sendq) \in Requests /\ Tail(sendq) \in Seq(Requests)
        /\ IsIn(Head(sendq), sendq)
        /\ Distinct(Tail(sendq)) /\ ~IsIn(Head(sendq), Tail(sendq))
        /\ \A r : IsIn(r, sendq) <=> IsIn(r, Tail(sendq)) \/ r = Head(sendq)
    BY <1>2, IsInTail DEF TypeOK, LineInv
  <2>2. Head(sendq) \notin granted
    BY <2>1 DEF LineInv
  <2>3. /\ IsFiniteSet(holders \cup {Head(sendq)})
        /\ Cardinality(holders \cup {Head(sendq)}) = Cardinality(holders) + 1
        /\ Cardinality(holders) \in Nat
    BY <2>2, FS_AddElement, FS_CardinalityType
  <2>4. permits' = permits /\ granted' = holders \cup {Head(sendq)} /\ sendq' = Tail(sendq)
    BY <1>2 DEF SlotFreed
  <2>5. \A r \in Requests : IsIn(r, sendq) => r \notin granted
    BY DEF LineInv
  <2> QED
    BY <1>2, <2>1, <2>2, <2>3, <2>4, <2>5 DEF TypeOK
<1> QED
  BY <1>1, <1>2

-----------------------------------------------------------------------------
(***************************************************************************)
(* The inductive invariant: initially, and through every action.           *)
(***************************************************************************)
LEMMA IInvInit == Init => IInv
BY FS_EmptySet DEF Init, IInv, TypeOK, LineInv, SlotInv, SlotsAccounted, AdmissionInv,
   FirstInFirstOut, LoopInv, ServerInv, ReplyInv, NobodyForgotten, Active, ReceiverAlive,
   Distinct, IsIn, ServerStates, TaskStates, InterpStates, ReplyStates, Outcomes

(***************************************************************************)
(* Actions that move no request and no slot.                               *)
(***************************************************************************)
LEMMA BindStep == IInv /\ Bind => IInv'
BY DEF IInv, Bind, TypeOK, LineInv, SlotInv, SlotsAccounted, AdmissionInv, FirstInFirstOut,
      LoopInv, ServerInv, ReplyInv, NobodyForgotten, Active, ReceiverAlive,
      ServerStates, TaskStates, InterpStates, ReplyStates, Outcomes, LocalOutcomes,
      DroppedOutcomes, vars, serverVars, channelVars, interpVars, Finish

LEMMA BindFailsStep == IInv /\ BindFails => IInv'
BY DEF IInv, BindFails, TypeOK, LineInv, SlotInv, SlotsAccounted, AdmissionInv, FirstInFirstOut,
      LoopInv, ServerInv, ReplyInv, NobodyForgotten, Active, ReceiverAlive,
      ServerStates, TaskStates, InterpStates, ReplyStates, Outcomes, LocalOutcomes,
      DroppedOutcomes, vars, serverVars, channelVars, interpVars, Finish

LEMMA ShutdownSignalStep == IInv /\ ShutdownSignal => IInv'
BY DEF IInv, ShutdownSignal, TypeOK, LineInv, SlotInv, SlotsAccounted, AdmissionInv, FirstInFirstOut,
      LoopInv, ServerInv, ReplyInv, NobodyForgotten, Active, ReceiverAlive,
      ServerStates, TaskStates, InterpStates, ReplyStates, Outcomes, LocalOutcomes,
      DroppedOutcomes, vars, serverVars, channelVars, interpVars, Finish

LEMMA ServerStopsStep == IInv /\ ServerStops => IInv'
BY DEF IInv, ServerStops, TypeOK, LineInv, SlotInv, SlotsAccounted, AdmissionInv, FirstInFirstOut,
      LoopInv, ServerInv, ReplyInv, NobodyForgotten, Active, ReceiverAlive,
      ServerStates, TaskStates, InterpStates, ReplyStates, Outcomes, LocalOutcomes,
      DroppedOutcomes, vars, serverVars, channelVars, interpVars, Finish

LEMMA AcceptStep == IInv /\ (\E r \in Requests : Accept(r)) => IInv'
BY DEF IInv, Accept, TypeOK, LineInv, SlotInv, SlotsAccounted, AdmissionInv, FirstInFirstOut,
      LoopInv, ServerInv, ReplyInv, NobodyForgotten, Active, ReceiverAlive,
      ServerStates, TaskStates, InterpStates, ReplyStates, Outcomes, LocalOutcomes,
      DroppedOutcomes, vars, serverVars, channelVars, interpVars, Finish

LEMMA AnswerLocallyStep == IInv /\ (\E r \in Requests : AnswerLocally(r)) => IInv'
BY DEF IInv, AnswerLocally, TypeOK, LineInv, SlotInv, SlotsAccounted, AdmissionInv, FirstInFirstOut,
      LoopInv, ServerInv, ReplyInv, NobodyForgotten, Active, ReceiverAlive,
      ServerStates, TaskStates, InterpStates, ReplyStates, Outcomes, LocalOutcomes,
      DroppedOutcomes, vars, serverVars, channelVars, interpVars, Finish

LEMMA ReceiveReplyStep == IInv /\ (\E r \in Requests : ReceiveReply(r)) => IInv'
BY DEF IInv, ReceiveReply, TypeOK, LineInv, SlotInv, SlotsAccounted, AdmissionInv, FirstInFirstOut,
      LoopInv, ServerInv, ReplyInv, NobodyForgotten, Active, ReceiverAlive,
      ServerStates, TaskStates, InterpStates, ReplyStates, Outcomes, LocalOutcomes,
      DroppedOutcomes, vars, serverVars, channelVars, interpVars, Finish

LEMMA ReplyLostStep == IInv /\ (\E r \in Requests : ReplyLost(r)) => IInv'
BY DEF IInv, ReplyLost, TypeOK, LineInv, SlotInv, SlotsAccounted, AdmissionInv, FirstInFirstOut,
      LoopInv, ServerInv, ReplyInv, NobodyForgotten, Active, ReceiverAlive,
      ServerStates, TaskStates, InterpStates, ReplyStates, Outcomes, LocalOutcomes,
      DroppedOutcomes, vars, serverVars, channelVars, interpVars, Finish

LEMMA RespondStep == IInv /\ Respond => IInv'
BY DEF IInv, Respond, TypeOK, LineInv, SlotInv, SlotsAccounted, AdmissionInv, FirstInFirstOut,
      LoopInv, ServerInv, ReplyInv, NobodyForgotten, Active, ReceiverAlive,
      ServerStates, TaskStates, InterpStates, ReplyStates, Outcomes, LocalOutcomes,
      DroppedOutcomes, vars, serverVars, channelVars, interpVars, Finish

LEMMA LoopExitsStep == IInv /\ LoopExits => IInv'
BY DEF IInv, LoopExits, TypeOK, LineInv, SlotInv, SlotsAccounted, AdmissionInv, FirstInFirstOut,
      LoopInv, ServerInv, ReplyInv, NobodyForgotten, Active, ReceiverAlive,
      ServerStates, TaskStates, InterpStates, ReplyStates, Outcomes, LocalOutcomes,
      DroppedOutcomes, vars, serverVars, channelVars, interpVars, Finish

(***************************************************************************)
(* Entering the channel keeps it first in first out.                       *)
(***************************************************************************)
LEMMA PushKeepsOrder ==
    ASSUME IInv, ReceiverAlive, NEW r \in Requests, task[r] \notin {"waiting", "done"},
           Push(r), UNCHANGED <<interp, executed>>
    PROVE  /\ queue' \in Seq(Requests) /\ Len(queue') = Len(queue) + 1
           /\ admitted' \in Seq(Requests)
           /\ \A x : IsIn(x, queue') <=> IsIn(x, queue) \/ x = r
           /\ \A x : IsIn(x, admitted') <=> IsIn(x, admitted) \/ x = r
           /\ task' = [task EXCEPT ![r] = "waiting"]
           /\ FirstInFirstOut'
<1>1. /\ queue \in Seq(Requests) /\ admitted \in Seq(Requests) /\ executed \in Seq(Requests)
      /\ queue' = Append(queue, r) /\ admitted' = Append(admitted, r) /\ executed' = executed
      /\ Len(queue) \in Nat /\ Len(admitted) \in Nat /\ Len(executed) \in Nat
      /\ ~IsIn(r, admitted)
  BY DEF IInv, TypeOK, Push, AdmissionInv
<1>2. /\ queue' \in Seq(Requests) /\ Len(queue') = Len(queue) + 1
      /\ admitted' \in Seq(Requests) /\ Len(admitted') = Len(admitted) + 1
      /\ \A x : IsIn(x, queue') <=> IsIn(x, queue) \/ x = r
      /\ \A x : IsIn(x, admitted') <=> IsIn(x, admitted) \/ x = r
  BY <1>1, IsInAppend
<1>3. TakenAndHeld(admitted, executed, queue)
  BY DEF IInv, FirstInFirstOut, ReceiverAlive, TakenAndHeld
<1>4. TakenAndHeld(admitted', executed', queue')
  <2>1. TakenAndHeld(Append(admitted, r), executed, Append(queue, r))
    <3> HIDE DEF IInv
    <3>1. admitted \in Seq(Requests) /\ executed \in Seq(Requests) /\ queue \in Seq(Requests)
      BY DEF IInv, TypeOK
    <3>2. ~IsIn(r, admitted)
      BY <1>1
    <3> QED
      BY <1>3, <3>1, <3>2, AppendKeepsOrder, Zenon
  <2> QED
    BY <1>1, <2>1, Zenon
<1>8. FirstInFirstOut'
  BY <1>4 DEF FirstInFirstOut, TakenAndHeld
<1> QED
  BY <1>2, <1>8 DEF Push

LEMMA SendNowStep ==
    ASSUME IInv, NEW r \in Requests, SendNow(r)
    PROVE  IInv'
<1> USE DEF IInv, SendNow, interpVars
<1>1. ReceiverAlive /\ Push(r) /\ task[r] = "routing"
  BY DEF LineInv
<1>2. /\ queue' \in Seq(Requests) /\ Len(queue') = Len(queue) + 1
      /\ admitted' \in Seq(Requests)
      /\ \A x : IsIn(x, queue') <=> IsIn(x, queue) \/ x = r
      /\ \A x : IsIn(x, admitted') <=> IsIn(x, admitted) \/ x = r
      /\ task' = [task EXCEPT ![r] = "waiting"]
      /\ FirstInFirstOut'
  BY <1>1, PushKeepsOrder
<1>3. TypeOK'
  BY <1>1, <1>2 DEF TypeOK, TaskStates
<1>4. LineInv'
  BY <1>1, <1>2 DEF LineInv, TypeOK
<1>5. SlotInv'
  <2>1. Cardinality(granted) \in Nat
    BY FS_CardinalityType DEF SlotInv
  <2> QED
    <3>1. /\ permits \in Nat /\ permits' = permits - 1 /\ permits > 0
          /\ Len(queue) \in Nat /\ Buffer \in Nat
          /\ permits + Cardinality(granted) + Len(queue) = Buffer
          /\ granted' = granted /\ sendq' = sendq /\ sendq = <<>> /\ IsFiniteSet(granted)
      BY <1>1 DEF TypeOK, SlotInv, SlotsAccounted
    <3>2. Len(queue') = Len(queue) + 1 /\ Cardinality(granted') \in Nat /\ IsFiniteSet(granted')
      BY <1>2, <2>1, <3>1
    <3> HIDE DEF IInv, SendNow
    <3>3. /\ permits' + Cardinality(granted') + Len(queue') = Buffer
          /\ sendq' # <<>> => permits' = 0
      BY <2>1, <3>1, <3>2
    <3> QED
      BY <3>2, <3>3 DEF SlotInv, SlotsAccounted
<1>6. AdmissionInv' /\ LoopInv' /\ ReplyInv'
  BY <1>1, <1>2 DEF AdmissionInv, LoopInv, ReplyInv, ReceiverAlive, TypeOK
<1>7. ServerInv'
  BY <1>1, <1>2 DEF ServerInv, TypeOK, Active
<1>8. NobodyForgotten'
  BY <1>1, <1>2 DEF NobodyForgotten, TypeOK, LineInv
<1> QED
  BY <1>2, <1>3, <1>4, <1>5, <1>6, <1>7, <1>8

LEMMA SendGrantedStep ==
    ASSUME IInv, NEW r \in Requests, SendGranted(r)
    PROVE  IInv'
<1> USE DEF IInv, SendGranted, interpVars
<1>1. ReceiverAlive /\ Push(r) /\ task[r] = "sending"
  BY DEF LineInv
<1>2. /\ queue' \in Seq(Requests) /\ Len(queue') = Len(queue) + 1
      /\ admitted' \in Seq(Requests)
      /\ \A x : IsIn(x, queue') <=> IsIn(x, queue) \/ x = r
      /\ \A x : IsIn(x, admitted') <=> IsIn(x, admitted) \/ x = r
      /\ task' = [task EXCEPT ![r] = "waiting"]
      /\ FirstInFirstOut'
  BY <1>1, PushKeepsOrder
<1>3. TypeOK'
  BY <1>1, <1>2 DEF TypeOK, TaskStates
<1>4. LineInv'
  BY <1>1, <1>2 DEF LineInv, TypeOK
<1>5. SlotInv'
  <2>1. /\ IsFiniteSet(granted') /\ Cardinality(granted') = Cardinality(granted) - 1
        /\ Cardinality(granted) \in Nat /\ Cardinality(granted') \in Nat
    <3>1. IsFiniteSet(granted') /\ Cardinality(granted') = Cardinality(granted) - 1
      BY FS_RemoveElement DEF SlotInv
    <3> QED
      BY <3>1, FS_CardinalityType DEF SlotInv
  <2> QED
    <3>1. /\ permits \in Nat /\ permits' = permits /\ sendq' = sendq
          /\ Len(queue) \in Nat /\ Buffer \in Nat
          /\ permits + Cardinality(granted) + Len(queue) = Buffer
          /\ sendq # <<>> => permits = 0
      BY <1>1 DEF TypeOK, SlotInv, SlotsAccounted
    <3>2. Len(queue') = Len(queue) + 1 /\ Cardinality(granted') \in Nat /\ IsFiniteSet(granted')
      BY <1>2, <2>1, <3>1
    <3> HIDE DEF IInv, SendGranted
    <3>3. /\ permits' + Cardinality(granted') + Len(queue') = Buffer
          /\ sendq' # <<>> => permits' = 0
      BY <2>1, <3>1, <3>2, SMTT(30)
    <3> QED
      BY <3>2, <3>3 DEF SlotInv, SlotsAccounted
<1>6. AdmissionInv' /\ LoopInv' /\ ReplyInv'
  BY <1>1, <1>2 DEF AdmissionInv, LoopInv, ReplyInv, ReceiverAlive, TypeOK
<1>7. ServerInv'
  BY <1>1, <1>2 DEF ServerInv, TypeOK, Active
<1>8. NobodyForgotten'
  BY <1>1, <1>2 DEF NobodyForgotten, TypeOK, LineInv
<1> QED
  BY <1>2, <1>3, <1>4, <1>5, <1>6, <1>7, <1>8

LEMMA SendBlocksStep ==
    ASSUME IInv, NEW r \in Requests, SendBlocks(r)
    PROVE  IInv'
<1> USE DEF IInv, SendBlocks, interpVars
<1>1. ~IsIn(r, sendq) /\ r \notin granted
  BY DEF LineInv
<1>2. /\ sendq' \in Seq(Requests)
      /\ \A x : IsIn(x, sendq') <=> IsIn(x, sendq) \/ x = r
  BY IsInAppend DEF TypeOK
<1>3. Distinct(sendq')
  BY <1>1 DEF Distinct, IsIn, LineInv, TypeOK
<1>4. TypeOK' /\ SlotInv'
  BY <1>2 DEF TypeOK, TaskStates, SlotInv, SlotsAccounted, ReceiverAlive
<1>5. LineInv'
  BY <1>1, <1>2, <1>3 DEF LineInv, TypeOK
<1>6. AdmissionInv' /\ FirstInFirstOut' /\ LoopInv' /\ ServerInv' /\ ReplyInv'
  BY DEF AdmissionInv, FirstInFirstOut, LoopInv, ServerInv, ReplyInv, TypeOK, Active
<1>7. NobodyForgotten'
  BY <1>2 DEF NobodyForgotten, TypeOK
<1> QED
  BY <1>4, <1>5, <1>6, <1>7

LEMMA SendFailsStep ==
    ASSUME IInv, NEW r \in Requests, SendFails(r)
    PROVE  IInv'
<1> USE DEF IInv, SendFails, interpVars, Finish
<1>1. /\ sendq' \in Seq(Requests) /\ Distinct(sendq')
      /\ \A x : IsIn(x, sendq') <=> IsIn(x, sendq) /\ x # r
  BY WithoutRemoves DEF TypeOK, LineInv
<1>2. TypeOK'
  BY <1>1 DEF TypeOK, TaskStates, Outcomes
<1>3. LineInv'
  BY <1>1 DEF LineInv, TypeOK
<1>4. SlotInv'
  <2>1. IsFiniteSet(granted') /\ Cardinality(granted') <= Cardinality(granted)
        /\ Cardinality(granted) \in Nat /\ Cardinality(granted') \in Nat
    <3>1. /\ IsFiniteSet(granted \ {r})
          /\ Cardinality(granted \ {r}) = IF r \in granted THEN Cardinality(granted) - 1
                                           ELSE Cardinality(granted)
      BY FS_RemoveElement DEF SlotInv
    <3>2. Cardinality(granted) \in Nat /\ Cardinality(granted \ {r}) \in Nat
      BY <3>1, FS_CardinalityType DEF SlotInv
    <3> QED
      BY <3>1, <3>2
  <2> QED
    BY <2>1 DEF SlotInv, SlotsAccounted, ReceiverAlive, TypeOK
<1>5. AdmissionInv' /\ FirstInFirstOut' /\ LoopInv' /\ ServerInv' /\ ReplyInv'
  BY DEF AdmissionInv, FirstInFirstOut, LoopInv, ServerInv, ReplyInv, TypeOK, Active
<1>6. NobodyForgotten'
  BY <1>1 DEF NobodyForgotten, TypeOK
<1> QED
  BY <1>2, <1>3, <1>4, <1>5, <1>6

LEMMA AbandonStep ==
    ASSUME IInv, NEW r \in Requests, Abandon(r)
    PROVE  IInv'
<1> USE DEF IInv, Abandon, interpVars, Finish
<1>1. PICK o \in DroppedOutcomes : Finish(r, o)
  OBVIOUS
<1>2. /\ task' = [task EXCEPT ![r] = "done"] /\ outcome' \in [Requests -> Outcomes]
  BY <1>1 DEF TypeOK, Outcomes
<1>3. /\ permits' \in 0..Buffer /\ sendq' \in Seq(Requests) /\ granted' \in SUBSET Requests
      /\ IsFiniteSet(granted') /\ Distinct(sendq')
      /\ permits' + Cardinality(granted') = permits + Cardinality(granted)
      /\ sendq' # <<>> => sendq # <<>> /\ permits' = permits
      /\ \A x \in Requests : IsIn(x, sendq') => IsIn(x, sendq) /\ x \notin granted' /\ x # r
      /\ \A x \in granted' : x # r /\ (x \in granted \/ IsIn(x, sendq))
      /\ \A x \in Requests : x # r /\ (x \in granted \/ IsIn(x, sendq))
                               => IsIn(x, sendq') \/ x \in granted'
  <2>1. CASE r \in granted
    <3> DEFINE holders == granted \ {r}
    <3>1. /\ IsFiniteSet(holders) /\ Cardinality(holders) + 1 = Cardinality(granted)
          /\ Cardinality(holders) \in Nat /\ Cardinality(granted) \in Nat
      <4>1. IsFiniteSet(holders) /\ Cardinality(holders) = Cardinality(granted) - 1
        BY <2>1, FS_RemoveElement DEF SlotInv
      <4>2. Cardinality(holders) \in Nat /\ Cardinality(granted) \in Nat
        BY <4>1, FS_CardinalityType DEF SlotInv
      <4> QED
        BY <4>1, <4>2
    <3>2. permits + Cardinality(holders) < Buffer
      BY <3>1 DEF SlotInv, TypeOK
    <3>3. SlotFreed(holders) /\ holders \in SUBSET granted /\ ~IsIn(r, sendq)
      BY <2>1 DEF LineInv
    <3> HIDE DEF holders
    <3>4. /\ permits' \in 0..Buffer
          /\ sendq' \in Seq(Requests)
          /\ granted' \in SUBSET Requests
          /\ IsFiniteSet(granted')
          /\ permits' + Cardinality(granted') = permits + Cardinality(holders) + 1
          /\ sendq' # <<>> => sendq # <<>> /\ permits' = permits
          /\ Distinct(sendq')
          /\ \A x \in Requests : IsIn(x, sendq') => IsIn(x, sendq) /\ x \notin granted'
          /\ \A x \in granted' : x \in holders \/ IsIn(x, sendq)
          /\ \A x \in Requests : x \in holders \/ IsIn(x, sendq) => IsIn(x, sendq') \/ x \in granted'
      BY <3>1, <3>2, <3>3, SlotFreedCounts
    <3>5. permits \in Nat /\ \A x : x \in holders <=> x \in granted /\ x # r
      BY DEF holders, TypeOK
    <3>6. \A x \in granted' : x # r /\ (x \in granted \/ IsIn(x, sendq))
      BY <3>3, <3>4, <3>5
    <3> QED
      BY <2>1, <3>1, <3>3, <3>4, <3>5, <3>6
  <2>2. CASE r \notin granted
    <3>1. /\ sendq' \in Seq(Requests) /\ Distinct(sendq')
          /\ \A x : IsIn(x, sendq') <=> IsIn(x, sendq) /\ x # r
          /\ sendq' # <<>> => sendq # <<>>
      BY <2>2, WithoutRemoves DEF TypeOK, LineInv
    <3> QED
      BY <2>2, <3>1 DEF TypeOK, LineInv, SlotInv
  <2> QED
    BY <2>1, <2>2
<1>4. TypeOK'
  BY <1>2, <1>3 DEF TypeOK, TaskStates
<1>5. LineInv'
  BY <1>2, <1>3 DEF LineInv, TypeOK
<1>6. SlotInv'
  BY <1>3 DEF SlotInv, SlotsAccounted, ReceiverAlive, TypeOK
<1>7. AdmissionInv' /\ FirstInFirstOut' /\ LoopInv' /\ ServerInv' /\ ReplyInv'
  BY <1>2 DEF AdmissionInv, FirstInFirstOut, LoopInv, ServerInv, ReplyInv, TypeOK, Active
<1>8. NobodyForgotten'
  BY <1>2, <1>3 DEF NobodyForgotten, TypeOK
<1> QED
  BY <1>4, <1>5, <1>6, <1>7, <1>8

LEMMA ReceiveStep ==
    ASSUME IInv, Receive
    PROVE  IInv'
<1> USE DEF IInv, Receive, serverVars
<1>1. /\ Head(queue) \in Requests /\ Head(queue) = queue[1] /\ queue' \in Seq(Requests)
      /\ Len(queue') = Len(queue) - 1 /\ Len(queue) \in Nat \ {0}
      /\ \A i \in 1..Len(queue') : queue'[i] = queue[i + 1]
      /\ \A x : IsIn(x, queue) <=> IsIn(x, queue') \/ x = current'
  BY IsInTail DEF TypeOK
<1>2. /\ executed' \in Seq(Requests) /\ Len(executed') = Len(executed) + 1
      /\ \A x : IsIn(x, executed') <=> IsIn(x, executed) \/ x = current'
      /\ \A i \in 1..Len(executed) : executed'[i] = executed[i]
      /\ executed'[Len(executed) + 1] = queue[1]
  BY <1>1, IsInAppend DEF TypeOK
<1>3. permits + Cardinality(granted) < Buffer /\ Cardinality(granted) \in Nat
  BY <1>1, FS_CardinalityType DEF SlotInv, TypeOK
<1>4. /\ permits' \in 0..Buffer
      /\ sendq' \in Seq(Requests)
      /\ granted' \in SUBSET Requests
      /\ IsFiniteSet(granted')
      /\ permits' + Cardinality(granted') = permits + Cardinality(granted) + 1
      /\ sendq' # <<>> => sendq # <<>> /\ permits' = permits
      /\ Distinct(sendq')
      /\ \A x \in Requests : IsIn(x, sendq') => IsIn(x, sendq) /\ x \notin granted'
      /\ \A x \in granted' : x \in granted \/ IsIn(x, sendq)
      /\ \A x \in Requests : x \in granted \/ IsIn(x, sendq) => IsIn(x, sendq') \/ x \in granted'
  BY <1>3, SlotFreedCounts DEF SlotInv
<1>5. TypeOK'
  BY <1>1, <1>2, <1>4 DEF TypeOK, InterpStates
<1>6. LineInv'
  BY <1>4 DEF LineInv, TypeOK
<1>7. SlotInv'
  <2>1. Cardinality(granted') \in Nat
    BY <1>4, FS_CardinalityType
  <2> QED
    <3>1. permits \in Nat /\ permits' \in Nat /\ Buffer \in Nat
      BY <1>4 DEF TypeOK
    <3> QED
      BY <1>1, <1>3, <1>4, <2>1, <3>1, SMTT(30) DEF SlotInv, SlotsAccounted, ReceiverAlive
<1>8. FirstInFirstOut'
  <2>0. DOMAIN executed = 1..Len(executed) /\ DOMAIN queue = 1..Len(queue)
    BY DEF TypeOK
  <2>1. /\ Len(admitted) = Len(executed) + Len(queue)
        /\ \A i \in 1..Len(executed) : executed[i] = admitted[i]
        /\ \A i \in 1..Len(queue) : queue[i] = admitted[Len(executed) + i]
    BY <2>0 DEF FirstInFirstOut
  <2>2. \A i \in 1..Len(executed') : executed'[i] = admitted'[i]
    BY <1>1, <1>2, <2>1 DEF TypeOK
  <2>3. \A i \in 1..Len(queue') : queue'[i] = admitted'[Len(executed') + i]
    <3> SUFFICES ASSUME NEW i \in 1..Len(queue')
                 PROVE  queue'[i] = admitted[Len(executed) + 1 + i]
      BY <1>2
    <3>1. i + 1 \in 1..Len(queue) /\ queue'[i] = queue[i + 1]
      BY <1>1
    <3>2. queue[i + 1] = admitted[Len(executed) + (i + 1)]
      BY <2>1, <3>1
    <3>3. Len(executed) + (i + 1) = Len(executed) + 1 + i
      BY DEF TypeOK
    <3> QED
      BY <3>1, <3>2, <3>3
  <2>4. Len(executed') <= Len(admitted') /\ Len(admitted') = Len(executed') + Len(queue')
    BY <1>1, <1>2, <2>1 DEF TypeOK
  <2>5. DOMAIN executed' = 1..Len(executed') /\ DOMAIN queue' = 1..Len(queue')
    BY <1>1, <1>2
  <2> QED
    BY <2>2, <2>3, <2>4, <2>5 DEF FirstInFirstOut
<1>9. AdmissionInv' /\ LoopInv' /\ ServerInv' /\ ReplyInv'
  BY <1>1, <1>2 DEF AdmissionInv, LoopInv, ServerInv, ReplyInv, TypeOK, Active
<1>10. NobodyForgotten'
  BY <1>1, <1>4 DEF NobodyForgotten, TypeOK, LoopInv
<1> QED
  BY <1>5, <1>6, <1>7, <1>8, <1>9, <1>10

LEMMA InterpreterPanicsStep ==
    ASSUME IInv, InterpreterPanics
    PROVE  IInv'
<1> USE DEF IInv, InterpreterPanics, serverVars
<1>1. queue' = <<>> /\ ~ReceiverAlive'
  BY DEF ReceiverAlive
<1>2. TypeOK' /\ LineInv' /\ AdmissionInv' /\ ServerInv' /\ LoopInv'
  BY DEF TypeOK, LineInv, AdmissionInv, ServerInv, LoopInv, InterpStates, ReplyStates, Active
<1>3. SlotInv'
  <2>1. Cardinality(granted) \in Nat
    BY FS_CardinalityType DEF SlotInv
  <2> QED
    BY <1>1, <2>1 DEF SlotInv, SlotsAccounted, TypeOK
<1>4. FirstInFirstOut'
  BY <1>1 DEF FirstInFirstOut, TypeOK, ReceiverAlive
<1>5. ReplyInv' /\ NobodyForgotten'
  BY DEF ReplyInv, NobodyForgotten, TypeOK, IsIn
<1> QED
  BY <1>2, <1>3, <1>4, <1>5

LEMMA ProcessExitsStep ==
    ASSUME IInv, ProcessExits
    PROVE  IInv'
<1> USE DEF IInv, ProcessExits, Active
<1>1. /\ sendq' = <<>> /\ granted' = {} /\ Distinct(sendq') /\ \A x : ~IsIn(x, sendq')
  BY DEF Distinct, IsIn
<1>2. TypeOK'
  BY DEF TypeOK, InterpStates, ServerStates, TaskStates, Outcomes, DroppedOutcomes
<1>3. LineInv'
  BY <1>1 DEF LineInv, TypeOK
<1>4. SlotInv'
  <2>1. Cardinality(granted) \in Nat /\ Cardinality({}) = 0 /\ IsFiniteSet({})
    BY FS_CardinalityType, FS_EmptySet DEF SlotInv
  <2> QED
    BY <1>1, <2>1 DEF SlotInv, SlotsAccounted, ReceiverAlive, TypeOK
<1>5. AdmissionInv' /\ FirstInFirstOut' /\ LoopInv' /\ ServerInv' /\ ReplyInv'
  BY DEF AdmissionInv, FirstInFirstOut, LoopInv, ServerInv, ReplyInv, TypeOK
<1>6. NobodyForgotten'
  BY DEF NobodyForgotten, TypeOK
<1> QED
  BY <1>2, <1>3, <1>4, <1>5, <1>6

-----------------------------------------------------------------------------
(***************************************************************************)
(* Every step keeps the inductive invariant.                               *)
(***************************************************************************)
LEMMA IInvStep == IInv /\ [Next]_vars => IInv'
<1> SUFFICES ASSUME IInv, [Next]_vars PROVE IInv'
  OBVIOUS
<1>1. CASE ServerStep
  BY <1>1, BindStep, BindFailsStep, ShutdownSignalStep, ServerStopsStep DEF ServerStep
<1>2. ASSUME NEW r \in Requests, TaskStep(r) PROVE IInv'
  BY <1>2, AcceptStep, AnswerLocallyStep, SendNowStep, SendBlocksStep, SendGrantedStep,
     SendFailsStep, ReceiveReplyStep, ReplyLostStep, AbandonStep DEF TaskStep
<1>3. CASE InterpStep
  BY <1>3, ReceiveStep, RespondStep, LoopExitsStep, InterpreterPanicsStep, ProcessExitsStep
     DEF InterpStep
<1>4. CASE UNCHANGED vars
  BY <1>4 DEF IInv, TypeOK, LineInv, SlotInv, SlotsAccounted, AdmissionInv, FirstInFirstOut,
     LoopInv, ServerInv, ReplyInv, NobodyForgotten, Active, ReceiverAlive,
     vars, serverVars, channelVars, interpVars
<1> QED
  BY <1>1, <1>2, <1>3, <1>4 DEF Next, Terminated

(***************************************************************************)
(* The inductive invariant holds in every reachable state.                 *)
(***************************************************************************)
THEOREM Invariance == Spec => []IInv
BY IInvInit, IInvStep, PTL DEF Spec

(***************************************************************************)
(* Every variable keeps its type; the free slots stay within the buffer.   *)
(***************************************************************************)
THEOREM TypeCorrect == Spec => []TypeOK
<1>1. IInv => TypeOK
  BY DEF IInv
<1> QED
  BY <1>1, Invariance, PTL

(***************************************************************************)
(* No slot of the channel is lost or given twice, whenever tasks are       *)
(* dropped, for any number of requests and any buffer.                     *)
(***************************************************************************)
THEOREM SlotsNeverLeak == Spec => []SlotsAccounted
<1>1. IInv => SlotsAccounted
  BY DEF IInv, SlotInv
<1> QED
  BY <1>1, Invariance, PTL

(***************************************************************************)
(* The interpreter executes requests in the order they were pushed, none   *)
(* twice.                                                                  *)
(***************************************************************************)
THEOREM ExecutionInOrder == Spec => []FirstInFirstOut
<1>1. IInv => FirstInFirstOut
  BY DEF IInv
<1> QED
  BY <1>1, Invariance, PTL

(***************************************************************************)
(* Nobody waits for a reply or a slot that cannot come.                    *)
(***************************************************************************)
THEOREM NobodyIsForgotten == Spec => []NobodyForgotten
<1>1. IInv => NobodyForgotten
  BY DEF IInv
<1> QED
  BY <1>1, Invariance, PTL

(***************************************************************************)
(* With an empty channel and a live loop, all that was pushed was taken.   *)
(***************************************************************************)
LEMMA AllExecuted ==
    ASSUME IInv, interp \in {"recv", "exited"}, queue = <<>>
    PROVE  executed = admitted
<1>1. /\ executed \in Seq(Requests) /\ admitted \in Seq(Requests)
      /\ Len(admitted) = Len(executed) + Len(queue) /\ Len(queue) = 0
      /\ \A i \in DOMAIN executed : executed[i] = admitted[i]
  BY DEF IInv, TypeOK, FirstInFirstOut
<1>2. Len(admitted) = Len(executed)
  BY <1>1
<1>3. DOMAIN executed = 1..Len(executed)
  BY <1>1
<1> QED
  BY <1>1, <1>2, <1>3, SeqEqual

(***************************************************************************)
(* After an orderly exit everybody was answered and everything pushed was  *)
(* executed.                                                               *)
(***************************************************************************)
THEOREM ExitIsOrderly == Spec => []OrderlyExit
<1>1. IInv => OrderlyExit
  <2> SUFFICES ASSUME IInv, interp = "exited" PROVE OrderlyExit
    BY DEF OrderlyExit
  <2>1. server = "stopped" /\ queue = <<>> /\ \A r \in Requests : ~Active(r)
    BY DEF IInv, LoopInv, ServerInv
  <2>2. granted = {}
    BY <2>1 DEF IInv, LineInv, Active, TypeOK
  <2>3. sendq = <<>>
    <3>1. \A r \in Requests : ~IsIn(r, sendq)
      BY <2>1 DEF IInv, LineInv, Active
    <3> QED
      BY <3>1 DEF IInv, TypeOK, IsIn
  <2> QED
    BY <2>1, <2>2, <2>3, AllExecuted DEF OrderlyExit
<1> QED
  BY <1>1, Invariance, PTL

-----------------------------------------------------------------------------
(***************************************************************************)
(* The bridge implements RequestService, safety part.                      *)
(***************************************************************************)
phaseBar == [r \in Requests |-> IF task[r] = "idle" THEN "new"
                                ELSE IF Active(r) THEN "open" ELSE "closed"]
upBar == interp \notin {"exited", "crashed"}

(***************************************************************************)
(* A step that gives r the answer o closes r in the service.               *)
(***************************************************************************)
LEMMA FinishCloses ==
    ASSUME IInv, NEW r \in Requests, NEW o \in Outcomes \ {"none"},
           Active(r), Finish(r, o), UNCHANGED <<admitted, interpVars>>,
           o = "response" => IsIn(r, executed),
           o \in LocalOutcomes => ~IsIn(r, admitted)
    PROVE  Service!Close(r, o)
<1>1. phaseBar[r] = "open" /\ phaseBar' = [phaseBar EXCEPT ![r] = "closed"]
  BY DEF phaseBar, Active, Finish, IInv, TypeOK
<1>2. UNCHANGED <<admitted, executed, upBar>>
  BY DEF interpVars, upBar
<1> QED
  BY <1>1, <1>2 DEF Service!Close, Service!Started, Service!Accepted, Finish, IsIn, phaseBar, upBar

(***************************************************************************)
(* A step that pushes r accepts it for execution.                          *)
(***************************************************************************)
LEMMA PushAccepts ==
    ASSUME IInv, ReceiverAlive, NEW r \in Requests, task[r] \in {"routing", "sending"},
           Push(r), UNCHANGED <<outcome, interpVars>>
    PROVE  Service!AcceptForExecution(r)
<1>1. phaseBar[r] = "open" /\ phaseBar' = phaseBar
  BY DEF phaseBar, Active, Push, IInv, TypeOK
<1>2. ~IsIn(r, admitted)
  BY DEF IInv, AdmissionInv
<1>3. UNCHANGED <<executed, upBar>> /\ upBar
  BY DEF interpVars, upBar, ReceiverAlive
<1> QED
  BY <1>1, <1>2, <1>3 DEF Service!AcceptForExecution, Service!Accepted, Push, IsIn, phaseBar, upBar

(***************************************************************************)
(* A step that leaves tasks, answers and histories alone is invisible.     *)
(***************************************************************************)
LEMMA Invisible ==
    ASSUME UNCHANGED <<outcome, admitted, executed>>, phaseBar' = phaseBar, upBar' = upBar
    PROVE  UNCHANGED Service!avars
BY DEF Service!avars, phaseBar, upBar

(***************************************************************************)
(* Every step of the bridge is a step of the service, or none.             *)
(***************************************************************************)
LEMMA StepRefines == IInv /\ [Next]_vars => [Service!Next]_Service!avars
<1> SUFFICES ASSUME IInv, [Next]_vars PROVE [Service!Next]_Service!avars
  OBVIOUS
<1> USE DEF interpVars, channelVars, serverVars
<1>1. CASE ServerStep
  <2>1. UNCHANGED <<task, outcome, admitted, executed, interp>>
    BY <1>1 DEF ServerStep, Bind, BindFails, ShutdownSignal, ServerStops
  <2> QED
    BY <2>1, Invisible DEF phaseBar, upBar, Active
<1>2. ASSUME NEW r \in Requests, TaskStep(r) PROVE [Service!Next]_Service!avars
  <2>1. CASE Accept(r)
    <3>1. phaseBar[r] = "new" /\ phaseBar' = [phaseBar EXCEPT ![r] = "open"]
      BY <2>1 DEF Accept, phaseBar, Active, IInv, TypeOK
    <3>2. upBar /\ UNCHANGED <<outcome, admitted, executed, upBar>>
      BY <2>1 DEF Accept, upBar, IInv, LoopInv
    <3>3. Service!Open(r)
      BY <3>1, <3>2 DEF Service!Open, phaseBar, upBar
    <3> QED
      BY <3>3 DEF Service!Next
  <2>2. CASE AnswerLocally(r)
    <3>1. PICK o \in LocalOutcomes : Finish(r, o)
      BY <2>2 DEF AnswerLocally
    <3>2. Service!Close(r, o)
      BY <2>2, <3>1, FinishCloses
         DEF AnswerLocally, Active, LocalOutcomes, Outcomes, IInv, AdmissionInv
    <3> QED
      BY <3>2 DEF Service!Next, Outcomes
  <2>3. CASE SendNow(r) \/ SendGranted(r)
    <3>1. Service!AcceptForExecution(r)
      BY <2>3, PushAccepts DEF SendNow, SendGranted, IInv, LineInv
    <3> QED
      BY <3>1 DEF Service!Next
  <2>4. CASE SendBlocks(r)
    <3>1. UNCHANGED <<outcome, admitted, executed, upBar>>
      BY <2>4 DEF SendBlocks, upBar
    <3>2. phaseBar' = phaseBar
      BY <2>4 DEF SendBlocks, phaseBar, Active, IInv, TypeOK
    <3> QED
      BY <3>1, <3>2, Invisible
  <2>5. CASE SendFails(r) \/ ReplyLost(r)
    <3>1. Service!Close(r, "internal_error")
      BY <2>5, FinishCloses DEF SendFails, ReplyLost, Active, Outcomes, LocalOutcomes
    <3> QED
      BY <3>1 DEF Service!Next, Outcomes
  <2>6. CASE ReceiveReply(r)
    <3>1. Service!Close(r, "response")
      BY <2>6, FinishCloses DEF ReceiveReply, Active, Outcomes, LocalOutcomes, IInv, ReplyInv
    <3> QED
      BY <3>1 DEF Service!Next, Outcomes
  <2>7. CASE Abandon(r)
    <3>1. PICK o \in DroppedOutcomes : Finish(r, o)
      BY <2>7 DEF Abandon
    <3>2. Service!Close(r, o)
      BY <2>7, <3>1, FinishCloses DEF Abandon, DroppedOutcomes, LocalOutcomes, Outcomes
    <3> QED
      BY <3>2 DEF Service!Next, Outcomes, DroppedOutcomes
  <2> QED
    BY <1>2, <2>1, <2>2, <2>3, <2>4, <2>5, <2>6, <2>7 DEF TaskStep
<1>3. CASE Receive
  <2>1. phaseBar' = phaseBar /\ UNCHANGED <<outcome, admitted>>
    BY <1>3 DEF Receive, phaseBar, Active
  <2>2. upBar /\ upBar'
    BY <1>3 DEF Receive, upBar
  <2>3. Len(executed) < Len(admitted) /\ admitted[Len(executed) + 1] = Head(queue)
    <3>1. /\ Len(queue) \in Nat \ {0} /\ Head(queue) = queue[1] /\ DOMAIN queue = 1..Len(queue)
          /\ Len(executed) \in Nat
      BY <1>3 DEF Receive, IInv, TypeOK
    <3>2. /\ Len(admitted) = Len(executed) + Len(queue)
          /\ \A i \in DOMAIN queue : queue[i] = admitted[Len(executed) + i]
      BY <1>3 DEF Receive, IInv, FirstInFirstOut
    <3> QED
      BY <3>1, <3>2
  <2>4. executed' = Append(executed, Head(queue))
    BY <1>3 DEF Receive
  <2>5. Service!Run
    BY <2>1, <2>2, <2>3, <2>4 DEF Service!Run, phaseBar, upBar
  <2> QED
    BY <2>5 DEF Service!Next
<1>4. CASE Respond \/ InterpreterPanics
  <2>1. UNCHANGED <<task, outcome, admitted, executed>>
    BY <1>4 DEF Respond, InterpreterPanics
  <2>2. upBar /\ upBar'
    BY <1>4 DEF Respond, InterpreterPanics, upBar
  <2> QED
    BY <2>1, <2>2, Invisible DEF phaseBar, Active
<1>5. CASE LoopExits
  <2>1. \A r \in Requests : phaseBar[r] # "open"
    BY <1>5 DEF LoopExits, phaseBar, IInv, ServerInv
  <2>2. executed = admitted
    BY <1>5, AllExecuted DEF LoopExits
  <2>3. /\ upBar /\ ~upBar' /\ phaseBar' = phaseBar
        /\ UNCHANGED <<outcome, admitted, executed>>
    BY <1>5 DEF LoopExits, upBar, phaseBar, Active
  <2>4. Service!Stop
    BY <2>1, <2>2, <2>3 DEF Service!Stop, phaseBar, upBar
  <2> QED
    BY <2>4 DEF Service!Next
<1>6. CASE ProcessExits
  <2>1. upBar /\ ~upBar' /\ MayPanic /\ UNCHANGED <<admitted, executed>>
    BY <1>6 DEF ProcessExits, upBar, IInv, LoopInv
  <2>2. phaseBar' = [r \in Requests |-> IF phaseBar[r] = "open" THEN "closed" ELSE phaseBar[r]]
    BY <1>6 DEF ProcessExits, phaseBar, Active, IInv, TypeOK
  <2>3. outcome' = [r \in Requests |-> IF phaseBar[r] = "open" THEN "disconnected" ELSE outcome[r]]
    BY <1>6 DEF ProcessExits, phaseBar, Active, IInv, TypeOK
  <2>4. Service!Crash
    BY <2>1, <2>2, <2>3 DEF Service!Crash, phaseBar, upBar
  <2> QED
    BY <2>4 DEF Service!Next
<1>7. CASE UNCHANGED vars
  BY <1>7, Invisible DEF vars, phaseBar, upBar, Active
<1> QED
  BY <1>1, <1>2, <1>3, <1>4, <1>5, <1>6, <1>7 DEF Next, InterpStep, Terminated

(***************************************************************************)
(* At most one answer per request, executions serial, in order and at most *)
(* once, an orderly shutdown that loses nothing: for any number of         *)
(* requests and any buffer, the bridge keeps the promise of the service.   *)
(***************************************************************************)
THEOREM BridgeImplementsService == Spec => ImplementsService
<1>1. Init => Service!Init
  BY DEF Init, Service!Init
<1> QED
  BY <1>1, StepRefines, Invariance, PTL DEF Spec, ImplementsService, Service!Spec
=============================================================================
