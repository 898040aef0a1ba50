------------------------------ MODULE Channels ------------------------------
(***************************************************************************)
(* A channel of std/concurrent: send, recv, recv_timeout, try_recv, close. *)
(*                                                                         *)
(* Modelled from src/src/stdlib/concurrent.rs. The registry of channels is *)
(* a static shared by all threads of the process; a ChannelPair is an      *)
(* unbounded std::sync::mpsc channel whose receiver sits behind a mutex,   *)
(* and a flag. send and close run under the registry lock and are one step *)
(* each; the receiving calls leave that lock, take the receiver's mutex    *)
(* and keep it while they wait. The registry never drops a sender, so the  *)
(* mpsc channel is never disconnected.                                     *)
(***************************************************************************)
EXTENDS Naturals, Sequences

CONSTANTS
    Threads,
    MaxSends,    \* how many values are offered; they are 1..MaxSends, in that order
    NoThread

ASSUME MaxSendsAssumption == MaxSends \in Nat
ASSUME NoThreadAssumption == NoThread \notin Threads

VARIABLES
    closed,      \* ChannelPair.closed
    buffer,      \* what the mpsc channel holds
    receiver,    \* who holds the receiver's mutex
    call,        \* the receiving call each thread is in
    offered,     \* history: number of values offered to send
    accepted,    \* history: values for which send returned true
    received     \* history: values the receiving calls returned

vars == <<closed, buffer, receiver, call, offered, accepted, received>>

Receives == {"recv", "recv_timeout", "try_recv"}

TypeOK ==
    /\ closed \in BOOLEAN
    /\ buffer \in Seq(1..offered) /\ accepted \in Seq(1..offered) /\ received \in Seq(1..offered)
    /\ receiver \in Threads \cup {NoThread}
    /\ call \in [Threads -> Receives \cup {"none"}]
    /\ receiver # NoThread => call[receiver] # "none"
    /\ offered \in 0..MaxSends

Init ==
    /\ closed = FALSE
    /\ buffer = <<>>
    /\ receiver = NoThread
    /\ call = [t \in Threads |-> "none"]
    /\ offered = 0
    /\ accepted = <<>>
    /\ received = <<>>

\* Mutant: the flag is not looked at.
SendUnchecked(t) ==
    /\ call[t] = "none"
    /\ offered < MaxSends
    /\ offered' = offered + 1
    /\ buffer' = Append(buffer, offered + 1)
    /\ accepted' = Append(accepted, offered + 1)
    /\ UNCHANGED <<closed, receiver, call, received>>

Send(t) ==
    /\ call[t] = "none"
    /\ offered < MaxSends
    /\ offered' = offered + 1
    /\ IF closed
       THEN UNCHANGED <<buffer, accepted>>
       ELSE /\ buffer' = Append(buffer, offered + 1)
            /\ accepted' = Append(accepted, offered + 1)
    /\ UNCHANGED <<closed, receiver, call, received>>

\* Mutant: closing discards what was not received.
CloseDiscards(t) ==
    /\ call[t] = "none"
    /\ closed' = TRUE
    /\ buffer' = <<>>
    /\ UNCHANGED <<receiver, call, offered, accepted, received>>

Close(t) ==
    /\ call[t] = "none"
    /\ closed' = TRUE
    /\ UNCHANGED <<buffer, receiver, call, offered, accepted, received>>

\* recv, recv_timeout or try_recv has cloned the Arc of the receiver.
Begin(t) ==
    /\ call[t] = "none"
    /\ \E c \in Receives : call' = [call EXCEPT ![t] = c]
    /\ UNCHANGED <<closed, buffer, receiver, offered, accepted, received>>

\* receiver.lock(), which waits for whoever holds it.
Lock(t) ==
    /\ call[t] # "none"
    /\ receiver = NoThread
    /\ receiver' = t
    /\ UNCHANGED <<closed, buffer, call, offered, accepted, received>>

Return(t) ==
    /\ call' = [call EXCEPT ![t] = "none"]
    /\ receiver' = NoThread

\* Mutant: recv goes on waiting after a value came.
TakeForTimed(t) ==
    /\ receiver = t
    /\ buffer # <<>>
    /\ call[t] # "recv"
    /\ received' = Append(received, Head(buffer))
    /\ buffer' = Tail(buffer)
    /\ Return(t)
    /\ UNCHANGED <<closed, offered, accepted>>

\* A value is there: each of the three returns it.
Take(t) ==
    /\ receiver = t
    /\ buffer # <<>>
    /\ received' = Append(received, Head(buffer))
    /\ buffer' = Tail(buffer)
    /\ Return(t)
    /\ UNCHANGED <<closed, offered, accepted>>

\* Mutant: recv_timeout is given no timeout.
OnlyTryGivesUp(t) ==
    /\ receiver = t
    /\ buffer = <<>>
    /\ call[t] = "try_recv"
    /\ Return(t)
    /\ UNCHANGED <<closed, buffer, offered, accepted, received>>

\* No value: try_recv returns None at once, recv_timeout when its time is up,
\* which may also be just before a value comes; recv stays where it is.
GiveUp(t) ==
    /\ receiver = t
    /\ buffer = <<>>
    /\ call[t] \in {"try_recv", "recv_timeout"}
    /\ Return(t)
    /\ UNCHANGED <<closed, buffer, offered, accepted, received>>

Next == \E t \in Threads : Send(t) \/ Close(t) \/ Begin(t) \/ Lock(t) \/ Take(t) \/ GiveUp(t)

Spec == Init /\ [][Next]_vars

(* The operating system schedules every thread; a mutex that keeps being   *)
(* free is taken; nothing makes a program send or close.                   *)
FairSpec == Spec /\ \A t \in Threads : WF_vars(Lock(t)) /\ WF_vars(Take(t) \/ GiveUp(t))
=============================================================================
