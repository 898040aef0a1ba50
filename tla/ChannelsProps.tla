---------------------------- MODULE ChannelsProps ----------------------------
(***************************************************************************)
(* Properties of Channels.                                                 *)
(***************************************************************************)
EXTENDS Channels

(***************************************************************************)
(* Every value send accepted is received once, in the order of the sends,  *)
(* or still waits, also after close: nothing is lost, repeated or taken    *)
(* out of order by receivers that race for the mutex and time out.         *)
(***************************************************************************)
Conserved == accepted = received \o buffer

(***************************************************************************)
(* Once a thread has seen close return, no send is accepted by anyone.     *)
(***************************************************************************)
NothingAfterClose == [][closed => accepted' = accepted]_vars

(***************************************************************************)
(* recv_timeout and try_recv of a thread that has the receiver return,     *)
(* whatever the others do; recv of such a thread returns when a value is   *)
(* there.                                                                  *)
(***************************************************************************)
ReceiveReturns ==
    \A t \in Threads :
        (receiver = t /\ (call[t] # "recv" \/ buffer # <<>>)) ~> call[t] = "none"
=============================================================================
