--------------------------- MODULE HttpBridgeProps ---------------------------
(***************************************************************************)
(* Properties of HttpBridge, the promise of RequestService among them.     *)
(***************************************************************************)
EXTENDS HttpBridge

Distinct(s) == \A i, j \in DOMAIN s : s[i] = s[j] => i = j

(***************************************************************************)
(* The channel never holds more than Buffer requests, counting the slots   *)
(* handed to senders that have not used them; no slot is lost when a       *)
(* sender is dropped by the timeout; and no sender waits in line while a   *)
(* slot is free. A slot leaked by a dropped sender, or a wake-up given to  *)
(* a sender that is gone, would show only after hours of timeouts.         *)
(***************************************************************************)
SlotsAccounted ==
    ReceiverAlive =>
        /\ permits + Cardinality(granted) + Len(queue) = Buffer
        /\ sendq # <<>> => permits = 0

(***************************************************************************)
(* Handlers run in the order requests entered the channel: what the        *)
(* channel holds is exactly what was pushed and not yet received, in       *)
(* order, and nothing is pushed twice.                                     *)
(***************************************************************************)
FirstInFirstOut ==
    /\ Distinct(admitted)
    /\ Len(executed) <= Len(admitted)
    /\ \A i \in DOMAIN executed : executed[i] = admitted[i]
    /\ interp \in {"recv", "busy", "exited"} =>
          /\ Len(admitted) = Len(executed) + Len(queue)
          /\ \A i \in DOMAIN queue : queue[i] = admitted[Len(executed) + i]

(***************************************************************************)
(* No task waits for an answer nobody will give: a task in reply_rx.await  *)
(* is queued, or being executed, or its oneshot is already resolved; a     *)
(* task in send().await is in line or holds a slot.                        *)
(***************************************************************************)
NobodyForgotten ==
    \A r \in Requests :
        /\ task[r] = "waiting" => IsIn(r, queue) \/ current = r \/ reply[r] # "empty"
        /\ task[r] = "sending" => IsIn(r, sendq) \/ r \in granted

(***************************************************************************)
(* Once listen() returns after an orderly shutdown (or a failed bind) no   *)
(* client is left without an answer and no request is left in the channel. *)
(***************************************************************************)
OrderlyExit ==
    interp = "exited" =>
        /\ server = "stopped"
        /\ queue = <<>> /\ sendq = <<>> /\ granted = {}
        /\ \A r \in Requests : ~Active(r)
        /\ executed = admitted

(***************************************************************************)
(* The bridge implements RequestService: at most one answer, serial        *)
(* execution in order and at most once, orderly shutdown loses nothing.    *)
(***************************************************************************)
Service == INSTANCE RequestService WITH
    phase <- [r \in Requests |-> IF task[r] = "idle" THEN "new"
                                 ELSE IF Active(r) THEN "open" ELSE "closed"],
    agenda <- admitted,
    ran <- executed,
    up <- interp \notin {"exited", "crashed"},
    MayCrash <- MayPanic

ImplementsService == Service!Spec
ImplementsFairService == Service!FairSpec

(***************************************************************************)
(* Under timers and polling alone, whatever NTNT handlers do (loop for     *)
(* ever, panic), the server thread stops after a shutdown signal; and if   *)
(* handlers terminate, listen() returns after it.                          *)
(***************************************************************************)
ShutdownCompletes ==
    /\ server = "draining" ~> server = "stopped"
    /\ HandlersTerminate => (server = "draining" ~> interp \in {"exited", "crashed"})

(***************************************************************************)
(* If handlers terminate, a request that entered the channel is executed   *)
(* even when its client timed out or went away meanwhile, unless the       *)
(* interpreter panics: a client that retries after 408 must expect both.   *)
(***************************************************************************)
AdmittedIsExecuted ==
    HandlersTerminate =>
        \A r \in Requests :
            IsIn(r, admitted) ~> \/ IsIn(r, executed)
                                 \/ interp \in {"panicked", "crashed"}

-----------------------------------------------------------------------------
(***************************************************************************)
(* The inductive invariant behind the safety properties: its parts name    *)
(* what each side of the bridge silently relies on.                        *)
(***************************************************************************)
\* The line of waiting senders and the slots handed out agree with the tasks.
LineInv ==
    /\ Distinct(sendq)
    /\ \A r \in Requests : IsIn(r, sendq) => task[r] = "sending" /\ r \notin granted
    /\ \A r \in granted : task[r] = "sending"

\* Slots never exceed the buffer, also when the receiver is gone.
SlotInv ==
    /\ IsFiniteSet(granted)
    /\ permits + Cardinality(granted) + Len(queue) <= Buffer
    /\ SlotsAccounted

\* Only a task that has sent, and will not send again, is in the channel's log.
AdmissionInv == \A r \in Requests : IsIn(r, admitted) => task[r] \in {"waiting", "done"}

LoopInv ==
    /\ interp = "busy" <=> current \in Requests
    /\ interp = "busy" => IsIn(current, executed)
    /\ interp \in {"exited", "panicked", "crashed"} => queue = <<>>
    /\ interp \in {"exited", "crashed"} => server = "stopped"
    /\ interp = "panicked" => MayPanic

\* The server thread is gone only when every handler task is.
ServerInv ==
    /\ server = "binding" => \A r \in Requests : task[r] = "idle"
    /\ server = "stopped" => \A r \in Requests : ~Active(r)

ReplyInv == \A r \in Requests : reply[r] = "value" => IsIn(r, executed)

IInv ==
    /\ TypeOK
    /\ LineInv
    /\ SlotInv
    /\ AdmissionInv
    /\ FirstInFirstOut
    /\ LoopInv
    /\ ServerInv
    /\ ReplyInv
    /\ NobodyForgotten
=============================================================================
