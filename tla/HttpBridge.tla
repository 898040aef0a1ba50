----------------------------- MODULE HttpBridge -----------------------------
(***************************************************************************)
(* The production HTTP server of NTNT: axum/tokio handler tasks that hand  *)
(* every dynamic request to the single interpreter thread through a        *)
(* bounded tokio mpsc channel, and wait for the answer on a oneshot        *)
(* channel of their own.                                                   *)
(*                                                                         *)
(* Modelled from src/src/stdlib/http_bridge.rs (InterpreterHandle::call),  *)
(* src/src/stdlib/http_server_async.rs (handle_request, the timeout layer, *)
(* graceful shutdown, bind failure) and the receive loop of                *)
(* run_async_http_server in src/src/interpreter.rs.                        *)
(*                                                                         *)
(* What a route lookup returns and what a handler computes are left        *)
(* nondeterministic here; HotReload and CallStack model parts of those.    *)
(***************************************************************************)
EXTENDS Naturals, Sequences, FiniteSets

CONSTANTS
    Requests,    \* the HTTP requests clients ever send
    Buffer,      \* BridgeConfig.channel_buffer (1024 in the program)
    NoRequest,   \* the interpreter loop is not executing a request
    MayPanic     \* whether NTNT code may panic the interpreter thread

ASSUME BufferAssumption == Buffer \in Nat \ {0}
ASSUME NoRequestAssumption == NoRequest \notin Requests
ASSUME MayPanicAssumption == MayPanic \in BOOLEAN

VARIABLES
    server,      \* the server thread: start_server_with_bridge
    task,        \* the handler future of each request: handle_request
    outcome,     \* what the client of each request was given
    permits,     \* free slots of the mpsc channel (tokio's semaphore)
    sendq,       \* senders waiting for a slot, in arrival order
    granted,     \* senders that were assigned a slot and have not used it
    queue,       \* the mpsc channel: HandlerRequests not yet received
    reply,       \* the oneshot channel of each request
    interp,      \* the receive loop of run_async_http_server
    current,     \* the request the loop is executing
    admitted,    \* history: requests pushed into the channel, in order
    executed     \* history: requests the loop took from the channel, in order

serverVars == <<server, task, outcome>>
channelVars == <<permits, sendq, granted, queue, reply, admitted>>
interpVars == <<interp, current, executed>>
vars == <<serverVars, channelVars, interpVars>>

ServerStates == {"binding", "serving", "draining", "stopped"}
TaskStates == {"idle", "routing", "sending", "waiting", "done"}
InterpStates == {"recv", "busy", "exited", "panicked", "crashed"}
ReplyStates == {"empty", "value", "dropped"}

\* Answers handle_request gives without asking the interpreter.
LocalOutcomes == {"static_file", "not_found", "bad_request"}
\* The handler future was dropped: by the TimeoutLayer (the client gets 408)
\* or because the client closed the connection.
DroppedOutcomes == {"timeout", "disconnected"}
Outcomes == {"none", "response", "internal_error"} \cup LocalOutcomes \cup DroppedOutcomes

IsIn(e, s) == \E i \in DOMAIN s : s[i] = e

\* s without its first e, when it has one: what cancelling a waiter leaves.
Without(s, e) ==
    IF IsIn(e, s)
    THEN LET k == CHOOSE i \in DOMAIN s : s[i] = e
         IN  [i \in 1..(Len(s) - 1) |-> IF i < k THEN s[i] ELSE s[i + 1]]
    ELSE s

Active(r) == task[r] \in {"routing", "sending", "waiting"}
ReceiverAlive == interp \in {"recv", "busy"}

TypeOK ==
    /\ server \in ServerStates
    /\ task \in [Requests -> TaskStates]
    /\ outcome \in [Requests -> Outcomes]
    /\ permits \in 0..Buffer
    /\ sendq \in Seq(Requests)
    /\ granted \in SUBSET Requests
    /\ queue \in Seq(Requests)
    /\ reply \in [Requests -> ReplyStates]
    /\ interp \in InterpStates
    /\ current \in Requests \cup {NoRequest}
    /\ admitted \in Seq(Requests)
    /\ executed \in Seq(Requests)

Init ==
    /\ server = "binding"
    /\ task = [r \in Requests |-> "idle"]
    /\ outcome = [r \in Requests |-> "none"]
    /\ permits = Buffer
    /\ sendq = <<>>
    /\ granted = {}
    /\ queue = <<>>
    /\ reply = [r \in Requests |-> "empty"]
    /\ interp = "recv"
    /\ current = NoRequest
    /\ admitted = <<>>
    /\ executed = <<>>

-----------------------------------------------------------------------------
(* The server thread.                                                      *)

Bind ==
    /\ server = "binding"
    /\ server' = "serving"
    /\ UNCHANGED <<task, outcome, channelVars, interpVars>>

\* Binding fails: start_server_with_bridge returns Err, the thread prints the
\* error and ends, and the only InterpreterHandle is dropped with it.
BindFails ==
    /\ server = "binding"
    /\ server' = "stopped"
    /\ UNCHANGED <<task, outcome, channelVars, interpVars>>

\* Ctrl+C or SIGTERM: no new request is accepted, those in flight go on.
ShutdownSignal ==
    /\ server = "serving"
    /\ server' = "draining"
    /\ UNCHANGED <<task, outcome, channelVars, interpVars>>

\* Mutant: shutdown also waits for the interpreter to be idle.
ServerStopsWithIdleInterpreter ==
    /\ server = "draining"
    /\ interp = "recv"
    /\ \A r \in Requests : ~Active(r)
    /\ server' = "stopped"
    /\ UNCHANGED <<task, outcome, channelVars, interpVars>>

\* axum's graceful shutdown returns once no request is in flight; the thread
\* ends and drops the last InterpreterHandle, which closes the channel.
ServerStops ==
    /\ server = "draining"
    /\ \A r \in Requests : ~Active(r)
    /\ server' = "stopped"
    /\ UNCHANGED <<task, outcome, channelVars, interpVars>>

-----------------------------------------------------------------------------
(* A handler task: handle_request and InterpreterHandle::call.             *)

Finish(r, o) ==
    /\ task' = [task EXCEPT ![r] = "done"]
    /\ outcome' = [outcome EXCEPT ![r] = o]

Accept(r) ==
    /\ server = "serving"
    /\ task[r] = "idle"
    /\ task' = [task EXCEPT ![r] = "routing"]
    /\ UNCHANGED <<server, outcome, channelVars, interpVars>>

\* No route matches (a static file or 404), or the body cannot be read (400).
AnswerLocally(r) ==
    /\ task[r] = "routing"
    /\ \E o \in LocalOutcomes : Finish(r, o)
    /\ UNCHANGED <<server, channelVars, interpVars>>

Push(r) ==
    /\ queue' = Append(queue, r)
    /\ admitted' = Append(admitted, r)
    /\ task' = [task EXCEPT ![r] = "waiting"]

\* tx.send(handler_request).await with a free slot.
SendNow(r) ==
    /\ task[r] = "routing"
    /\ ReceiverAlive
    /\ permits > 0
    /\ permits' = permits - 1
    /\ Push(r)
    /\ UNCHANGED <<server, outcome, sendq, granted, reply, interpVars>>

\* tx.send(handler_request).await with the channel full.
SendBlocks(r) ==
    /\ task[r] = "routing"
    /\ ReceiverAlive
    /\ permits = 0
    /\ task' = [task EXCEPT ![r] = "sending"]
    /\ sendq' = Append(sendq, r)
    /\ UNCHANGED <<server, outcome, permits, granted, queue, reply, admitted, interpVars>>

\* A sender that was assigned a slot is polled and pushes its request.
SendGranted(r) ==
    /\ r \in granted
    /\ ReceiverAlive
    /\ granted' = granted \ {r}
    /\ Push(r)
    /\ UNCHANGED <<server, outcome, permits, sendq, reply, interpVars>>

\* The receiver is gone: send fails with "Interpreter channel closed".
SendFails(r) ==
    /\ task[r] \in {"routing", "sending"}
    /\ interp = "panicked"
    /\ Finish(r, "internal_error")
    /\ sendq' = Without(sendq, r)
    /\ granted' = granted \ {r}
    /\ UNCHANGED <<server, permits, queue, reply, admitted, interpVars>>

\* Mutant: the task does not wait for the interpreter.
ReceiveReplyUnasked(r) ==
    /\ task[r] = "waiting"
    /\ reply[r] # "dropped"
    /\ Finish(r, "response")
    /\ UNCHANGED <<server, channelVars, interpVars>>

\* reply_rx.await returns the interpreter's response.
ReceiveReply(r) ==
    /\ task[r] = "waiting"
    /\ reply[r] = "value"
    /\ Finish(r, "response")
    /\ UNCHANGED <<server, channelVars, interpVars>>

\* reply_rx.await fails: the sender was dropped, "Interpreter did not respond".
ReplyLost(r) ==
    /\ task[r] = "waiting"
    /\ reply[r] = "dropped"
    /\ Finish(r, "internal_error")
    /\ UNCHANGED <<server, channelVars, interpVars>>

\* Mutant: the first sender in line is woken and the slot is free for anyone.
SlotFreedForAnyone(holders) ==
    /\ permits' = permits + 1
    /\ sendq' = IF sendq = <<>> THEN <<>> ELSE Tail(sendq)
    /\ granted' = holders

\* A freed slot goes to the first waiting sender, or back to the semaphore;
\* holders are the senders that keep the slot they were assigned.
SlotFreed(holders) ==
    IF sendq = <<>>
    THEN /\ permits' = permits + 1
         /\ granted' = holders
         /\ UNCHANGED sendq
    ELSE /\ granted' = holders \cup {Head(sendq)}
         /\ sendq' = Tail(sendq)
         /\ UNCHANGED permits

\* Mutant: dropping a queued request's task frees a slot, its request still queued.
AbandonFreesSlotTwice(r) ==
    /\ Active(r)
    /\ \E o \in DroppedOutcomes : Finish(r, o)
    /\ permits' = IF r \in granted \/ task[r] = "waiting" THEN permits + 1 ELSE permits
    /\ granted' = granted \ {r}
    /\ sendq' = Without(sendq, r)
    /\ UNCHANGED <<server, queue, reply, admitted, interpVars>>

\* Mutant: the slot assigned to a dropped sender is never given back.
AbandonKeepsSlot(r) ==
    /\ Active(r)
    /\ \E o \in DroppedOutcomes : Finish(r, o)
    /\ sendq' = Without(sendq, r)
    /\ granted' = granted \ {r}
    /\ UNCHANGED <<server, permits, queue, reply, admitted, interpVars>>

\* Mutant: dropping the task also takes its request out of the channel.
AbandonCancels(r) ==
    /\ Active(r)
    /\ \E o \in DroppedOutcomes : Finish(r, o)
    /\ sendq' = Without(sendq, r)
    /\ granted' = granted \ {r}
    /\ queue' = Without(queue, r)
    /\ UNCHANGED <<server, permits, reply, admitted, interpVars>>

\* The handler future is dropped where it stands. Waiting for a slot it leaves
\* the line; holding one it gives it back; already queued, the HandlerRequest
\* stays in the channel and will still be executed.
Abandon(r) ==
    /\ Active(r)
    /\ \E o \in DroppedOutcomes : Finish(r, o)
    /\ IF r \in granted
       THEN SlotFreed(granted \ {r})
       ELSE /\ sendq' = Without(sendq, r)
            /\ UNCHANGED <<permits, granted>>
    /\ UNCHANGED <<server, queue, reply, admitted, interpVars>>

-----------------------------------------------------------------------------
(* The receive loop of the interpreter thread.                             *)

\* Mutant: the loop takes the newest request.
ReceiveNewest ==
    /\ interp = "recv"
    /\ queue # <<>>
    /\ interp' = "busy"
    /\ current' = queue[Len(queue)]
    /\ executed' = Append(executed, queue[Len(queue)])
    /\ queue' = SubSeq(queue, 1, Len(queue) - 1)
    /\ SlotFreed(granted)
    /\ UNCHANGED <<serverVars, reply, admitted>>

Receive ==
    /\ interp = "recv"
    /\ queue # <<>>
    /\ interp' = "busy"
    /\ current' = Head(queue)
    /\ executed' = Append(executed, Head(queue))
    /\ queue' = Tail(queue)
    /\ SlotFreed(granted)
    /\ UNCHANGED <<serverVars, reply, admitted>>

\* Every branch of the loop body ends in reply_tx.send(..); its result is
\* ignored, so a reply to a task that is gone is lost.
Respond ==
    /\ interp = "busy"
    /\ reply' = [reply EXCEPT ![current] = IF task[current] = "waiting" THEN "value" ELSE @]
    /\ interp' = "recv"
    /\ current' = NoRequest
    /\ UNCHANGED <<serverVars, permits, sendq, granted, queue, admitted, executed>>

\* Mutant: the loop ends as soon as the server thread has stopped.
LoopExitsAtOnce ==
    /\ interp = "recv"
    /\ server = "stopped"
    /\ interp' = "exited"
    /\ UNCHANGED <<serverVars, channelVars, current, executed>>

\* Mutant: the main thread keeps a clone of the handle, the channel stays open.
LoopNeverExits == FALSE

\* blocking_recv returns None: every sender is dropped and the queue is empty.
LoopExits ==
    /\ interp = "recv"
    /\ queue = <<>>
    /\ server = "stopped"
    /\ interp' = "exited"
    /\ UNCHANGED <<serverVars, channelVars, current, executed>>

\* A Rust panic in the evaluator unwinds the main thread: the receiver, every
\* queued HandlerRequest and the one being executed are dropped, and with them
\* their reply_tx.
InterpreterPanics ==
    /\ MayPanic
    /\ interp = "busy"
    /\ interp' = "panicked"
    /\ current' = NoRequest
    /\ queue' = <<>>
    /\ reply' = [r \in Requests |->
                   IF r = current \/ IsIn(r, queue)
                   THEN "dropped" ELSE reply[r]]
    /\ UNCHANGED <<serverVars, permits, sendq, granted, admitted, executed>>

\* main has unwound: the process exits and every connection is reset.
ProcessExits ==
    /\ interp = "panicked"
    /\ interp' = "crashed"
    /\ server' = "stopped"
    /\ task' = [r \in Requests |-> IF Active(r) THEN "done" ELSE task[r]]
    /\ outcome' = [r \in Requests |-> IF Active(r) THEN "disconnected" ELSE outcome[r]]
    /\ sendq' = <<>>
    /\ granted' = {}
    /\ UNCHANGED <<permits, queue, reply, admitted, current, executed>>

-----------------------------------------------------------------------------

ServerStep == Bind \/ BindFails \/ ShutdownSignal \/ ServerStops

TaskStep(r) ==
    \/ Accept(r) \/ AnswerLocally(r)
    \/ SendNow(r) \/ SendBlocks(r) \/ SendGranted(r) \/ SendFails(r)
    \/ ReceiveReply(r) \/ ReplyLost(r) \/ Abandon(r)

InterpStep == Receive \/ Respond \/ LoopExits \/ InterpreterPanics \/ ProcessExits

\* listen() has returned and no client waits: the program is over.
Terminated ==
    /\ interp \in {"exited", "crashed"}
    /\ UNCHANGED vars

Next ==
    \/ ServerStep
    \/ \E r \in Requests : TaskStep(r)
    \/ InterpStep
    \/ Terminated

Spec == Init /\ [][Next]_vars

(***************************************************************************)
(* Fairness. tokio polls every ready future and the timer of TimeoutLayer  *)
(* fires, so a handler task that can go on or be dropped does; the receive *)
(* loop is one thread that blocks only on an empty channel. Nothing makes  *)
(* clients send requests, operators send signals or threads panic.         *)
(* HandlersTerminate is not part of it: properties that need it say so.    *)
(***************************************************************************)
TaskFairness == \A r \in Requests : WF_vars(Abandon(r)) /\ WF_vars(SendGranted(r))
ServerFairness == WF_vars(Bind \/ BindFails) /\ WF_vars(ServerStops)
LoopFairness == WF_vars(Receive) /\ WF_vars(LoopExits) /\ WF_vars(ProcessExits)
HandlersTerminate == WF_vars(Respond \/ InterpreterPanics)

FairSpec == Spec /\ TaskFairness /\ ServerFairness /\ LoopFairness
=============================================================================
