--------------------------- MODULE RequestService ---------------------------
(***************************************************************************)
(* What NTNT's HTTP server promises about a request, whatever threads,     *)
(* channels and timers carry it (src/src/stdlib/http_server_async.rs,      *)
(* src/src/stdlib/http_bridge.rs, run_async_http_server):                  *)
(*   - a request gets at most one answer, and while the service is fair    *)
(*     it gets one;                                                        *)
(*   - handlers run one at a time, in the order requests were accepted     *)
(*     for execution, each at most once;                                   *)
(*   - an answer said to come from a handler does: the handler ran first;  *)
(*   - a request answered without a handler never runs one, later either;  *)
(*   - an orderly shutdown leaves nobody unanswered and nothing accepted   *)
(*     for execution unexecuted; only a crash may.                         *)
(***************************************************************************)
EXTENDS Sequences, Naturals

CONSTANTS Requests, Outcomes, LocalOutcomes, MayCrash

VARIABLES
    phase,      \* "new", "open" or "closed", for each request
    outcome,    \* the answer each request got
    agenda,     \* requests accepted for execution, in order
    ran,        \* requests whose handler was started, in order
    up          \* the service is running

avars == <<phase, outcome, agenda, ran, up>>

Accepted(r) == \E i \in DOMAIN agenda : agenda[i] = r
Started(r) == \E i \in DOMAIN ran : ran[i] = r

Init ==
    /\ phase = [r \in Requests |-> "new"]
    /\ outcome = [r \in Requests |-> "none"]
    /\ agenda = <<>>
    /\ ran = <<>>
    /\ up = TRUE

Open(r) ==
    /\ up
    /\ phase[r] = "new"
    /\ phase' = [phase EXCEPT ![r] = "open"]
    /\ UNCHANGED <<outcome, agenda, ran, up>>

AcceptForExecution(r) ==
    /\ up
    /\ phase[r] = "open"
    /\ ~Accepted(r)
    /\ agenda' = Append(agenda, r)
    /\ UNCHANGED <<phase, outcome, ran, up>>

Run ==
    /\ up
    /\ Len(ran) < Len(agenda)
    /\ ran' = Append(ran, agenda[Len(ran) + 1])
    /\ UNCHANGED <<phase, outcome, agenda, up>>

Close(r, o) ==
    /\ phase[r] = "open"
    /\ o # "none"
    /\ o = "response" => Started(r)
    /\ o \in LocalOutcomes => ~Accepted(r)
    /\ phase' = [phase EXCEPT ![r] = "closed"]
    /\ outcome' = [outcome EXCEPT ![r] = o]
    /\ UNCHANGED <<agenda, ran, up>>

Stop ==
    /\ up
    /\ \A r \in Requests : phase[r] # "open"
    /\ ran = agenda
    /\ up' = FALSE
    /\ UNCHANGED <<phase, outcome, agenda, ran>>

Crash ==
    /\ up
    /\ MayCrash
    /\ up' = FALSE
    /\ phase' = [r \in Requests |-> IF phase[r] = "open" THEN "closed" ELSE phase[r]]
    /\ outcome' = [r \in Requests |-> IF phase[r] = "open" THEN "disconnected" ELSE outcome[r]]
    /\ UNCHANGED <<agenda, ran>>

Next ==
    \/ \E r \in Requests : Open(r) \/ AcceptForExecution(r)
    \/ Run
    \/ \E r \in Requests, o \in Outcomes : Close(r, o)
    \/ Stop
    \/ Crash

Spec == Init /\ [][Next]_avars

FairSpec ==
    /\ Spec
    /\ \A r \in Requests : WF_avars(\E o \in Outcomes : Close(r, o))
=============================================================================
