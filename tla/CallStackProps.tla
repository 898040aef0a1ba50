--------------------------- MODULE CallStackProps ---------------------------
(***************************************************************************)
(* Properties of CallStack. The first group holds whatever fails; the      *)
(* second is what the documentation says.                                  *)
(***************************************************************************)
EXTENDS CallStack

IsActive(f) == \E i \in DOMAIN frames : frames[i].id = f
IsPending(d) == Contains(deferred, d) \/ \E i \in DOMAIN frames : Contains(frames[i].todo, d)
HasRun(d) == \E i \in DOMAIN ran : ran[i].id = d

(***************************************************************************)
(* A deferred expression of an activation that was left, and not by an     *)
(* error, has run; none vanishes, not even those that will never run.      *)
(***************************************************************************)
LostByErrorsOnly ==
    \A d \in DOMAIN deferrer :
        /\ IsPending(d) \/ HasRun(d)
        /\ HasRun(d) \/ IsActive(deferrer[d]) \/ deferrer[d] \in abandoned

(***************************************************************************)
(* An activation evaluates deferred expressions in the reverse of the      *)
(* order they were deferred in; they are its own, or were left behind by   *)
(* an activation that an error ended. None is evaluated twice, however     *)
(* deeply those that run call functions that defer others.                 *)
(***************************************************************************)
LastInFirstOut ==
    /\ \A i, j \in DOMAIN ran : ran[i].id = ran[j].id => i = j
    /\ \A i, j \in DOMAIN ran : (i < j /\ ran[i].by = ran[j].by) => ran[j].id < ran[i].id
    /\ \A i \in DOMAIN ran :
          deferrer[ran[i].id] = ran[i].by \/ deferrer[ran[i].id] \in abandoned

(***************************************************************************)
(* The current scope is the one of the innermost activation (the top       *)
(* level's when there is none), unless an error left another one in place: *)
(* blocks, returns and deferred calls, nested at will, never shift it.     *)
(***************************************************************************)
ScopeIsInnermost ==
    \/ env = IF frames = <<>> THEN 0 ELSE Top.id
    \/ env \in abandoned

(***************************************************************************)
(* A postcondition of a function whose body called no other function sees  *)
(* the old values captured when that very activation was entered, whatever *)
(* its preconditions called.                                               *)
(***************************************************************************)
LeafSeesItsOld == (In("post") /\ Top.contract /\ ~Top.calls) => old = Top.id

-----------------------------------------------------------------------------
(***************************************************************************)
(* Every deferred expression has run when control is back at the top       *)
(* level, error or not (LANGUAGE_GUIDE.md, defer).                         *)
(***************************************************************************)
DeferAlwaysRuns == frames = <<>> => \A d \in DOMAIN deferrer : HasRun(d)
=============================================================================
