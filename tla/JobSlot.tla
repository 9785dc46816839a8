------------------------------ MODULE JobSlot ------------------------------
(***************************************************************************)
(* One Kubernetes Job name, and what one call of the dispatcher's per-test *)
(* block (Create, then reconcileExistingJob on AlreadyExists) may do to    *)
(* it, taken as one step.  The name is a function of arrival and pack      *)
(* (jobNameFor), so every dispatch of the same pack of the same Arrival    *)
(* contends for one slot.  Dispatch.tla has the calls behind the step and  *)
(* is checked to keep this contract.                                       *)
(***************************************************************************)

\* none: no Job of this name.  starting: it exists, no active Pod and no
\* verdict.  active: its Pod runs.  passed, failed: its verdict is recorded.
\* del says that metadata.deletionTimestamp is set.
Slot == [st : {"none", "starting", "active", "passed", "failed"}, del : BOOLEAN]

NoJob    == [st |-> "none", del |-> FALSE]
FreshJob == [st |-> "starting", del |-> FALSE]

\* The suite is running right now: reconcileExistingJob adopts it.
Running(s) == s.st = "active" /\ ~s.del

Deleting(s) == [s EXCEPT !.del = TRUE]

(***************************************************************************)
(* Outcomes that leave a Job name to poll.  A free name is created, and    *)
(* what holds it is replaced - even a running suite, when it had no active *)
(* Pod yet as the call read it.  A running suite is adopted, and so is a   *)
(* success that was already terminating as it was read and could not be    *)
(* removed (and which may be gone by then).                                *)
(***************************************************************************)
Dispatched(s) ==
    {FreshJob} \cup (IF Running(s) THEN {s} ELSE {})
               \cup (IF s.st = "passed" /\ s.del THEN {s, NoJob} ELSE {})

(***************************************************************************)
(* Slots left behind by a call that returns an error or dies half-way: the *)
(* first request failed, the Job is terminating but does not go away, or   *)
(* it went away and was not created again.                                 *)
(***************************************************************************)
DispatchFailed(s) == {s, NoJob} \cup (IF s = NoJob THEN {} ELSE {Deleting(s)})

(***************************************************************************)
(* The log statement of the wedged-success branch dereferences the         *)
(* deletionTimestamp of the Job as it was read BEFORE the delete: for a    *)
(* succeeded Job that was not terminating yet this is a nil pointer, and   *)
(* the process panics.                                                     *)
(***************************************************************************)
Panicked(s) == IF s.st = "passed" THEN {s, Deleting(s), NoJob} ELSE {}
=============================================================================
