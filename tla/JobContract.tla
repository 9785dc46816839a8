----------------------------- MODULE JobContract -----------------------------
(***************************************************************************)
(* What the controller may rely on when it dispatches a pack: the Job name  *)
(* changes by what the cluster does, and by one step per call whose effect  *)
(* JobSlot names.  Controller.tla takes this step; Dispatch.tla implements  *)
(* it with the calls to the API server.                                     *)
(***************************************************************************)
EXTENDS JobSlot

VARIABLES slot,   \* the Job of this name
          answer  \* how the last call ended

Answers == {"none", "ok", "failed", "panicked", "died"}

Init ==
    /\ slot \in {s \in Slot : s.del => s # Deleting(NoJob)}
    /\ answer = "none"

\* The Pod starts, the suite ends, the TTL expires, the deletion completes.
Lives ==
    /\ \/ slot = FreshJob /\ slot' = [FreshJob EXCEPT !.st = "active"]
       \/ slot.st = "active" /\ slot' = [slot EXCEPT !.st = "passed"]
       \/ slot.st \in {"starting", "active"} /\ slot' = [slot EXCEPT !.st = "failed"]
       \/ slot.st \in {"passed", "failed"} /\ slot' = Deleting(slot)
       \/ slot.del /\ slot' = NoJob
    /\ UNCHANGED answer

Answer ==
    /\ answer = "none"
    /\ \/ answer' = "ok"       /\ slot' \in Dispatched(slot)
       \/ answer' = "failed"   /\ slot' \in DispatchFailed(slot)
       \/ answer' = "panicked" /\ slot' \in Panicked(slot)
       \/ answer' = "died"     /\ slot' \in DispatchFailed(slot)

Call ==
    /\ answer # "none"
    /\ answer' = "none"
    /\ UNCHANGED slot

Next == Lives \/ Answer \/ Call

Spec == Init /\ [][Next]_<<slot, answer>>
=============================================================================
