------------------------------ MODULE Dispatch ------------------------------
(***************************************************************************)
(* The dispatcher's requests behind one Job name (internal/dispatch): the   *)
(* per-test block of Dispatch, reconcileExistingJob, deleteJobAndWait and   *)
(* clearWedgedFinalizers, one action per request, against a Job controller  *)
(* and a garbage collector that go on in between.  A Job whose spec.template *)
(* has drifted from what the API server validates accepts no update at all. *)
(***************************************************************************)
EXTENDS Integers, JobSlot

CONSTANTS
    MaxPolls,   \* polls that fit into deleteBudget, and into forceClearBudget
    MaxErrors,  \* bounds of a model: failed requests,
    MaxDeaths   \* and processes that end in the middle of a call

ASSUME DispatchAssumption == MaxPolls \in Nat \ {0} /\ {MaxErrors, MaxDeaths} \subseteq Nat

VARIABLES
    job,       \* the Job of this name
    wedge,     \* what its deletion runs into
    pc,        \* the next request of the call
    existing,  \* local: the Job as reconcileExistingJob read it
    polls,     \* local: polls of the running wait
    answer,    \* how the last call ended; "none" during a call
    budget,    \* failed requests and deaths so far
    orphaned,  \* history: a Job was removed from over its running Pod
    contract   \* history: the Job as if the running call had not touched it

vars == <<job, wedge, pc, existing, polls, answer, budget, orphaned, contract>>

\* free: the garbage collector works.  stalled: its foregroundDeletion
\* finalizer stays for ever.  immutable: nor can anybody else remove it.
Wedges == {"free", "stalled", "immutable"}

Pcs == {"idle", "create", "read", "recreate", "delete", "poll", "look", "clear",
        "repoll"}

TypeOK ==
    /\ job \in Slot
    /\ wedge \in Wedges
    /\ pc \in Pcs
    /\ existing \in Slot
    /\ polls \in 0..MaxPolls
    /\ answer \in {"none", "ok", "failed", "panicked", "died"}
    /\ budget \in [errors : 0..MaxErrors, deaths : 0..MaxDeaths]
    /\ orphaned \in BOOLEAN
    /\ contract \in Slot

Init ==
    /\ job \in {s \in Slot : s.st = "none" => ~s.del}
    /\ wedge \in Wedges
    /\ pc = "idle"
    /\ existing = NoJob
    /\ polls = 0
    /\ answer = "none"
    /\ budget = [errors |-> 0, deaths |-> 0]
    /\ orphaned = FALSE
    /\ contract = job

-----------------------------------------------------------------------------
(* The call.                                                                 *)

Exists == job # NoJob

Step(from, to) == pc = from /\ pc' = to
Same           == UNCHANGED <<job, wedge, orphaned>>

\* The call ends; from here on the contract sees the Job as it is.
Answered(a) ==
    /\ pc' = "idle"
    /\ answer' = a
    /\ contract' = job'
    /\ existing' = NoJob
    /\ polls' = 0

\* A request that the API server answers with an error.
Spend == /\ budget.errors < MaxErrors
         /\ budget' = [budget EXCEPT !.errors = @ + 1]

GoOn == UNCHANGED <<answer, budget, contract>>

Creates ==
    /\ job' = FreshJob
    /\ wedge' \in Wedges
    /\ UNCHANGED orphaned

Begin ==
    /\ Step("idle", "create")
    /\ answer' = "none"
    /\ Same
    /\ UNCHANGED <<existing, polls, budget, contract>>

Create ==
    /\ pc = "create"
    /\ \/ ~Exists /\ Creates /\ Answered("ok") /\ UNCHANGED budget
       \/ Exists /\ Step("create", "read") /\ Same /\ GoOn /\ UNCHANGED <<existing, polls>>
       \/ Spend /\ Same /\ Answered("failed")

\* Mutant: any success is as good as a running suite.
AdoptsSuccess(s) == s.st \in {"active", "passed"} /\ ~s.del

\* DeletionTimestamp == nil && Active > 0.
Adopts(s) == Running(s)

\* reconcileExistingJob's Get.
Read ==
    /\ pc = "read"
    /\ Same
    /\ \/ ~Exists /\ Step("read", "recreate") /\ GoOn /\ UNCHANGED <<existing, polls>>
       \/ Exists /\ Adopts(job) /\ Answered("ok") /\ UNCHANGED budget
       \/ /\ Exists /\ ~Adopts(job)
          /\ Step("read", "delete")
          /\ existing' = job
          /\ GoOn /\ UNCHANGED polls
       \/ Spend /\ Answered("failed")

\* The second Create, after the name came free.
Recreate ==
    /\ pc = "recreate"
    /\ \/ ~Exists /\ Creates /\ Answered("ok") /\ UNCHANGED budget
       \/ Spend /\ Same /\ Answered("failed")

\* Mutant: whatever is on its way out is adopted, a failed run as well.
AdoptTerminating ==
    Answered(IF existing.del THEN "ok"
             ELSE IF existing.st = "passed" THEN "panicked" ELSE "failed")

\* deleteJobAndWait returned an error: what reconcileExistingJob makes of it.
CannotReplace ==
    Answered(IF existing.st # "passed" THEN "failed"
             ELSE IF existing.del THEN "ok" ELSE "panicked")

\* Foreground propagation; NotFound counts as done.
Delete ==
    /\ pc = "delete"
    /\ \/ /\ Step("delete", "poll")
          /\ job' = IF Exists THEN Deleting(job) ELSE job
          /\ polls' = 0
          /\ GoOn /\ UNCHANGED <<wedge, orphaned, existing>>
       \/ Spend /\ Same /\ CannotReplace

\* Mutant: the wait has no deadline.
PollForEver ==
    /\ pc = "poll"
    /\ Same
    /\ \/ ~Exists /\ Step("poll", "recreate") /\ GoOn /\ UNCHANGED <<existing, polls>>
       \/ /\ Exists
          /\ Step("poll", "poll") /\ polls' = polls
          /\ GoOn /\ UNCHANGED existing
       \/ Spend /\ CannotReplace

\* Mutant: the wait gives up instead of clearing the finalizers.
PollOnly ==
    /\ pc = "poll"
    /\ Same
    /\ \/ ~Exists /\ Step("poll", "recreate") /\ GoOn /\ UNCHANGED <<existing, polls>>
       \/ /\ Exists /\ polls < MaxPolls
          /\ Step("poll", "poll") /\ polls' = polls + 1
          /\ GoOn /\ UNCHANGED existing
       \/ polls = MaxPolls /\ CannotReplace /\ UNCHANGED budget
       \/ Spend /\ CannotReplace

\* Mutant: one poll more than the budget holds.
PollOverrun ==
    /\ pc = "poll"
    /\ Same
    /\ \/ ~Exists /\ Step("poll", "recreate") /\ GoOn /\ UNCHANGED <<existing, polls>>
       \/ /\ Exists /\ polls <= MaxPolls
          /\ Step("poll", "poll") /\ polls' = polls + 1
          /\ GoOn /\ UNCHANGED existing
       \/ polls >= MaxPolls /\ Step("poll", "look") /\ GoOn /\ UNCHANGED <<existing, polls>>
       \/ Spend /\ CannotReplace

Poll ==
    /\ pc = "poll"
    /\ Same
    /\ \/ ~Exists /\ Step("poll", "recreate") /\ GoOn /\ UNCHANGED <<existing, polls>>
       \/ /\ Exists /\ polls < MaxPolls
          /\ Step("poll", "poll") /\ polls' = polls + 1
          /\ GoOn /\ UNCHANGED existing
       \/ polls = MaxPolls /\ Step("poll", "look") /\ GoOn /\ UNCHANGED <<existing, polls>>
       \/ Spend /\ CannotReplace

\* Mutant: the finalizers go whatever still runs.
LookAway ==
    /\ pc = "look"
    /\ Same
    /\ \/ ~Exists /\ Step("look", "recreate") /\ GoOn /\ UNCHANGED <<existing, polls>>
       \/ Exists /\ job.del /\ Step("look", "clear") /\ GoOn /\ UNCHANGED <<existing, polls>>
       \/ Exists /\ ~job.del /\ CannotReplace /\ UNCHANGED budget
       \/ Spend /\ CannotReplace

\* clearWedgedFinalizers' Get: active Pods or no finalizer end it.
Look ==
    /\ pc = "look"
    /\ Same
    /\ \/ ~Exists /\ Step("look", "recreate") /\ GoOn /\ UNCHANGED <<existing, polls>>
       \/ /\ Exists /\ job.st # "active" /\ job.del
          /\ Step("look", "clear")
          /\ GoOn /\ UNCHANGED <<existing, polls>>
       \/ /\ Exists /\ (job.st = "active" \/ ~job.del)
          /\ CannotReplace /\ UNCHANGED budget
       \/ Spend /\ CannotReplace

\* The patch {"finalizers": null}: a terminating Job vanishes with its last
\* finalizer.  It is NotFound when the Job went first, and rejected for a Job
\* that accepts no update.
Clear ==
    /\ pc = "clear"
    /\ \/ /\ Exists /\ wedge # "immutable"
          /\ Step("clear", "repoll")
          /\ job' = IF job.del THEN NoJob ELSE job
          /\ orphaned' = (orphaned \/ (job.del /\ job.st = "active"))
          /\ polls' = 0
          /\ GoOn /\ UNCHANGED <<wedge, existing>>
       \/ Same /\ (~Exists \/ wedge = "immutable") /\ CannotReplace /\ UNCHANGED budget
       \/ Same /\ Spend /\ CannotReplace

\* The patch took the Job away, and only this call creates Jobs of this name:
\* forceClearBudget is never used up.
Repoll ==
    /\ pc = "repoll"
    /\ Same
    /\ \/ ~Exists /\ Step("repoll", "recreate") /\ GoOn /\ UNCHANGED <<existing, polls>>
       \/ Spend /\ CannotReplace

Call == \/ Create \/ Read \/ Recreate \/ Delete \/ Poll \/ Look \/ Clear \/ Repoll

\* The process ends: shutdown, lost leadership, crash.
Die ==
    /\ pc # "idle"
    /\ budget.deaths < MaxDeaths
    /\ budget' = [budget EXCEPT !.deaths = @ + 1]
    /\ Same
    /\ Answered("died")
-----------------------------------------------------------------------------
(* The cluster.                                                              *)

\* After the Get, a deletion that completes is part of the call's replacement.
Replacing == pc \in {"recreate", "delete", "poll", "look", "clear", "repoll"}

Becomes(s) ==
    /\ job' = s
    /\ contract' = IF ~Replacing THEN s
                   ELSE IF s = NoJob THEN contract
                   ELSE [contract EXCEPT !.st = s.st]
    /\ UNCHANGED <<wedge, pc, existing, polls, answer, budget, orphaned>>

\* A terminating Job gets no new Pod.
PodStarts  == job = FreshJob /\ Becomes([job EXCEPT !.st = "active"])
SuitePasses == job.st = "active" /\ Becomes([job EXCEPT !.st = "passed"])
SuiteFails == job.st \in {"starting", "active"} /\ Becomes([job EXCEPT !.st = "failed"])

\* ttlSecondsAfterFinished.
Expires ==
    /\ job.st \in {"passed", "failed"} /\ ~job.del
    /\ job' = Deleting(job)
    /\ contract' = Deleting(contract)
    /\ UNCHANGED <<wedge, pc, existing, polls, answer, budget, orphaned>>

\* Foreground deletion: the Pods first, then the Job.
Collected == job.del /\ wedge = "free" /\ Becomes(NoJob)

Cluster == PodStarts \/ SuitePasses \/ SuiteFails \/ Expires \/ Collected

Next == Begin \/ Call \/ Die \/ Cluster

Spec == Init /\ [][Next]_vars

\* A call that has begun goes on; nothing is assumed of the cluster.
FairSpec == Spec /\ WF_vars(Call)
-----------------------------------------------------------------------------
(* Correctness.                                                              *)

\* Every call, whatever the cluster does between its requests, has one of the
\* effects the controller's model takes in one step.
Contract == INSTANCE JobContract WITH slot <- contract

KeepsContract == Contract!Spec

\* Clearing finalizers never removes a Job from over a running Pod.
SuitesNotOrphaned == ~orphaned

\* A removable verdict of an earlier run is never taken for this run's: a
\* call that ends well with a verdict already recorded was refused the removal.
VerdictsAreFresh ==
    [][answer = "none" /\ answer' = "ok" /\ job'.st \in {"passed", "failed"}
          => wedge = "immutable" \/ budget'.errors > 0]_vars

\* A stalled finalizer is "not a reason to fail an Arrival": while no request
\* fails, a call on such a Job fails only over a Pod that still runs.
Fails == answer = "none" /\ answer' \in {"failed", "panicked"} /\ budget'.errors = 0

StallFailsNothing == [][Fails /\ wedge = "stalled" => job.st = "active"]_vars

\* A call returns, however the cluster behaves.
CallReturns == pc # "idle" ~> pc = "idle"

\* "Adopt it rather than failing the Arrival": the wedged success is adopted,
\* the process does not go down over it.
SuccessAdopted == answer # "panicked"

\* "a duplicate reconcile can no longer delete a suite out from under itself".
RunningSuiteSurvives == [][Running(job) => job' # Deleting(job)]_vars

\* "it completed while we were deciding": a deletion that completes during the
\* wait fails no call.
CollectionFailsNothing == [][Fails /\ wedge = "free" => job.st = "active"]_vars
=============================================================================
