----------------------------- MODULE Controller -----------------------------
(***************************************************************************)
(* The Arrival lifecycle controller (internal/controller/controller.go).    *)
(*                                                                          *)
(* Two goroutines reconcile the same Arrivals: the informer's event handler *)
(* works through a queue of object snapshots, and the ticker works through  *)
(* a List of the informer's store.  Both act on the snapshot they hold and  *)
(* write with merge patches that carry no resourceVersion, so a patch lands *)
(* on whatever the API server holds by then.  All they share in the process *)
(* is the inFlight map.  A step of this module lies between two accesses to *)
(* shared state (the map, the API server, a Job).                           *)
(***************************************************************************)
EXTENDS Integers, Sequences, JobSlot

CONSTANTS
    Arrivals,      \* names of the Arrival objects
    Packs,         \* the packs a declared spec.testPacks lists
    Workers,       \* the reconciling goroutines: "handler", "ticker" or both
    RealDispatch,  \* FALSE is stub mode: cfg.Dispatcher == nil
    ForensicsOn,   \* cfg.Forensics != nil and enabled
    Cooldown,      \* retestCooldown, in clock units
    MaxClock,      \* bounds of a model: clock values, how many updates of an
    MaxLag,        \* Arrival the informer may owe when the ticker takes its
    MaxLost,       \* List, and how often a status patch is lost, an API call
    MaxErrors,     \* or a rollout fails, the process restarts, and the
    MaxRestarts,   \* watcher updates an Arrival
    MaxUpserts

ASSUME ControllerAssumption ==
    /\ Arrivals # {}
    /\ Packs # {}
    /\ Workers \subseteq {"handler", "ticker"}
    /\ {RealDispatch, ForensicsOn} \subseteq BOOLEAN
    /\ {Cooldown, MaxLag, MaxLost, MaxErrors, MaxRestarts, MaxUpserts} \subseteq Nat
    /\ MaxClock \in Nat \ {0}

VARIABLES
    clock,      \* wall-clock time
    api,        \* the Arrival objects in the API server
    watch,      \* per Arrival, updates not yet applied to the informer store
    store,      \* the informer's store
    inbox,      \* per worker and Arrival, snapshots waiting to be reconciled
    inFlight,   \* the map Arrival -> time.Time, as the age of the entry
    wk,         \* what each worker is doing
    jobs,       \* per Arrival and pack, the Kubernetes Job of that name
    budget,     \* how much of each bound is used up
    succeeded,  \* history: packs of an Arrival whose Job ever succeeded
    blamed,     \* history: something of this Arrival really went wrong
    rollouts    \* history: every value of spec.deployedAt

vars == <<clock, api, watch, store, inbox, inFlight, wk, jobs, budget,
          succeeded, blamed, rollouts>>

-----------------------------------------------------------------------------
\* "New": status.phase is absent, the empty string to the code.
Waiting   == {"New", "Pending"}
Verdicts  == {"Passed", "Failed", "Timeout"}
Phases    == Waiting \cup Verdicts \cup {"Testing", "Skipped"}
Unsettled == {"Pending", "Running"}
\* "none" in every position is the empty status.tests.
Status    == Unsettled \cup Verdicts \cup {"none"}
Tests     == [Packs -> Status]

AllOf(s) == [p \in Packs |-> s]
NoTests  == AllOf("none")
Open(ts) == {p \in Packs : ts[p] \in Unsettled}

Times == 0..MaxClock

\* spec.testPacks, spec.deployedAt, and the status the controller owns.
\* finalizedAt = 0: the field is absent.
Arrival == [declared : BOOLEAN, deployedAt : Times, phase : Phases,
            tests : Tests, finalizedAt : Times, forensics : BOOLEAN]

\* An entry of inFlight: missing, younger than PollInterval, older than that,
\* older than Timeout.
Ages == {"absent", "fresh", "due", "overdue"}

\* Where a worker is: see the action that starts from each value.
Pcs == {"idle", "gate", "dispatch", "publish", "evidence", "seed", "poll",
        "finalize", "commit", "record", "forensics"}

\* A worker's locals: the Arrival it reconciles, status.tests of its snapshot
\* as far as it updated them, packs still to dispatch or poll, the verdict
\* and finalizedAt it is about to write.
Worker == [pc : Pcs, arr : Arrivals, tests : Tests, todo : SUBSET Packs,
           phase : Phases, stamp : Times]

Idle == [pc |-> "idle", arr |-> CHOOSE a \in Arrivals : TRUE,
         tests |-> NoTests, todo |-> {}, phase |-> "New", stamp |-> 0]

Budget == [lost : 0..MaxLost, errors : 0..MaxErrors,
           restarts : 0..MaxRestarts, upserts : 0..MaxUpserts]

TypeOK ==
    /\ clock \in Times \ {0}
    /\ api \in [Arrivals -> Arrival]
    /\ watch \in [Arrivals -> Seq(Arrival)]
    /\ store \in [Arrivals -> Arrival]
    /\ inbox \in [Workers -> [Arrivals -> Seq(Arrival)]]
    /\ inFlight \in [Arrivals -> Ages]
    /\ wk \in [Workers -> Worker]
    /\ jobs \in [Arrivals -> [Packs -> Slot]]
    /\ budget \in Budget
    /\ succeeded \in [Arrivals -> SUBSET Packs]
    /\ blamed \in [Arrivals -> BOOLEAN]
    /\ rollouts \in [Arrivals -> SUBSET Times]

-----------------------------------------------------------------------------
(* Process start: the initial list of the informer is the store, and an Add  *)
(* event per Arrival waits for the handler.                                  *)

Listed(objs) == [w \in Workers |-> [a \in Arrivals |->
                    IF w = "handler" THEN <<objs[a]>> ELSE <<>>]]

Init ==
    /\ clock = 1
    /\ \E d \in [Arrivals -> BOOLEAN] :
          api = [a \in Arrivals |->
                   [declared |-> d[a], deployedAt |-> 1, phase |-> "New",
                    tests |-> NoTests, finalizedAt |-> 0, forensics |-> FALSE]]
    /\ watch = [a \in Arrivals |-> <<>>]
    /\ store = api
    /\ inbox = Listed(api)
    /\ inFlight = [a \in Arrivals |-> "absent"]
    /\ wk = [w \in Workers |-> Idle]
    /\ jobs = [a \in Arrivals |-> [p \in Packs |-> NoJob]]
    /\ budget = [lost |-> 0, errors |-> 0, restarts |-> 0, upserts |-> 0]
    /\ succeeded = [a \in Arrivals |-> {}]
    /\ blamed = [a \in Arrivals |-> FALSE]
    /\ rollouts = [a \in Arrivals |-> {1}]

\* Memory is lost, the API server and the Jobs are not.
Reboot ==
    /\ watch' = [a \in Arrivals |-> <<>>]
    /\ store' = api
    /\ inbox' = Listed(api)
    /\ inFlight' = [a \in Arrivals |-> "absent"]
    /\ wk' = [w \in Workers |-> Idle]
    /\ UNCHANGED <<clock, api, succeeded, rollouts>>

\* The write of an Arrival: a change is announced on the watch.
Write(a, obj) ==
    /\ api' = [api EXCEPT ![a] = obj]
    /\ watch' = IF obj = api[a] THEN watch
                ELSE [watch EXCEPT ![a] = Append(@, obj)]

Spend(kind) ==
    /\ kind = "lost"     => budget.lost < MaxLost
    /\ kind = "errors"   => budget.errors < MaxErrors
    /\ kind = "restarts" => budget.restarts < MaxRestarts
    /\ kind = "upserts"  => budget.upserts < MaxUpserts
    /\ budget' = [budget EXCEPT ![kind] = @ + 1]

\* patchStatus: an error is logged and forgotten, and the caller goes on as
\* if the patch had been applied.
PatchStatus(a, obj) ==
    \/ Write(a, obj) /\ UNCHANGED budget
    \/ Spend("lost") /\ UNCHANGED <<api, watch>>

Goto(w, rec) == wk' = [wk EXCEPT ![w] = rec]
At(w, pc)    == wk[w].pc = pc
Jump(w, pc)  == Goto(w, [wk[w] EXCEPT !.pc = pc])

\* reconcileOne on the next snapshot of a: the part up to the first access
\* to shared state.
Take(w, a) ==
    /\ At(w, "idle")
    /\ inbox[w][a] # <<>>
    /\ inbox' = [inbox EXCEPT ![w][a] = Tail(@)]

Snapshot(w, a) == Head(inbox[w][a])

world == <<clock, store, jobs, succeeded, rollouts>>
-----------------------------------------------------------------------------
(* reconcileOne: the phases settled without the in-flight map.               *)

\* handlePending without packs.
SkipArrival(w, a) ==
    /\ Take(w, a)
    /\ Snapshot(w, a).phase \in Waiting
    /\ ~Snapshot(w, a).declared
    /\ PatchStatus(a, [api[a] EXCEPT !.phase = "Skipped", !.finalizedAt = clock])
    /\ UNCHANGED <<world, inFlight, wk, blamed>>

\* Mutant: Skipped is final.
SkippedIsFinal(w, a) ==
    /\ Take(w, a)
    /\ Snapshot(w, a).phase = "Skipped"
    /\ Snapshot(w, a).declared
    /\ UNCHANGED <<world, api, watch, budget, inFlight, wk, blamed>>

\* Skipped, but the packs are there now.
Unskip(w, a) ==
    /\ Take(w, a)
    /\ Snapshot(w, a).phase = "Skipped"
    /\ Snapshot(w, a).declared
    /\ PatchStatus(a, [api[a] EXCEPT !.phase = "Pending"])
    /\ UNCHANGED <<world, inFlight, wk, blamed>>

\* Mutant: the cooldown is forgotten.
RetestOnAnyRollout(u) == u.finalizedAt # 0 /\ u.deployedAt > u.finalizedAt

ShouldRetestOnRollout(u) ==
    /\ u.finalizedAt # 0
    /\ u.deployedAt > u.finalizedAt + Cooldown

Retest(w, a) ==
    /\ Take(w, a)
    /\ Snapshot(w, a).phase \in Verdicts
    /\ ShouldRetestOnRollout(Snapshot(w, a))
    /\ PatchStatus(a, [api[a] EXCEPT !.phase = "Pending", !.tests = NoTests])
    /\ UNCHANGED <<world, inFlight, wk, blamed>>

LeaveAlone(w, a) ==
    /\ Take(w, a)
    /\ \/ Snapshot(w, a).phase = "Skipped" /\ ~Snapshot(w, a).declared
       \/ /\ Snapshot(w, a).phase \in Verdicts
          /\ ~ShouldRetestOnRollout(Snapshot(w, a))
    /\ UNCHANGED <<world, api, watch, budget, inFlight, wk, blamed>>
-----------------------------------------------------------------------------
(* handlePending with packs.                                                 *)

Pending(w, a) ==
    /\ Take(w, a)
    /\ Snapshot(w, a).phase \in Waiting
    /\ Snapshot(w, a).declared

\* The re-entry guard: somebody already dispatches this Arrival.
SkipReentry(w, a) ==
    /\ Pending(w, a)
    /\ inFlight[a] # "absent"
    /\ UNCHANGED <<world, api, watch, budget, inFlight, wk, blamed>>

\* Mutant: handlePending before it had the re-entry guard.
EnterUnguarded(w, a) ==
    /\ Pending(w, a)
    /\ inFlight' = [inFlight EXCEPT ![a] = "fresh"]
    /\ Goto(w, [Idle EXCEPT !.pc = "gate", !.arr = a, !.todo = Packs,
                            !.tests = Snapshot(w, a).tests])
    /\ UNCHANGED <<world, api, watch, budget, blamed>>

\* Atomic check and set under the mutex.  Stub mode goes straight to the
\* Testing patch.
EnterDispatch(w, a) ==
    /\ Pending(w, a)
    /\ inFlight[a] = "absent"
    /\ inFlight' = [inFlight EXCEPT ![a] = "fresh"]
    /\ Goto(w, [Idle EXCEPT !.pc = IF RealDispatch THEN "gate" ELSE "publish",
                            !.arr = a, !.tests = Snapshot(w, a).tests,
                            !.todo = IF RealDispatch THEN Packs ELSE {}])
    /\ UNCHANGED <<world, api, watch, budget, blamed>>

\* finalize marks every unsettled entry of the SNAPSHOT with the verdict.
Promoted(ts, ph) == [p \in Packs |-> IF ts[p] \in Unsettled THEN ph ELSE ts[p]]

StartFinalize(w, ts, ph) ==
    Goto(w, [wk[w] EXCEPT !.pc = "finalize", !.tests = Promoted(ts, ph),
                          !.todo = {}, !.phase = ph, !.stamp = clock])

\* waitForDeploymentRollout returned nil.
GatePasses(w) ==
    /\ At(w, "gate")
    /\ Jump(w, "dispatch")
    /\ UNCHANGED <<world, api, watch, budget, inbox, inFlight, blamed>>

\* Mutant: a failed gate only returns.
GateGivesUp(w) ==
    /\ At(w, "gate")
    /\ Spend("errors")
    /\ Goto(w, Idle)
    /\ blamed' = [blamed EXCEPT ![wk[w].arr] = TRUE]
    /\ UNCHANGED <<world, api, watch, inbox, inFlight>>

\* The rollout timed out or could not be read.
GateFails(w) ==
    /\ At(w, "gate")
    /\ Spend("errors")
    /\ StartFinalize(w, wk[w].tests, "Failed")
    /\ blamed' = [blamed EXCEPT ![wk[w].arr] = TRUE]
    /\ UNCHANGED <<world, api, watch, inbox, inFlight>>

SetJob(a, p, s) == jobs' = [jobs EXCEPT ![a][p] = s]

DispatchPack(w, p) ==
    /\ At(w, "dispatch")
    /\ p \in wk[w].todo
    /\ \E s \in Dispatched(jobs[wk[w].arr][p]) : SetJob(wk[w].arr, p, s)
    /\ Goto(w, [wk[w] EXCEPT !.todo = @ \ {p},
                             !.pc = IF wk[w].todo = {p} THEN "publish" ELSE @])
    /\ UNCHANGED <<clock, store, succeeded, rollouts, api, watch, budget, inbox,
                   inFlight, blamed>>

\* todo keeps the packs that have no Job name to report.
DispatchFails(w, p) ==
    /\ At(w, "dispatch")
    /\ p \in wk[w].todo
    /\ Spend("errors")
    /\ \E s \in DispatchFailed(jobs[wk[w].arr][p]) : SetJob(wk[w].arr, p, s)
    /\ Jump(w, "evidence")
    /\ blamed' = [blamed EXCEPT ![wk[w].arr] = TRUE]
    /\ UNCHANGED <<clock, store, succeeded, rollouts, api, watch, inbox, inFlight>>

\* The nil dereference in reconcileExistingJob takes the process down.
DispatchPanics(w, p) ==
    /\ At(w, "dispatch")
    /\ p \in wk[w].todo
    /\ Spend("errors")
    /\ \E s \in Panicked(jobs[wk[w].arr][p]) : SetJob(wk[w].arr, p, s)
    /\ Reboot
    /\ UNCHANGED blamed

\* The process ends in the middle of a dispatch.
DispatchInterrupted(w, p) ==
    /\ At(w, "dispatch")
    /\ p \in wk[w].todo
    /\ Spend("restarts")
    /\ \E s \in DispatchFailed(jobs[wk[w].arr][p]) : SetJob(wk[w].arr, p, s)
    /\ Reboot
    /\ UNCHANGED blamed

\* dispatchEvidence: one entry per declared pack; "Pending" is a status the
\* CRD accepts, "NotDispatched" (the mutant) is not.
EvidenceNewStatus(undispatched) ==
    [p \in Packs |-> IF p \in undispatched THEN "NotDispatched" ELSE "Running"]

DispatchEvidence(undispatched) ==
    [p \in Packs |-> IF p \in undispatched THEN "Pending" ELSE "Running"]

\* The evidence is patched in, then finalize(u, Failed) starts from the tests
\* of u, which know nothing of it.
PatchEvidence(w) ==
    /\ At(w, "evidence")
    /\ PatchStatus(wk[w].arr, [api[wk[w].arr] EXCEPT
                                 !.tests = DispatchEvidence(wk[w].todo)])
    /\ StartFinalize(w, wk[w].tests, "Failed")
    /\ UNCHANGED <<world, inbox, inFlight, blamed>>

PublishTesting(w) ==
    /\ At(w, "publish")
    /\ PatchStatus(wk[w].arr, [api[wk[w].arr] EXCEPT !.phase = "Testing",
                                                     !.tests = AllOf("Running")])
    /\ Goto(w, Idle)
    /\ UNCHANGED <<world, inbox, inFlight, blamed>>
-----------------------------------------------------------------------------
(* handleTesting.                                                            *)

Testing(w, a) ==
    /\ Take(w, a)
    /\ Snapshot(w, a).phase = "Testing"

\* No entry: the controller restarted.  The read and the write of the map are
\* two critical sections.
MissTimer(w, a) ==
    /\ Testing(w, a)
    /\ inFlight[a] = "absent"
    /\ Goto(w, [Idle EXCEPT !.pc = "seed", !.arr = a])
    /\ UNCHANGED <<world, api, watch, budget, inFlight, blamed>>

\* Mutant: a missing timer is not replayed.
SeedNothing(w) ==
    /\ At(w, "seed")
    /\ Goto(w, Idle)
    /\ UNCHANGED <<world, api, watch, budget, inbox, inFlight, blamed>>

SeedTimer(w) ==
    /\ At(w, "seed")
    /\ inFlight' = [inFlight EXCEPT ![wk[w].arr] = "fresh"]
    /\ Goto(w, Idle)
    /\ UNCHANGED <<world, api, watch, budget, inbox, blamed>>

\* time.Since(startedAt) > Timeout; in stub mode, also the end of a normal run.
EndByTimer(w, a) ==
    /\ Testing(w, a)
    /\ \/ inFlight[a] = "overdue"
       \/ inFlight[a] = "due" /\ ~RealDispatch
    /\ LET ph == IF inFlight[a] = "overdue" THEN "Timeout" ELSE "Passed"
       IN  Goto(w, [Idle EXCEPT !.pc = "finalize", !.arr = a, !.phase = ph,
                                !.stamp = clock,
                                !.tests = Promoted(Snapshot(w, a).tests, ph)])
    /\ UNCHANGED <<world, api, watch, budget, inFlight, blamed>>

\* Stub mode before PollInterval, or nothing to poll.
Wait(w, a) ==
    /\ Testing(w, a)
    /\ \/ inFlight[a] = "fresh" /\ ~RealDispatch
       \/ /\ inFlight[a] \in {"fresh", "due"} /\ RealDispatch
          /\ Snapshot(w, a).tests = NoTests
    /\ UNCHANGED <<world, api, watch, budget, inFlight, wk, blamed>>

StartPoll(w, a) ==
    /\ Testing(w, a)
    /\ inFlight[a] \in {"fresh", "due"}
    /\ RealDispatch
    /\ Snapshot(w, a).tests # NoTests
    /\ Goto(w, [Idle EXCEPT !.pc = "poll", !.arr = a,
                            !.tests = Snapshot(w, a).tests,
                            !.todo = Open(Snapshot(w, a).tests)])
    /\ UNCHANGED <<world, api, watch, budget, inFlight, blamed>>

\* Mutants: a Job that is gone counts as failed; one that is not failed counts
\* as passed.
PolledGoneFails(s, job) == IF s = "Running" /\ job.st = "passed" THEN "Passed"
                           ELSE IF s = "Running" /\ job.st \in {"failed", "none"}
                                THEN "Failed"
                           ELSE s

PolledOptimist(s, job) == IF s = "Running" /\ job.st = "failed" THEN "Failed"
                          ELSE IF s = "Running" /\ job.st # "active" THEN "Passed"
                          ELSE s

\* What GetStatus makes of a Job; an entry without jobName is not polled.
Polled(s, job) == IF s = "Running" /\ job.st = "passed" THEN "Passed"
                  ELSE IF s = "Running" /\ job.st = "failed" THEN "Failed"
                  ELSE s

PollPack(w, p) ==
    /\ At(w, "poll")
    /\ p \in wk[w].todo
    /\ \/ /\ Goto(w, [wk[w] EXCEPT !.todo = @ \ {p},
                        !.tests[p] = Polled(@, jobs[wk[w].arr][p])])
          /\ UNCHANGED budget
       \/ /\ Spend("errors")
          /\ Goto(w, [wk[w] EXCEPT !.todo = @ \ {p}])
    /\ UNCHANGED <<world, api, watch, inbox, inFlight, blamed>>

\* Some pack still runs.
PatchProgress(w) ==
    /\ At(w, "poll")
    /\ wk[w].todo = {}
    /\ Open(wk[w].tests) # {}
    /\ PatchStatus(wk[w].arr, [api[wk[w].arr] EXCEPT !.tests = wk[w].tests])
    /\ Goto(w, Idle)
    /\ UNCHANGED <<world, inbox, inFlight, blamed>>

\* Every pack settled: the timer goes first, the patch follows.
AllSettled(w) ==
    /\ At(w, "poll")
    /\ wk[w].todo = {}
    /\ Open(wk[w].tests) = {}
    /\ inFlight' = [inFlight EXCEPT ![wk[w].arr] = "absent"]
    /\ Goto(w, [wk[w] EXCEPT !.pc = "record",
                   !.phase = IF \E p \in Packs : wk[w].tests[p] = "Failed"
                             THEN "Failed" ELSE "Passed"])
    /\ UNCHANGED <<world, api, watch, budget, inbox, blamed>>

RecordVerdict(w) ==
    /\ At(w, "record")
    /\ PatchStatus(wk[w].arr, [api[wk[w].arr] EXCEPT !.phase = wk[w].phase,
                                 !.tests = wk[w].tests, !.finalizedAt = clock])
    /\ Goto(w, IF ForensicsOn
               THEN [Idle EXCEPT !.pc = "forensics", !.arr = wk[w].arr]
               ELSE Idle)
    /\ UNCHANGED <<world, inbox, inFlight, blamed>>

\* maybeDispatchForensics: no Job, no note of it.
DispatchForensics(w) ==
    /\ At(w, "forensics")
    /\ \/ PatchStatus(wk[w].arr, [api[wk[w].arr] EXCEPT !.forensics = TRUE])
       \/ Spend("errors") /\ UNCHANGED <<api, watch>>
    /\ Goto(w, Idle)
    /\ UNCHANGED <<world, inbox, inFlight, blamed>>
-----------------------------------------------------------------------------
(* finalize: forget the timer, then write the verdict.                       *)

FinalizeForgets(w) ==
    /\ At(w, "finalize")
    /\ inFlight' = [inFlight EXCEPT ![wk[w].arr] = "absent"]
    /\ Jump(w, "commit")
    /\ UNCHANGED <<world, api, watch, budget, inbox, blamed>>

FinalizeCommits(w) ==
    /\ At(w, "commit")
    /\ PatchStatus(wk[w].arr, [api[wk[w].arr] EXCEPT !.phase = wk[w].phase,
                          !.tests = wk[w].tests, !.finalizedAt = wk[w].stamp])
    /\ Goto(w, Idle)
    /\ UNCHANGED <<world, inbox, inFlight, blamed>>

Work(w) ==
    \/ \E a \in Arrivals :
          \/ SkipArrival(w, a) \/ Unskip(w, a) \/ Retest(w, a) \/ LeaveAlone(w, a)
          \/ SkipReentry(w, a) \/ EnterDispatch(w, a)
          \/ MissTimer(w, a) \/ EndByTimer(w, a) \/ Wait(w, a) \/ StartPoll(w, a)
    \/ GatePasses(w) \/ GateFails(w) \/ PatchEvidence(w) \/ PublishTesting(w)
    \/ SeedTimer(w) \/ PatchProgress(w) \/ AllSettled(w) \/ RecordVerdict(w)
    \/ DispatchForensics(w) \/ FinalizeForgets(w) \/ FinalizeCommits(w)
    \/ \E p \in Packs : \/ DispatchPack(w, p) \/ DispatchFails(w, p)
                        \/ DispatchPanics(w, p) \/ DispatchInterrupted(w, p)
                        \/ PollPack(w, p)
-----------------------------------------------------------------------------
(* The process around the workers, and its environment.                      *)

\* The informer applies an update to its store and queues it for the handler.
Deliver(a) ==
    /\ watch[a] # <<>>
    /\ watch' = [watch EXCEPT ![a] = Tail(@)]
    /\ store' = [store EXCEPT ![a] = Head(watch[a])]
    /\ inbox' = [w \in Workers |->
                   IF w = "handler" THEN [inbox[w] EXCEPT ![a] = Append(@, Head(watch[a]))]
                   ELSE inbox[w]]
    /\ UNCHANGED <<clock, api, inFlight, wk, jobs, budget, succeeded, blamed,
                   rollouts>>

\* Updates of a that the store or the handler has not seen.
Lag(a) == Len(watch[a]) + IF "handler" \in Workers THEN Len(inbox["handler"][a])
                          ELSE 0

\* reconcileAll takes its snapshot of the store when the previous one is
\* worked off.
TickerLists ==
    /\ "ticker" \in Workers
    /\ At("ticker", "idle")
    /\ \A a \in Arrivals : inbox["ticker"][a] = <<>>
    /\ \A a \in Arrivals : Lag(a) <= MaxLag
    /\ inbox' = [inbox EXCEPT !["ticker"] = [a \in Arrivals |-> <<store[a]>>]]
    /\ UNCHANGED <<clock, api, watch, store, inFlight, wk, jobs, budget,
                   succeeded, blamed, rollouts>>

\* A crash, a rolling update or a hand-over of leadership.
Restart ==
    /\ Spend("restarts")
    /\ Reboot
    /\ UNCHANGED <<jobs, blamed>>

\* Time passes: PollInterval matters to the stub only.
Age(a) ==
    /\ \/ /\ inFlight[a] = "fresh" /\ ~RealDispatch
          /\ inFlight' = [inFlight EXCEPT ![a] = "due"]
       \/ /\ inFlight[a] \in {"fresh", "due"}
          /\ inFlight' = [inFlight EXCEPT ![a] = "overdue"]
    /\ UNCHANGED <<clock, api, watch, store, inbox, wk, jobs, budget, succeeded,
                   blamed, rollouts>>

Tick ==
    /\ clock < MaxClock
    /\ clock' = clock + 1
    /\ UNCHANGED <<api, watch, store, inbox, inFlight, wk, jobs, budget,
                   succeeded, blamed, rollouts>>

\* The watcher's upsert: deployedAt is a ReplicaSet's creation time, and packs
\* that are configured by now are added, never removed.
Upsert(a) ==
    /\ Spend("upserts")
    /\ \E t \in 1..clock, d \in {api[a].declared, TRUE} :
          /\ Write(a, [api[a] EXCEPT !.deployedAt = t, !.declared = d])
          /\ rollouts' = [rollouts EXCEPT ![a] = @ \cup {t}]
    /\ UNCHANGED <<clock, store, inbox, inFlight, wk, jobs, succeeded, blamed>>

\* Kubernetes: the Pod starts, the suite ends, the Job goes away.
JobRuns(a, p) ==
    /\ jobs[a][p] = FreshJob
    /\ SetJob(a, p, [FreshJob EXCEPT !.st = "active"])
    /\ UNCHANGED <<succeeded, blamed>>

JobPasses(a, p) ==
    /\ jobs[a][p].st = "active"
    /\ SetJob(a, p, [jobs[a][p] EXCEPT !.st = "passed"])
    /\ succeeded' = [succeeded EXCEPT ![a] = @ \cup {p}]
    /\ UNCHANGED blamed

JobFails(a, p) ==
    /\ jobs[a][p].st \in {"starting", "active"}
    /\ SetJob(a, p, [jobs[a][p] EXCEPT !.st = "failed"])
    /\ blamed' = [blamed EXCEPT ![a] = TRUE]
    /\ UNCHANGED succeeded

\* ttlSecondsAfterFinished marks a finished Job for deletion ...
JobExpires(a, p) ==
    /\ jobs[a][p].st \in {"passed", "failed"}
    /\ SetJob(a, p, Deleting(jobs[a][p]))
    /\ UNCHANGED <<succeeded, blamed>>

\* ... and the garbage collector completes the deletion, or never does.
JobVanishes(a, p) ==
    /\ jobs[a][p].del
    /\ SetJob(a, p, NoJob)
    /\ UNCHANGED <<succeeded, blamed>>

Cluster(a, p) ==
    /\ \/ JobRuns(a, p) \/ JobPasses(a, p) \/ JobFails(a, p)
       \/ JobExpires(a, p) \/ JobVanishes(a, p)
    /\ UNCHANGED <<clock, api, watch, store, inbox, inFlight, wk, budget, rollouts>>

Next ==
    \/ \E w \in Workers : Work(w)
    \/ TickerLists
    \/ Restart
    \/ Tick
    \/ \E a \in Arrivals : Deliver(a) \/ Age(a) \/ Upsert(a)
    \/ \E a \in Arrivals, p \in Packs : Cluster(a, p)

Spec == Init /\ [][Next]_vars

\* The goroutines keep running, the ticker keeps ticking, the watch delivers
\* and time passes.  Nothing is assumed of Jobs, the watcher or the errors.
FairSpec ==
    /\ Spec
    /\ \A w \in Workers : WF_vars(Work(w))
    /\ WF_vars(TickerLists)
    /\ \A a \in Arrivals : WF_vars(Deliver(a)) /\ WF_vars(Age(a))
-----------------------------------------------------------------------------
(* Safety, whatever the interleaving, lag, loss and restarts.                *)

\* ControllerProof.tla proves them for all values of the constants, the last one
\* for a watcher that writes nothing.

\* A Passed Arrival has seen the Job of every one of its packs succeed: no
\* stale snapshot, late patch, re-dispatch or adopted Job makes up a pass.
\* (Stub mode passes Arrivals without running anything.)
PassedIsEarned ==
    RealDispatch => \A a \in Arrivals :
                        api[a].phase = "Passed" => succeeded[a] = Packs

\* A Failed Arrival, or a Failed entry of status.tests, goes back to a failed
\* Job, a failed rollout or a failed dispatch of this very Arrival.
FailedIsEarned ==
    \A a \in Arrivals :
        (api[a].phase = "Failed" \/ \E p \in Packs : api[a].tests[p] = "Failed")
            => blamed[a]

\* The argument for PassedIsEarned: every copy of an Arrival that is around
\* - in the API server, on the watch, in the store, in an inbox - and every
\* worker's locals speak the truth about what passed.
Earned(a, ts) == \A p \in Packs : ts[p] = "Passed" => p \in succeeded[a]

\* status.tests is empty or has an entry for every pack.
Whole(ts) == ts = NoTests \/ \A p \in Packs : ts[p] # "none"

\* A Testing object has no entry that timed out: timing out ends the phase.
Truthful(a) ==
    {o \in Arrival : /\ Earned(a, o.tests)
                     /\ Whole(o.tests)
                     /\ o.phase = "Passed" => succeeded[a] = Packs
                     /\ o.phase = "Testing" => \A p \in Packs : o.tests[p] # "Timeout"}

TruthfulWorkers ==
    {r \in Worker :
        /\ Earned(r.arr, r.tests)
        /\ Whole(r.tests)
        /\ r.pc = "poll" => \A p \in Packs : r.tests[p] \notin {"none", "Timeout"}
        /\ r.pc \in {"finalize", "commit"} => r.phase \in {"Failed", "Timeout"}
        /\ r.pc = "record" => \/ r.phase = "Failed"
                              \/ r.phase = "Passed" /\ succeeded[r.arr] = Packs}

EarnedInv ==
    RealDispatch =>
    /\ \A a \in Arrivals :
          /\ api[a] \in Truthful(a)
          /\ store[a] \in Truthful(a)
          /\ watch[a] \in Seq(Truthful(a))
          /\ \A w \in Workers : inbox[w][a] \in Seq(Truthful(a))
          /\ \A p \in Packs : jobs[a][p].st = "passed" => p \in succeeded[a]
    /\ \A w \in Workers : wk[w] \in TruthfulWorkers

Dispatching(w, a) == wk[w].arr = a /\ wk[w].pc \in {"gate", "dispatch", "publish"}

\* What the re-entry guard is for: one Arrival's Jobs are never dispatched by
\* both goroutines at once.
SingleDispatcher ==
    \A a \in Arrivals, v, w \in Workers :
        Dispatching(v, a) /\ Dispatching(w, a) => v = w

-----------------------------------------------------------------------------
(* What comments and tests say and the code does not keep: checked by the     *)
(* runs that expect a violation.                                              *)

\* "Partial evidence beats none": the entries recorded by a failed dispatch
\* are still there, settled, when the Arrival has become Failed.
EvidenceSurvives ==
    [][\A a \in Arrivals :
          api[a].tests # NoTests /\ api[a].phase \in Waiting
            /\ api'[a].phase = "Failed" => api'[a].tests # NoTests]_vars

\* "Terminal Arrival never silently regresses": no rollout, no new phase.
VerdictStands ==
    [][\A a \in Arrivals :
          api[a].phase \in Verdicts /\ rollouts[a] = {1}
            => api'[a].phase = api[a].phase]_vars

\* "for every terminal phase reached via finalize(), inFlight must not carry a
\* stale entry", or the guard refuses the next re-dispatch: an Arrival with a
\* verdict that nobody works on holds none.
NoOrphanTimer ==
    \A a \in Arrivals :
        /\ api[a].phase \in Verdicts
        /\ \A w \in Workers : wk[w].pc = "idle"
        => inFlight[a] = "absent"

\* finalize "transitions an arrival to a terminal phase, marking each test
\* terminal too": a verdict has no entry that is still Running.
VerdictHasSettledTests ==
    \A a \in Arrivals : api[a].phase \in Verdicts => Open(api[a].tests) = {}

-----------------------------------------------------------------------------
(* Liveness.                                                                 *)

\* An Arrival in Testing leaves it: Jobs that never start, vanish or cannot be
\* read, lost patches and restarts only delay its verdict.
TestingSettles ==
    \A a \in Arrivals : api[a].phase = "Testing" ~> api[a].phase # "Testing"

\* A declared Arrival that waits is decided, unless a status patch is lost:
\* failed requests and rollouts, restarts and an informer that lags behind only
\* change what the verdict is.
PendingSettles ==
    \A a \in Arrivals :
        (api[a].phase \in Waiting /\ api[a].declared)
            ~> (api[a].phase \in Verdicts \/ budget.lost > 0)

\* "once elapsed, remaining tests get Timeout and the Arrival is finalized":
\* that a lost patch makes no difference is not so.
PendingAlwaysDecided ==
    \A a \in Arrivals :
        (api[a].phase \in Waiting /\ api[a].declared) ~> api[a].phase \in Verdicts

\* Skipped is no dead end once packs are declared.
SkippedRecovers ==
    \A a \in Arrivals :
        (api[a].phase = "Skipped" /\ api[a].declared) ~> api[a].phase # "Skipped"

\* The forensics Job is dispatched "when an Arrival reaches a terminal
\* Failed/Timeout phase".
VerdictGetsForensics ==
    \A a \in Arrivals :
        api[a].phase \in {"Failed", "Timeout"} ~> api[a].forensics

-----------------------------------------------------------------------------
(* The abstract lifecycle of one Arrival's status.                           *)

Lifecycle == INSTANCE ArrivalLifecycle WITH
    phase       <- [a \in Arrivals |-> api[a].phase],
    tests       <- [a \in Arrivals |-> api[a].tests],
    finalizedAt <- [a \in Arrivals |-> api[a].finalizedAt]

ImplementsLifecycle == Lifecycle!Spec

\* w has read a and may still write its verdict or its tests.
Engaged(w, a) == wk[w].arr = a /\ wk[w].pc \notin {"idle", "seed", "forensics"}

\* A snapshot of a leads to a change of a, or to work on it.
Acts(w, a) == Take(w, a) /\ (api' # api \/ Engaged(w, a)')

\* It says of .status what the API server says, and nobody else is at it.
Alone(w, a) ==
    /\ Snapshot(w, a).phase = api[a].phase
    /\ Snapshot(w, a).tests = api[a].tests
    /\ Snapshot(w, a).finalizedAt = api[a].finalizedAt
    /\ \A v \in Workers \ {w} : ~Engaged(v, a)

\* Nothing in the code keeps a goroutine from acting out of turn: what it costs
\* is all that ImplementsLifecycle can be wrong about.
InTurn == \A w \in Workers, a \in Arrivals : Acts(w, a) => Alone(w, a)

InTurnSpec == Init /\ [][Next /\ InTurn]_vars
=============================================================================
