# The arrivals observer in TLA+

Specifications, model checking and proofs for `leartech-arrivals-observer`, the
service that notices every version deployed to a cluster (an *Arrival*), runs
the version's test packs as Kubernetes Jobs, and records a verdict in the
Arrival's `.status` for the release gate to read.

A run is `tlc -config <cfg> <module>`; a proof is `tlapm <module>`.
`PROJECT.json` lists the runs, the mutant that shows each property can fail, the
source lines behind every definition, the hazards and the theorems.

## 1. The system

| Part | Source | State it keeps | Operations |
|---|---|---|---|
| Watcher | `internal/watcher/watcher.go` | informer store and event queue of ReplicaSets | one Add handler: read labels (ReplicaSet, else Deployment), skip ReplicaSets without replicas, create or patch the Arrival's `spec` |
| Controller | `internal/controller/controller.go` | informer store and event queue of Arrivals, the `inFlight` map | `reconcileOne` from two goroutines (event handler, ticker): skip, un-skip, dispatch, poll, time out, record, retest |
| Rollout gate | `controller.go:978-1027` | none (a loop with a deadline) | poll the Deployment until it has rolled out |
| Test dispatcher | `internal/dispatch/dispatch.go` | none; the Jobs are in the cluster | create a Job per pack; adopt, or delete and replace, what already has its name; read its status |
| Forensics dispatcher | `internal/forensics/dispatch.go`, `controller.go:650-802` | none | find the previous version, create or replace the forensics Job, note its name |
| Leader election, `main` | `internal/leader`, `cmd/server` | the Lease; per replica the elector, its watchdog, what the leader's callback has started | acquire, renew, give up, release; start watcher and controller in the leader; exit when leadership ends; the liveness answer |
| Job building | `dispatch.go:371-650, 860-940`, `forensics/dispatch.go:172-320` | none | pure: ref templates, resource and environment precedence, names |
| Runner script | `dispatch.go:651-856` | where it is in the script, the counters and exit codes of its shell; the storage bucket | bash in the Job's container: clone, wait for staging, run the pack, upload, translate the outcome into the exit code |
| Config, HTTP server, metrics, logging, chart | the rest | none that anything here depends on | parsing, output |

Interactions.  Nothing calls anything else directly except controller to gate and
dispatchers; all else goes through the API server.  The watcher writes
`Arrival.spec`; the controller reads it from its informer and writes
`Arrival.status` by merge patches that carry **no resourceVersion**, so a patch
lands on whatever is there by then.  Both controller goroutines act on snapshots
and share only `inFlight`, under a mutex held for single map accesses.  Jobs have
names that are a function of Arrival and pack, so every dispatch of one pack
contends for one name with its predecessors, Kubernetes' TTL controller and its
garbage collector.  A lost status patch is logged and forgotten
(`patchStatus`, 929-942).  All memory is lost at a restart or a hand-over.  The
runner script tells the observer one bit, the exit code of its container, which
becomes the Job's status; everything else it has to say goes to a bucket prefix
that later runs of the same pack and version share.

What is hard, and hard to test: two goroutines on stale snapshots; patches that
land late; a process that ends between two requests; a deletion that takes longer
than its budget or never completes; status counters that lag behind the spec;
add events that come in any order after a re-list.  The `hazards` in
`PROJECT.json` list each at its line.

What makes each part correct:

* *lifecycle*: phase and test entries tell one story; a verdict is left only by a
  rollout later than the cooldown;
* *controller*: a pass is earned by the Jobs of this Arrival, a failure has a
  cause; what waits is decided, what is in Testing ends; the goroutines do not
  dispatch the same Arrival together; no in-flight entry outlives its verdict;
* *gate*: numbers from before an upgrade never open it; tests meet Pods of the new
  template only; a settled Deployment opens it;
* *dispatcher*: no running suite is orphaned, no removable verdict of an
  earlier run is reused, a stalled deletion fails nothing, calls return;
* *watcher*: an Arrival never names another version's ReplicaSet; what serves has
  an Arrival;
* *forensics*: every cycle gets its run, comparisons go backwards in time;
* *leadership*: two replicas never lead at once; the liveness probe restarts hung
  leaders only; after a failure somebody observes again;
* *runner*: a Job succeeds only for tests that passed, on the right ref, against a
  healthy service; uploading decides nothing and the evidence lands; a Job has a
  name, an environment and limits that are its pack's own.

## 2. Modules

| Module | Models | Notes |
|---|---|---|
| `ArrivalLifecycle` | what `.status` promises about one Arrival | abstract specification |
| `Controller` | `controller.go` except gate and dispatcher | implements `ArrivalLifecycle` as long as no goroutine acts out of turn |
| `JobSlot` | one Job name, and the effects a dispatcher call may have on it | used by the next three |
| `JobContract` | the dispatcher as the controller sees it: one step per call | abstract specification |
| `Dispatch` | the dispatcher's requests behind one name, one action per request | implements `JobContract` |
| `Rollout` | the gate, the Deployment's Pods, and the two controllers that count them | the controller's `GatePasses`/`GateFails` |
| `Watcher` | informer, handler and upsert, under upgrades, rollbacks, restarts | the controller's `Upsert` |
| `Forensics` | forensics dispatch by both goroutines | the controller's `DispatchForensics` |
| `JobSpec` | what `buildJob` and its helpers make of chart, service and pack | pure operators |
| `Runner` | the life of one test Job: the script, the pack, the bucket, the kubelet | EXTENDS `JobSpec`; its end is the controller's `JobPasses`/`JobFails` |
| `Leadership` | replicas, Lease, elector, watchdog, the leader's callback | a hand-over is the controller's and the watcher's `Restart` |
| `MC*` | small instances | |
| `*Proof` | theorems | section 5 |

How they compose.  `Controller` EXTENDS `JobSlot` and takes a whole dispatcher call
for a pack as one step whose effects are `Dispatched`, `DispatchFailed` and
`Panicked`.  That this is enough is not assumed: `Dispatch` has every request with
the cluster moving in between, and `KeepsContract` checks that a call seen from
outside is one such step (with a history variable: the Job as if the running call
had not touched it).  `ImplementsLifecycle` maps the controller's API server to the
abstract lifecycle.  Gate, watcher, forensics, the running Job and the hand-over of
leadership are nondeterministic steps of the controller, and modules of their own
where their loops and races are looked into.  The controller assumes nothing of
when a Job ends and how, so whatever `Runner` does is one of its behaviours; what
`PassedMeansPassed` adds is that the succeeded Job of `PassedIsEarned` stands for
tests that passed.

State and actions.

* `Controller`: `api` is the Arrival objects, `watch`/`store`/`inbox` the informer
  (updates on their way, the store, snapshots queued for a goroutine), `inFlight`
  the map with entries as ages (*fresh*; *due*, older than PollInterval; *overdue*,
  older than Timeout), `wk` a goroutine's program counter and locals, `jobs` the
  Jobs.  A step lies between two accesses to shared state: `EnterDispatch` is the
  guard's critical section; `MissTimer` and `SeedTimer` are two sections as in
  481-491; `AllSettled`/`RecordVerdict` and `FinalizeForgets`/`FinalizeCommits`
  keep the code's order (first the map, then the patch).  `PatchStatus` writes
  fields into the current object, or loses the patch.  `Restart`, `DispatchPanics`
  and `DispatchInterrupted` are the three ways a process ends.  The informers run
  with a resync period of zero, so updates are the handler's only later input.
* `Dispatch`: `pc` is the next request.  `wedge` says what a deletion of the
  current Job runs into: nothing, a finalizer that the garbage collector never
  removes, or an object that accepts no update at all.
* `Rollout`: `pods` is the truth: Pods of earlier templates and of the newest, how
  many of them are available, and whether deleted ones still drain.  `sets` is the
  ReplicaSets: the sizes the Deployment controller gives them (`Resize`, `ResizeNew`,
  `ShrinkOld`, under surge and unavailability limits) and the Pods they last
  reported (`ReportOld`, `ReportNew`), in which a Pod that is being deleted does not
  count.  `status` is what the Deployment controller last made of `sets` (`Counted`,
  as its `calculateStatus`: unavailable is what the sizes exceed the available Pods
  by, and not less than zero).  Each report happens whenever it likes.  `peak` is
  history: the most Pods of the newest template there were at once.
* `Watcher`: `sets` is the ReplicaSets in order of creation, `queue` the Add events
  as the objects were when reported; label reads are requests of their own.
* `Forensics`: `cycle` counts test cycles, `ran` the last cycle with a completed
  run, so that "this cycle has its run" can be said.
* `Runner`: `pc` is the script's next command that can fail or decide, in the
  script's order; `End` is `set -e` or `exit`, after which nothing more is uploaded.
  `health`, `testExit` are the shell's variables, `report` the pack's
  `results.json`, `bucket` what lies under the result prefix and which run it is
  of.  How a pack reports (`Reported`) is external: Playwright's exit code is its
  verdict, `run.sh` may exit with 0 and leave the verdict to `results.json`.
  `streak`, `suite` and `faults` are history variables: what really happened.
* `JobSpec`: names are sequences over a few characters, layers of environment are
  sequences of entries in which the last one counts, as in Kubernetes; a digest is
  any function into words of the right length, and what its comment calls
  negligible (a name that begins with its own digest) is an assumption.
* `Leadership`: time is counted from the last renewals (`age` of the Lease, `since`
  of each elector) up to where more of it makes no difference; `work` is how far
  the callback of `main.go:181-220` has come.

## 3. Runs

| Run | What it shows | States |
|---|---|---|
| `lifecycle` | `VerdictAgrees`, `VerdictOutlivesCooldown` on the abstract lifecycle | 1.9 k |
| `solo_lifecycle` | one goroutine, two packs, forensics on: implements the lifecycle | 1.3 M |
| `stub_progress` | stub mode, both goroutines, a lost patch, a restart: Testing ends, Skipped recovers | 42 k |
| `race_verdicts` | both goroutines, lagging informer, lost patch, error, restart: passes and failures are earned, one dispatcher at a time, what waits is decided, Testing ends | 423 k |
| `dispatch` | contract, no orphaned suite, fresh verdicts, stalled deletions fail nothing, calls return | 2.4 k |
| `rollout` | opens only once the new Pods have existed, and on a settled Deployment | 1.5 M |
| `watch_labelled` | Arrivals name their own version's ReplicaSets; no labelled ReplicaSet with replicas is passed over | 4.4 M |
| `forensics` | every cycle has its run, compared backwards; calls return | 136 k |
| `runner` | exit codes tell the truth, uploads decide nothing, evidence lands, right ref, healthy service, own name and limits | 725 k |
| `leadership` | one elector leads; the probe restarts hung leaders only; somebody observes again | 12 k |
| `verdict_overwritten` | **violation**: a finished Arrival is dispatched again without a rollout | |
| `wedged_panic` | **violation**: a nil dereference where a success should be adopted | |

`in_turn` (MCController, run by hand, passes with 1.1 M states) is the instance of
`InTurnImplementsLifecycle` (section 5): both goroutines, a lagging informer, a lost
patch, a failed request, a restart and an update, one pack.

Bounds.  One Arrival in most controller runs: Arrivals share nothing but the
goroutines, and the races are over one Arrival.  One pack where two goroutines
race, two where one works (partial failures need two).  `MaxClock` 3 and a
cooldown of 1 allow a verdict, a rollout after the cooldown and a retest.  One
lost patch, one failed request, one restart and one watcher update each put a
disturbance at every point of a behaviour.  `MaxLag` is how far the informer may
be behind when the ticker takes its List: 0 means caught up at that moment, after
which the snapshots still age without limit while they are worked off; 1 also
covers the cache lag the code's comment describes.  `Dispatch`: two polls tell
"still waiting" from "budget used up".  `Rollout`: one or two replicas, a surge and
an unavailable Pod, and two generations give an upgrade of a Deployment that is still starting, or a scaling of
it, with both reports behind by any amount; an upgrade inside an upgrade adds
nothing that the invariant of `RolloutProof` does not cover for all generations.
`gate_opens_early` (section 6) has four replicas, of which Kubernetes' default
quarter is one Pod of surge and one that may lack.
`Watcher`: three ReplicaSets of two versions give upgrade, rolling restart and
rollback.  `Forensics`: three verdicts over two versions give a retest with both
goroutines on it.  `Runner`: names of at most ten characters with digests of two
put every branch of `jobNameFor` within reach of names of three to five; the packs
are two that begin alike, one that is cut where dashes precede, and one that folds
to another; thresholds of zero to three, from any of the three layers; two runs
over one prefix; a pack that outgrows the smaller limit and one that does not.
`Leadership`: 4, 2 and 1 keep the order of the code's 15 s, 10 s and 2 s, with a
retry to spare; three failures are a hang or an outage, a crash of the successor
and a failed start.

Deadlock is checked except in `Dispatch`, `Watcher`, `Forensics` and `Runner`, where
the bounds on ReplicaSets, verdicts, failures, deaths or runs, or a Job that simply
stays, let the system stop, and in `in_turn`, where a behaviour ends that could only
go on out of turn.

Preconditions the runs make explicit.  `PendingSettles` excepts behaviours that lose
a patch, and is checked where the watcher is silent; `ImplementsLifecycle` is of
behaviours in which no goroutine acts out of turn (`InTurnSpec`: nobody begins on an
Arrival while the other goroutine is at it, or on a snapshot older than what the
controller last wrote of its status).  **The code does not enforce that**: it starts
handler and ticker on a cache that lags, and `verdict_overwritten` is a behaviour of
`Spec` that breaks the refinement.  What run and theorem say is that acting out of
turn is the only way to break it.  With one goroutine whose List is of an informer
that has caught up (`solo_lifecycle`) every behaviour is in turn.
`SingleDispatcher` holds as long as the watcher has not written;
`SettledIsRolledOut` with at least one replica; `OpensOnceNewPodsExist` says what the gate does establish, and not that no
old Pod serves (`gate_opens_early`); `NamesItsOwn` and `NoticedArrives` with labelled Pod templates; the forensics
run with distinct Job names; `SomebodyObserves` excepts leaders whose start failed,
`MostSpecificRef` clones that failed, `PassedMeansPassed` a `run.sh` that exits with 0
over failed tests and leaves no readable `results.json`.  Each is necessary: section
6 has the configuration in which it fails, or the exception is the script's own
contract with the packs.

Fairness.  `Controller!FairSpec`: each goroutine goes on (goroutines are scheduled,
requests end because clients time out), the ticker fires, the watch delivers, and
time passes (`Age`).  `Dispatch!FairSpec` and `Forensics!FairSpec`: a call that has
begun goes on.  `Watcher!FairSpec`: the informer reports, the handler goes on, the
Deployment controller scales up what the Deployment asks for.  `Leadership!FairSpec`:
the kubelet restarts what is down or fails its probe, elector and callback go on,
time passes.  Nothing is assumed of Jobs, Pods, garbage collector, users or
failures.

## 4. What is only model-checked

Every invariant and every action property of the passing runs is a theorem, and so
are the two refinements: `KeepsContract` for every behaviour, `ImplementsLifecycle` for
those in turn.  Some theorems have the preconditions of section 3 as hypotheses.
What stays with TLC is liveness (`TestingSettles`,
`PendingSettles`, `SkippedRecovers`, `CallReturns`, `CallsReturn`,
`SomebodyObserves`): fairness and ENABLED are out of the prover's reach.  The
counterexamples (`verdict_overwritten`, `wedged_panic`, section 6) are TLC's by
nature.

## 5. Proofs

All for every value of the constants, from the named assumptions of each module.

* `RolloutProof`: **OpensOnNewTemplate**.  The status is two reports away from the
  Pods and each may be out of date, so "complete" must be argued.  `ReportsInv`: a
  status whose observed generation is the spec's was summed after the last upgrade,
  from ReplicaSet reports that began at zero with it, so neither names more new Pods
  than there have been at once (`peak`).  **SettledOpens** needs `MinReplicas > 0`;
  **RolloutTypes**.
* `ControllerProof`, four arguments over one model.
  **TypeCorrect**, by one lemma per action.
  *Earned verdicts*: **AlwaysEarned**, **PassesAreEarned**.  `PassedIsEarned` alone is
  not inductive: a stale snapshot of yesterday may be written tomorrow.
  `EarnedInv` says that *every copy* - API server, watch, store, both inboxes, both
  goroutines' locals - claims a pass only for a pack whose Job succeeded, that
  status lists are whole or empty, and that a Testing object has no timed-out
  entry (without which 608 would pass over it).  The argument needs no bound on
  staleness, which is why no late patch can make up a pass.
  **FailuresAreEarned** is the same argument with the set of Arrivals of which
  something really went wrong (`BlameInv`): a goroutine that carries a failure,
  or is on its way to one, carries that of a guilty Arrival.
  *In turn* (`InTurnSpec`): **InTurnImplementsLifecycle**, for any goroutines and any
  lag of the informer, with lost patches, failed requests, panics, restarts and the
  watcher's writes.  `TurnInv` says of who is at an Arrival that nobody else is, and
  for each point of a reconcile what the locals know of the object they are about
  (`Knows`): in a dispatch that it still waits, in a poll that its results only
  grow, in a commit which of the three ends is being written; and of every copy
  that its rollout is one that was announced (`RolledCopies`), since a snapshot may
  be behind the watcher even in turn.  Each patch is then one step of the lifecycle
  or, lost or void, none.  The hypothesis is about behaviours, not about the
  constants: two goroutines and a stale store stay in, until one of them acts
  against what the API server says or what the other is doing.
  *Two goroutines* (`Quiet`): **OneDispatcher**, in every state before the watcher's
  first write, for any lag and any loss.  The entry of a dispatch can be
  forgotten by the other goroutine's poll while the dispatch is still at its gate,
  so "a dispatch has an entry" is not an invariant.  `Guarded` is: when the entry
  of a goroutine that dispatches is gone, the other goroutine is `Past` this
  Arrival - no copy that waits is left in its queue or in the store.  That rests on
  the order of copies (`InOrder`): API server ahead of watch, watch of store, store
  of inboxes, and without a rollout or a declaration the waiting phases are left
  for good (`AgreedCopies`).
* `ArrivalLifecycleProof`: **VerdictsAgree**, and **VerdictsOutliveCooldown**, which needs
  that nobody announces or finalizes in the future.
* `WatcherProof`: **ArrivalsNameTheirOwn**, under `Honest` (every chart labels its Pod
  templates, names of versions do not clash) - a queued event carries its
  ReplicaSet's version, and the handler's version is the event's;
  **NothingPassedOver**, from an invariant on what the handler has in hand (`HInv`);
  and **WatcherTypes**, whose bound on the queue is a pigeonhole argument: reports that
  wait are of different ReplicaSets.
* `DispatchProof`, from one inductive invariant `IInv`: types; `Progress`, what
  is true of the Job at each point of the call; `Views`, how the Job as an observer
  sees it relates to the Job as it is, and to what the call has read of it; and
  **NoSuiteOrphaned**.  **DispatchImplementsContract** is the step simulation: under
  `IInv` every step of a request is one of `JobContract`'s steps or none.
  **FreshVerdicts** and **StallsFailNothing** are action properties from it.
* `ForensicsProof`: `TypeInv` includes that among any versions one was finalized last,
  without which `findPreviousVersion`'s maximum need not be there.
  **NeverComparesForwards** adds `JobsMakeSense`.  **EveryCycleFires** assumes distinct
  names and rests on `RunOnItsWay`: as long as nothing of a cycle has failed, some
  goroutine is at a point of its call from which a Job of this cycle follows, or
  the Job is there, or has run.
* `LeadershipProof`: **OneLeader** and **ProbeSparesTheHealthy** from `LeaseInv`: who leads
  without hanging is the holder, has the Lease's own age, and is not past its
  patience; and `Patience` (retry, renew deadline and the longest stall) is less
  than the duration of the Lease, which is the assumption on the constants.
* `RunnerProof`, from one invariant `RunInv` with a part per promise: **RunnerTypes**
  (what is left to clone is the end of the Job's list of refs), **VerdictsOfTests**,
  **UploadsAreBestEffort**, **EvidenceOfThisRun** (by where in the script a run can have
  ended: what is in the bucket is of this run once the uploads are behind it),
  **HealthAsWanted**, **FirstRefThere** and **JobsAreOwn**.  The last three go through
  `JobSpec`: that `Getenv` returns the last entry of layered environments of any
  length is the least-number principle (`LeastNumber`, from the well-founded order
  of the naturals, which needs no induction over data); the refs that rendering
  leaves are a subsequence of the chart's list (`RenderInOrder`); of one
  Arrival, packs whose names differ after folding and fit their share get different
  Job names, because a folded name that is kept whole and one whose Arrival part is
  replaced by a digest differ in that part.  Assumed: a digest has `HashLen`
  characters and no dash, and no Arrival's name begins with its own digest
  (`DigestAssumption`; "collision risk negligible").

## 6. Disagreements met while modelling

Two are runs (section 3).  The configurations below each reproduce another; they
are kept beside the project and run by hand with the module named.

| Configuration (module) | Property | What the code does | What it says |
|---|---|---|---|
| `evidence_wiped` (MCController) | EvidenceSurvives | finalize overwrites the evidence patched just before from a snapshot without it (`controller.go:392,400,812`) | :390 "Partial evidence beats none" |
| `verdict_half_settled` (MCController) | VerdictHasSettledTests | a late progress patch leaves Running entries under a verdict (:604) | :804 "marking each test terminal too" |
| `double_dispatch` (MCController) | SingleDispatcher | after a retest, a late finalize of the other goroutine clears the new dispatch's entry | :306 "Atomic check+set ... return immediately" |
| `timer_leak` (MCController) | NoOrphanTimer | a goroutine with a Testing snapshot from before the verdict seeds an entry after the verdict has cleared it (:485-491), which blocks the next retest | :309 "inFlight is cleared by finalize", `invariants_test.go:219` "inFlight must not carry a stale entry" |
| `lost_patch_strands` (MCController) | PendingAlwaysDecided | one lost Testing patch: Pending for ever, the guard returns each time | `values.yaml:228` "once elapsed, remaining tests get Timeout and the Arrival is finalized" |
| `unskip_race_strands` (MCController) | PendingSettles | the Skipped-to-Pending patch lands on an Arrival already in Testing | `invariants_test.go:161` "SkippedNeverStaysStuckWithPacks" |
| `no_forensics` (MCController) | VerdictGetsForensics | finalize never dispatches forensics | :635 "on every terminal phase"; :88-89 |
| `suite_deleted` (Dispatch) | RunningSuiteSurvives | the Pod starts between Get and Delete (`dispatch.go:331-335`) | :312 "can no longer delete a suite out from under itself" |
| `late_collection` (Dispatch) | CollectionFailsNothing | the collector finishes between Get and Patch: NotFound fails the call (:279) | :262 "it completed while we were deciding" |
| `gate_opens_early` (Rollout) | OpensOnNewPodsOnly | no check of `status.replicas` against `updatedReplicas` (:1024), which kubectl has: with 4 of 4 new Pods created, 3 available, and an old one still available under a ReplicaSet already scaled to 0, the status reads updated 4, available 4, unavailable 0 | :961 "Mirrors kubectl rollout status semantics", :958 "only new-version pods serving" |
| the same | OpensOnceDrained | a Pod that is being deleted is in no count, so the gate opens while it drains and may still answer | :970-971 "a 5004ms /api/v1/example span from a draining old pod", the case the gate is for |
| the same | OpensOnTargetVersion | the gate opens on a newer version than the Arrival's | :958 "only new-version pods serving" |
| `scaled_to_zero` (Rollout) | SettledIsRolledOut | zero replicas are taken for one (`controller.go:1007`): the gate never opens | :961 "Mirrors kubectl rollout status semantics" |
| `wrong_version` (MCWatcher) | NamesItsOwn | an unlabelled old ReplicaSet is recorded under the Deployment's new version | `watcher.go:423` "never a wrong one" |
| `created_empty` (MCWatcher) | ServingVersionArrives | a ReplicaSet that is created with no replicas and scaled up afterwards is never looked at again | `watcher.go:166-168` "matches the parent Deployment's desired count" |
| `deployed_at_back` (MCWatcher) | DeployedAtAdvances | after a re-list an older ReplicaSet's creation time may come last | :196 "refreshes the timestamp" |
| `edits_lost` (MCWatcher) | EditsPropagate | a merge patch keeps what the services map no longer has | :201 "services map edits propagate" |
| `wrong_predecessor` (MCForensics) | ComparesWithPredecessor | an older version that finished later wins (`controller.go:796`) | `controller_test.go` "TRUE chronological predecessor" |
| `forensics_names_clash` (MCForensics) | NotedJobIsOwn | names cut at 63 characters collide (`forensics/dispatch.go:316`) | `controller.go:676` "so kubectl observers can find the Job" |
| `idle_leader` (Leadership) | NobodyStranded | when watcher or controller cannot be created, the callback returns (`main.go:189-193,204-207`) and the elector keeps renewing | `main.go:214-216` "hung for weeks" |
| `release_overlap` (Leadership) | SoleObserver | ReleaseOnCancel (`leader.go:88`) frees the Lease before the callback's context is cancelled: two replicas observe for a moment | `main.go:167-169` "running them concurrently across replicas produces a race" |
| `log_lands` (MCRunner) | LogLands | when clone, readiness or npm end the script, nothing is uploaded | `dispatch.go:704` "Even on failure the log lands" |
| `stale_results` (MCRunner) | ResultsAreCurrent | a run that ends before its upload leaves the results of an earlier run of the version under the prefix | `leartech-gate` reads them there |

Caveat for the controller's: how long a snapshot stays with a goroutine is unbounded in
the models, as it is in the code, where one slow dispatch (gate: minutes) holds up
every other Arrival of that goroutine.

## 7. Abstractions, and what is not modelled

Packs are dispatched and polled in any order (the code goes through a list);
Arrivals of a List are reconciled in any order.  An Arrival's packs are declared or
not, and all the same.  A Job is its state and its deletion mark.  `Dispatch` has one
caller: in the controller two may meet on one name only when `SingleDispatcher`
fails.  A version's deployedAt is a clock value; in `Watcher` it is the
ReplicaSet's number.  Decoding and encoding of env and resources are left out, as
are logs and metrics.  `Rollout` takes the ReplicaSets of all earlier templates for one,
and has no return to an earlier template and no Recreate strategy.  In `Dispatch`,
`Repoll` has no way out for a name that is taken again after the finalizers were
cleared (`dispatch.go:302`): with one caller nobody takes it.  In `JobSpec` a template
always renders; that it does not (`dispatch.go:403-405, 412-414`) is one of the ways
the controller's `DispatchFails`.  In `Forensics` a retest waits until the calls of
the last cycle are over, which the code leaves to its times (a cooldown of 5
minutes, a wait of 30 s in the call).

Not modelled: configuration (environment and JSON parsed once at start), HTTP
handlers other than the liveness answer, metrics, logging, tracing, the chart.  Of
Job building: `stagingHostBase`, `sanitizeLabel`, `ParseResources` and the forensics
Job's environment, which nothing here reads back.  A Test Job's own artifacts are
uploaded with its results.  What the goroutines of an old leader still do while the
next one starts (`release_overlap`) is not composed with `Controller`: there it is a
`Restart`, and a patch still under way counts as lost or as written just before.

## 8. Plan

Done: the modules and proofs above.  What could follow:

1. Two controllers over one API server, for the moment of `release_overlap`.
2. Two callers in `Dispatch`, to see what a double dispatch does to a Job.
3. What a rollout leaves of `OneDispatcher`: which writes of the watcher, under
   which order of the two goroutines, keep the guard working.
4. `sanitizeForDNS` on names the API server would reject.
