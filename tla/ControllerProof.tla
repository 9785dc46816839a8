--------------------------- MODULE ControllerProof ---------------------------
(***************************************************************************)
(* Type correctness of Controller, the proofs that no interleaving makes up *)
(* a pass or a failure, that .status stays within the abstract lifecycle as *)
(* long as no goroutine acts out of turn, and what the re-entry guard       *)
(* achieves for two goroutines.                                             *)
(***************************************************************************)
EXTENDS Controller, SequenceTheorems, TLAPS

-----------------------------------------------------------------------------
(* Types of the values the actions are built from.                           *)

LEMMA NoTestsType == NoTests \in Tests
  BY DEF NoTests, AllOf, Tests, Status, Verdicts, Unsettled

LEMMA IdleType == Idle \in Worker
<1>1. (CHOOSE a \in Arrivals : TRUE) \in Arrivals
  BY ControllerAssumption
<1>2. "idle" \in Pcs /\ "New" \in Phases /\ 0 \in Times
  BY ControllerAssumption DEF Pcs, Phases, Waiting, Times
<1> QED BY <1>1, <1>2, NoTestsType DEF Idle, Worker

LEMMA PromotedType ==
  ASSUME NEW ts \in Tests, NEW ph \in Verdicts
  PROVE  Promoted(ts, ph) \in Tests
  BY DEF Promoted, Tests, Status, Verdicts

LEMMA TakeType ==
  ASSUME TypeOK, NEW w \in Workers, NEW a \in Arrivals, Take(w, a)
  PROVE  /\ wk[w].pc = "idle"
         /\ Snapshot(w, a) \in Arrival
         /\ inbox' \in [Workers -> [Arrivals -> Seq(Arrival)]]
<1>1. inbox[w][a] \in Seq(Arrival) /\ inbox[w][a] # <<>>
  BY DEF TypeOK, Take
<1>2. Head(inbox[w][a]) \in Arrival /\ Tail(inbox[w][a]) \in Seq(Arrival)
  BY <1>1
<1>3. inbox' = [inbox EXCEPT ![w][a] = Tail(@)]
  BY DEF Take
<1> QED BY <1>2, <1>3 DEF TypeOK, Take, Snapshot, At

LEMMA SpendType ==
  ASSUME TypeOK, NEW kind \in {"lost", "errors", "restarts", "upserts"}, Spend(kind)
  PROVE  budget' \in Budget
  BY ControllerAssumption DEF TypeOK, Spend, Budget

LEMMA WriteType ==
  ASSUME TypeOK, NEW a \in Arrivals, NEW obj \in Arrival, Write(a, obj)
  PROVE  /\ api' \in [Arrivals -> Arrival]
         /\ watch' \in [Arrivals -> Seq(Arrival)]
<1>1. Append(watch[a], obj) \in Seq(Arrival)
  BY DEF TypeOK
<1> QED BY <1>1 DEF TypeOK, Write

LEMMA PatchType ==
  ASSUME TypeOK, NEW a \in Arrivals, NEW obj \in Arrival, PatchStatus(a, obj)
  PROVE  /\ api' \in [Arrivals -> Arrival]
         /\ watch' \in [Arrivals -> Seq(Arrival)]
         /\ budget' \in Budget
<1>1. CASE Write(a, obj) /\ UNCHANGED budget
  BY <1>1, WriteType DEF TypeOK
<1>2. CASE Spend("lost") /\ UNCHANGED <<api, watch>>
  BY <1>2, SpendType DEF TypeOK
<1> QED BY <1>1, <1>2 DEF PatchStatus

LEMMA GotoType ==
  ASSUME TypeOK, NEW w \in Workers, NEW rec \in Worker, Goto(w, rec)
  PROVE  wk' \in [Workers -> Worker]
  BY DEF TypeOK, Goto

LEMMA JobType ==
  ASSUME TypeOK, NEW a \in Arrivals, NEW p \in Packs, NEW s \in Slot, SetJob(a, p, s)
  PROVE  jobs' \in [Arrivals -> [Packs -> Slot]]
  BY DEF TypeOK, SetJob

LEMMA SlotTypes ==
  ASSUME NEW s \in Slot
  PROVE  /\ NoJob \in Slot /\ FreshJob \in Slot /\ Deleting(s) \in Slot
         /\ Dispatched(s) \subseteq Slot
         /\ DispatchFailed(s) \subseteq Slot
         /\ Panicked(s) \subseteq Slot
<1>1. NoJob \in Slot /\ FreshJob \in Slot /\ Deleting(s) \in Slot
  BY DEF NoJob, FreshJob, Deleting, Slot
<1> QED BY <1>1 DEF Dispatched, DispatchFailed, Panicked

LEMMA RebootType ==
  ASSUME TypeOK, Reboot
  PROVE  /\ watch' \in [Arrivals -> Seq(Arrival)]
         /\ store' \in [Arrivals -> Arrival]
         /\ inbox' \in [Workers -> [Arrivals -> Seq(Arrival)]]
         /\ inFlight' \in [Arrivals -> Ages]
         /\ wk' \in [Workers -> Worker]
<1>1. \A a \in Arrivals : <<api[a]>> \in Seq(Arrival) /\ <<>> \in Seq(Arrival)
  BY DEF TypeOK
<1> QED BY <1>1, IdleType DEF TypeOK, Reboot, Listed, Ages
-----------------------------------------------------------------------------
(* Type correctness.                                                         *)

LEMMA InitType == Init => TypeOK
<1> SUFFICES ASSUME Init PROVE TypeOK
  OBVIOUS
<1>1. api \in [Arrivals -> Arrival]
  <2>1. PICK d \in [Arrivals -> BOOLEAN] :
          api = [a \in Arrivals |->
                   [declared |-> d[a], deployedAt |-> 1, phase |-> "New",
                    tests |-> NoTests, finalizedAt |-> 0, forensics |-> FALSE]]
    BY DEF Init
  <2>2. "New" \in Phases /\ 0 \in Times /\ 1 \in Times
    BY ControllerAssumption DEF Phases, Waiting, Times
  <2> QED BY <2>1, <2>2, NoTestsType DEF Arrival
<1>2. store \in [Arrivals -> Arrival] /\ inbox \in [Workers -> [Arrivals -> Seq(Arrival)]]
  BY <1>1 DEF Init, Listed
<1>3. watch \in [Arrivals -> Seq(Arrival)]
  BY DEF Init
<1>4. clock \in Times \ {0} /\ rollouts \in [Arrivals -> SUBSET Times]
  BY ControllerAssumption DEF Init, Times
<1>5. inFlight \in [Arrivals -> Ages] /\ wk \in [Workers -> Worker]
  BY IdleType DEF Init, Ages
<1>6. jobs \in [Arrivals -> [Packs -> Slot]]
  BY DEF Init, NoJob, Slot
<1>7. budget \in Budget
  BY ControllerAssumption DEF Init, Budget
<1>8. succeeded \in [Arrivals -> SUBSET Packs] /\ blamed \in [Arrivals -> BOOLEAN]
  BY DEF Init
<1> QED BY <1>1, <1>2, <1>3, <1>4, <1>5, <1>6, <1>7, <1>8 DEF TypeOK

\* reconcileOne's one-patch branches keep the types.
LEMMA PatchBranchTypes ==
  ASSUME TypeOK, NEW w \in Workers, NEW a \in Arrivals,
         SkipArrival(w, a) \/ Unskip(w, a) \/ Retest(w, a)
  PROVE  TypeOK'
<1> USE DEF Phases, Waiting, Verdicts
<1>1. api[a] \in Arrival /\ clock \in Times
  BY DEF TypeOK
<1>2. PICK obj \in Arrival : PatchStatus(a, obj)
  <2>1. [api[a] EXCEPT !.phase = "Skipped", !.finalizedAt = clock] \in Arrival
    BY <1>1 DEF Arrival
  <2>2. [api[a] EXCEPT !.phase = "Pending"] \in Arrival
    BY <1>1 DEF Arrival
  <2>3. [api[a] EXCEPT !.phase = "Pending", !.tests = NoTests] \in Arrival
    BY <1>1, NoTestsType DEF Arrival
  <2> QED BY <2>1, <2>2, <2>3 DEF SkipArrival, Unskip, Retest
<1>3. Take(w, a) /\ UNCHANGED <<world, inFlight, wk, blamed>>
  BY DEF SkipArrival, Unskip, Retest
<1> QED BY <1>2, <1>3, TakeType, PatchType DEF TypeOK, world

\* The branches of reconcileOne that only take a snapshot, and those that take
\* one and go on with it.
LEMMA TakeBranchTypes ==
  ASSUME TypeOK, NEW w \in Workers, NEW a \in Arrivals,
         \/ LeaveAlone(w, a) \/ SkipReentry(w, a) \/ Wait(w, a) \/ MissTimer(w, a)
         \/ EnterDispatch(w, a) \/ EndByTimer(w, a) \/ StartPoll(w, a)
  PROVE  TypeOK'
<1>1. CASE LeaveAlone(w, a) \/ SkipReentry(w, a) \/ Wait(w, a)
  <2>1. Take(w, a) /\ UNCHANGED <<world, api, watch, budget, inFlight, wk, blamed>>
    BY <1>1 DEF LeaveAlone, SkipReentry, Wait, Pending, Testing
  <2> QED BY <2>1, TakeType DEF TypeOK, world
<1>2. CASE MissTimer(w, a)
  <2>1. [Idle EXCEPT !.pc = "seed", !.arr = a] \in Worker
    BY IdleType DEF Worker, Pcs
  <2>2. Take(w, a) /\ UNCHANGED <<world, api, watch, budget, inFlight, blamed>>
    BY <1>2 DEF MissTimer, Testing
  <2>3. wk' \in [Workers -> Worker]
    BY <1>2, <2>1, GotoType DEF MissTimer
  <2> QED BY <2>2, <2>3, TakeType DEF TypeOK, world
<1>3. CASE EnterDispatch(w, a)
  <2>1. Take(w, a) /\ UNCHANGED <<world, api, watch, budget, blamed>>
    BY <1>3 DEF EnterDispatch, Pending
  <2>2. Snapshot(w, a).tests \in Tests
    BY <2>1, TakeType DEF Arrival
  <2> DEFINE rec == [Idle EXCEPT !.pc = IF RealDispatch THEN "gate" ELSE "publish",
                                 !.arr = a, !.tests = Snapshot(w, a).tests,
                                 !.todo = IF RealDispatch THEN Packs ELSE {}]
  <2>3. rec \in Worker
    BY <2>2, IdleType DEF Worker, Pcs
  <2>4. wk' \in [Workers -> Worker]
    BY <1>3, <2>3, GotoType DEF EnterDispatch
  <2>5. inFlight' \in [Arrivals -> Ages]
    BY <1>3 DEF EnterDispatch, TypeOK, Ages
  <2> QED BY <2>1, <2>4, <2>5, TakeType DEF TypeOK, world
<1>4. CASE EndByTimer(w, a)
  <2>1. Take(w, a) /\ UNCHANGED <<world, api, watch, budget, inFlight, blamed>>
    BY <1>4 DEF EndByTimer, Testing
  <2>2. Snapshot(w, a).tests \in Tests /\ clock \in Times
    BY <2>1, TakeType DEF Arrival, TypeOK
  <2> DEFINE ph == IF inFlight[a] = "overdue" THEN "Timeout" ELSE "Passed"
             rec == [Idle EXCEPT !.pc = "finalize", !.arr = a, !.phase = ph,
                                 !.stamp = clock,
                                 !.tests = Promoted(Snapshot(w, a).tests, ph)]
  <2>3. ph \in Verdicts
    BY DEF Verdicts
  <2>4. Promoted(Snapshot(w, a).tests, ph) \in Tests
    BY <2>2, <2>3, PromotedType
  <2>5. rec \in Worker
    BY <2>2, <2>3, <2>4, IdleType DEF Worker, Pcs, Phases
  <2>6. Goto(w, rec)
    BY <1>4 DEF EndByTimer
  <2>7. wk' \in [Workers -> Worker]
    BY <2>5, <2>6, GotoType
  <2> QED BY <2>1, <2>7, TakeType DEF TypeOK, world
<1>5. CASE StartPoll(w, a)
  <2>1. Take(w, a) /\ UNCHANGED <<world, api, watch, budget, inFlight, blamed>>
    BY <1>5 DEF StartPoll, Testing
  <2>2. Snapshot(w, a).tests \in Tests
    BY <2>1, TakeType DEF Arrival
  <2>3. [Idle EXCEPT !.pc = "poll", !.arr = a, !.tests = Snapshot(w, a).tests,
                     !.todo = Open(Snapshot(w, a).tests)] \in Worker
    BY <2>2, IdleType DEF Worker, Pcs, Open
  <2>4. wk' \in [Workers -> Worker]
    BY <1>5, <2>3, GotoType DEF StartPoll
  <2> QED BY <2>1, <2>4, TakeType DEF TypeOK, world
<1> QED BY <1>1, <1>2, <1>3, <1>4, <1>5

LEMMA StartFinalizeType ==
  ASSUME TypeOK, NEW w \in Workers, NEW ts \in Tests, NEW ph \in Verdicts,
         StartFinalize(w, ts, ph)
  PROVE  wk' \in [Workers -> Worker]
<1>1. wk[w] \in Worker /\ clock \in Times
  BY DEF TypeOK
<1>2. [wk[w] EXCEPT !.pc = "finalize", !.tests = Promoted(ts, ph), !.todo = {},
                    !.phase = ph, !.stamp = clock] \in Worker
  BY <1>1, PromotedType DEF Worker, Pcs, Phases
<1> QED BY <1>2, GotoType DEF StartFinalize

LEMMA JumpType ==
  ASSUME TypeOK, NEW w \in Workers, NEW pc \in Pcs, Jump(w, pc)
  PROVE  wk' \in [Workers -> Worker]
<1>1. [wk[w] EXCEPT !.pc = pc] \in Worker
  BY DEF TypeOK, Worker
<1> QED BY <1>1, GotoType DEF Jump

\* The dispatch path.
LEMMA DispatchTypes ==
  ASSUME TypeOK, NEW w \in Workers,
         \/ GatePasses(w) \/ GateFails(w) \/ PatchEvidence(w) \/ PublishTesting(w)
         \/ \E p \in Packs : \/ DispatchPack(w, p) \/ DispatchFails(w, p)
                             \/ DispatchPanics(w, p) \/ DispatchInterrupted(w, p)
  PROVE  TypeOK'
<1>1. wk[w] \in Worker /\ wk[w].arr \in Arrivals /\ wk[w].tests \in Tests
      /\ wk[w].todo \subseteq Packs /\ api[wk[w].arr] \in Arrival
  BY DEF TypeOK, Worker
<1>2. CASE GatePasses(w)
  <2>1. wk' \in [Workers -> Worker]
    BY <1>2, JumpType DEF GatePasses, Pcs
  <2> QED BY <1>2, <2>1 DEF GatePasses, TypeOK, world
<1>3. CASE GateFails(w)
  <2>1. wk' \in [Workers -> Worker]
    BY <1>1, <1>3, StartFinalizeType DEF GateFails, Verdicts
  <2>2. budget' \in Budget
    BY <1>3, SpendType DEF GateFails
  <2>3. blamed' \in [Arrivals -> BOOLEAN]
    BY <1>3 DEF GateFails, TypeOK
  <2> QED BY <1>3, <2>1, <2>2, <2>3 DEF GateFails, TypeOK, world
<1>4. CASE PatchEvidence(w)
  <2>1. wk' \in [Workers -> Worker]
    BY <1>1, <1>4, StartFinalizeType DEF PatchEvidence, Verdicts
  <2>2. DispatchEvidence(wk[w].todo) \in Tests
    BY DEF DispatchEvidence, Tests, Status, Unsettled
  <2>3. [api[wk[w].arr] EXCEPT !.tests = DispatchEvidence(wk[w].todo)] \in Arrival
    BY <1>1, <2>2 DEF Arrival
  <2> QED BY <1>1, <1>4, <2>1, <2>3, PatchType DEF PatchEvidence, TypeOK, world
<1>5. CASE PublishTesting(w)
  <2>1. wk' \in [Workers -> Worker]
    BY <1>5, GotoType, IdleType DEF PublishTesting
  <2>2. AllOf("Running") \in Tests /\ "Testing" \in Phases
    BY DEF AllOf, Tests, Status, Unsettled, Phases
  <2>3. [api[wk[w].arr] EXCEPT !.phase = "Testing", !.tests = AllOf("Running")] \in Arrival
    BY <1>1, <2>2 DEF Arrival
  <2> QED BY <1>1, <1>5, <2>1, <2>3, PatchType DEF PublishTesting, TypeOK, world
<1>6. ASSUME NEW p \in Packs, DispatchPack(w, p) PROVE TypeOK'
  <2>1. jobs[wk[w].arr][p] \in Slot
    BY <1>1 DEF TypeOK
  <2>2. jobs' \in [Arrivals -> [Packs -> Slot]]
    BY <1>1, <1>6, <2>1, SlotTypes, JobType DEF DispatchPack
  <2>3. [wk[w] EXCEPT !.todo = @ \ {p},
                      !.pc = IF wk[w].todo = {p} THEN "publish" ELSE @] \in Worker
    BY <1>1 DEF Worker, Pcs
  <2>4. wk' \in [Workers -> Worker]
    BY <1>6, <2>3, GotoType DEF DispatchPack
  <2> QED BY <1>6, <2>2, <2>4 DEF DispatchPack, TypeOK
<1>7. ASSUME NEW p \in Packs, DispatchFails(w, p) PROVE TypeOK'
  <2>1. jobs[wk[w].arr][p] \in Slot
    BY <1>1 DEF TypeOK
  <2>2. jobs' \in [Arrivals -> [Packs -> Slot]]
    BY <1>1, <1>7, <2>1, SlotTypes, JobType DEF DispatchFails
  <2>3. wk' \in [Workers -> Worker]
    BY <1>7, JumpType DEF DispatchFails, Pcs
  <2>4. budget' \in Budget
    BY <1>7, SpendType DEF DispatchFails
  <2>5. blamed' \in [Arrivals -> BOOLEAN]
    BY <1>7 DEF DispatchFails, TypeOK
  <2> QED BY <1>7, <2>2, <2>3, <2>4, <2>5 DEF DispatchFails, TypeOK
<1>8. ASSUME NEW p \in Packs, DispatchPanics(w, p) \/ DispatchInterrupted(w, p)
      PROVE  TypeOK'
  <2>1. jobs[wk[w].arr][p] \in Slot
    BY <1>1 DEF TypeOK
  <2>2. jobs' \in [Arrivals -> [Packs -> Slot]]
    BY <1>1, <1>8, <2>1, SlotTypes, JobType DEF DispatchPanics, DispatchInterrupted
  <2>3. budget' \in Budget
    BY <1>8, SpendType DEF DispatchPanics, DispatchInterrupted
  <2>4. Reboot /\ UNCHANGED blamed
    BY <1>8 DEF DispatchPanics, DispatchInterrupted
  <2>5. UNCHANGED <<clock, api, succeeded, rollouts>>
    BY <2>4 DEF Reboot
  <2> QED BY <2>2, <2>3, <2>4, <2>5, RebootType DEF TypeOK
<1> QED BY <1>2, <1>3, <1>4, <1>5, <1>6, <1>7, <1>8

\* A recorded failure or a recorded error: the poll, its outcome and finalize.
LEMMA PollTypes ==
  ASSUME TypeOK, NEW w \in Workers,
         \/ SeedTimer(w) \/ PatchProgress(w) \/ AllSettled(w) \/ RecordVerdict(w)
         \/ DispatchForensics(w) \/ \E p \in Packs : PollPack(w, p)
  PROVE  TypeOK'
<1>1. wk[w] \in Worker /\ wk[w].arr \in Arrivals /\ wk[w].tests \in Tests
      /\ wk[w].todo \subseteq Packs /\ wk[w].phase \in Phases
      /\ api[wk[w].arr] \in Arrival /\ clock \in Times
  BY DEF TypeOK, Worker
<1>2. CASE SeedTimer(w)
  <2>1. wk' \in [Workers -> Worker]
    BY <1>2, GotoType, IdleType DEF SeedTimer
  <2>2. inFlight' \in [Arrivals -> Ages]
    BY <1>2 DEF SeedTimer, TypeOK, Ages
  <2> QED BY <1>2, <2>1, <2>2 DEF SeedTimer, TypeOK, world
<1>3. CASE PatchProgress(w)
  <2>1. wk' \in [Workers -> Worker]
    BY <1>3, GotoType, IdleType DEF PatchProgress
  <2>2. [api[wk[w].arr] EXCEPT !.tests = wk[w].tests] \in Arrival
    BY <1>1 DEF Arrival
  <2> QED BY <1>1, <1>3, <2>1, <2>2, PatchType DEF PatchProgress, TypeOK, world
<1>4. CASE AllSettled(w)
  <2> DEFINE ph == IF \E p \in Packs : wk[w].tests[p] = "Failed"
                   THEN "Failed" ELSE "Passed"
  <2>1. ph \in Phases
    BY DEF Phases, Verdicts
  <2>2. [wk[w] EXCEPT !.pc = "record", !.phase = ph] \in Worker
    BY <1>1, <2>1 DEF Worker, Pcs
  <2>3. wk' \in [Workers -> Worker]
    BY <1>4, <2>2, GotoType DEF AllSettled
  <2>4. inFlight' \in [Arrivals -> Ages]
    BY <1>4 DEF AllSettled, TypeOK, Ages
  <2> QED BY <1>4, <2>3, <2>4 DEF AllSettled, TypeOK, world
<1>5. CASE RecordVerdict(w)
  <2>1. (IF ForensicsOn THEN [Idle EXCEPT !.pc = "forensics", !.arr = wk[w].arr]
         ELSE Idle) \in Worker
    BY <1>1, IdleType DEF Worker, Pcs
  <2>2. wk' \in [Workers -> Worker]
    BY <1>5, <2>1, GotoType DEF RecordVerdict
  <2>3. [api[wk[w].arr] EXCEPT !.phase = wk[w].phase, !.tests = wk[w].tests,
                               !.finalizedAt = clock] \in Arrival
    BY <1>1 DEF Arrival
  <2> QED BY <1>1, <1>5, <2>2, <2>3, PatchType DEF RecordVerdict, TypeOK, world
<1>6. CASE DispatchForensics(w)
  <2>1. wk' \in [Workers -> Worker]
    BY <1>6, GotoType, IdleType DEF DispatchForensics
  <2>2. [api[wk[w].arr] EXCEPT !.forensics = TRUE] \in Arrival
    BY <1>1 DEF Arrival
  <2>3. CASE PatchStatus(wk[w].arr, [api[wk[w].arr] EXCEPT !.forensics = TRUE])
    BY <1>1, <1>6, <2>1, <2>2, <2>3, PatchType DEF DispatchForensics, TypeOK, world
  <2>4. CASE Spend("errors") /\ UNCHANGED <<api, watch>>
    BY <1>6, <2>1, <2>4, SpendType DEF DispatchForensics, TypeOK, world
  <2> QED BY <1>6, <2>3, <2>4 DEF DispatchForensics
<1>7. ASSUME NEW p \in Packs, PollPack(w, p) PROVE TypeOK'
  <2> DEFINE left == [wk[w] EXCEPT !.todo = @ \ {p}]
             seen == [wk[w] EXCEPT !.todo = @ \ {p},
                        !.tests[p] = Polled(@, jobs[wk[w].arr][p])]
  <2>1. Polled(wk[w].tests[p], jobs[wk[w].arr][p]) \in Status
    BY <1>1 DEF Polled, Status, Verdicts, Tests
  <2>2. left \in Worker
    BY <1>1 DEF Worker
  <2>3. seen \in Worker
    BY <1>1, <2>1 DEF Worker, Tests
  <2>4. wk' \in [Workers -> Worker]
    BY <1>7, <2>2, <2>3, GotoType DEF PollPack
  <2>5. budget' \in Budget
    BY <1>7, SpendType DEF PollPack, TypeOK
  <2> QED BY <1>7, <2>4, <2>5 DEF PollPack, TypeOK, world
<1> QED BY <1>2, <1>3, <1>4, <1>5, <1>6, <1>7

LEMMA FinalizeTypes ==
  ASSUME TypeOK, NEW w \in Workers, FinalizeForgets(w) \/ FinalizeCommits(w)
  PROVE  TypeOK'
<1>1. wk[w] \in Worker /\ wk[w].arr \in Arrivals /\ wk[w].tests \in Tests
      /\ wk[w].phase \in Phases /\ wk[w].stamp \in Times
      /\ api[wk[w].arr] \in Arrival
  BY DEF TypeOK, Worker
<1>2. CASE FinalizeForgets(w)
  <2>1. wk' \in [Workers -> Worker]
    BY <1>2, JumpType DEF FinalizeForgets, Pcs
  <2>2. inFlight' \in [Arrivals -> Ages]
    BY <1>2 DEF FinalizeForgets, TypeOK, Ages
  <2> QED BY <1>2, <2>1, <2>2 DEF FinalizeForgets, TypeOK, world
<1>3. CASE FinalizeCommits(w)
  <2>1. wk' \in [Workers -> Worker]
    BY <1>3, GotoType, IdleType DEF FinalizeCommits
  <2>2. [api[wk[w].arr] EXCEPT !.phase = wk[w].phase, !.tests = wk[w].tests,
                               !.finalizedAt = wk[w].stamp] \in Arrival
    BY <1>1 DEF Arrival
  <2> QED BY <1>1, <1>3, <2>1, <2>2, PatchType DEF FinalizeCommits, TypeOK, world
<1> QED BY <1>2, <1>3

\* The informer, the ticker, restarts, time and the watcher.
LEMMA SurroundingTypes ==
  ASSUME TypeOK,
         \/ TickerLists \/ Restart \/ Tick
         \/ \E a \in Arrivals : Deliver(a) \/ Age(a) \/ Upsert(a)
  PROVE  TypeOK'
<1>1. CASE TickerLists
  <2>1. \A a \in Arrivals : <<store[a]>> \in Seq(Arrival)
    BY DEF TypeOK
  <2>2. inbox' \in [Workers -> [Arrivals -> Seq(Arrival)]]
    BY <1>1, <2>1 DEF TickerLists, TypeOK
  <2> QED BY <1>1, <2>2 DEF TickerLists, TypeOK
<1>2. CASE Restart
  <2>1. budget' \in Budget /\ Reboot /\ UNCHANGED <<jobs, blamed>>
    BY <1>2, SpendType DEF Restart
  <2>2. UNCHANGED <<clock, api, succeeded, rollouts>>
    BY <2>1 DEF Reboot
  <2> QED BY <2>1, <2>2, RebootType DEF TypeOK
<1>3. CASE Tick
  <2>1. clock' \in Times \ {0}
    BY <1>3, ControllerAssumption DEF Tick, TypeOK, Times
  <2> QED BY <1>3, <2>1 DEF Tick, TypeOK
<1>4. ASSUME NEW a \in Arrivals, Deliver(a) PROVE TypeOK'
  <2>1. watch[a] \in Seq(Arrival) /\ watch[a] # <<>>
    BY <1>4 DEF Deliver, TypeOK
  <2>2. Head(watch[a]) \in Arrival /\ Tail(watch[a]) \in Seq(Arrival)
    BY <2>1
  <2>3. watch' \in [Arrivals -> Seq(Arrival)] /\ store' \in [Arrivals -> Arrival]
    BY <1>4, <2>2 DEF Deliver, TypeOK
  <2>4. \A w \in Workers : Append(inbox[w][a], Head(watch[a])) \in Seq(Arrival)
    BY <2>2 DEF TypeOK
  <2>5. inbox' \in [Workers -> [Arrivals -> Seq(Arrival)]]
    BY <1>4, <2>4 DEF Deliver, TypeOK
  <2> QED BY <1>4, <2>3, <2>5 DEF Deliver, TypeOK
<1>5. ASSUME NEW a \in Arrivals, Age(a) PROVE TypeOK'
  <2>1. inFlight' \in [Arrivals -> Ages]
    BY <1>5 DEF Age, TypeOK, Ages
  <2> QED BY <1>5, <2>1 DEF Age, TypeOK
<1>6. ASSUME NEW a \in Arrivals, Upsert(a) PROVE TypeOK'
  <2>1. PICK t \in 1..clock, d \in {api[a].declared, TRUE} :
          /\ Write(a, [api[a] EXCEPT !.deployedAt = t, !.declared = d])
          /\ rollouts' = [rollouts EXCEPT ![a] = @ \cup {t}]
    BY <1>6 DEF Upsert
  <2>2. t \in Times /\ d \in BOOLEAN
    <3>1. api[a].declared \in BOOLEAN
      BY DEF TypeOK, Arrival
    <3>2. MaxClock \in Nat /\ clock \in 0..MaxClock
      BY ControllerAssumption DEF TypeOK, Times
    <3>3. t \in 0..MaxClock
      BY <3>2
    <3> QED BY <3>1, <3>3 DEF Times
  <2>3. [api[a] EXCEPT !.deployedAt = t, !.declared = d] \in Arrival
    <3>1. api[a] \in Arrival
      BY DEF TypeOK
    <3> QED BY <2>2, <3>1 DEF Arrival
  <2>4. budget' \in Budget
    BY <1>6, SpendType DEF Upsert
  <2>5. rollouts' \in [Arrivals -> SUBSET Times]
    BY <2>1, <2>2 DEF TypeOK
  <2> QED BY <1>6, <2>1, <2>3, <2>4, <2>5, WriteType DEF Upsert, TypeOK
<1> QED BY <1>1, <1>2, <1>3, <1>4, <1>5, <1>6

LEMMA ClusterTypes ==
  ASSUME TypeOK, NEW a \in Arrivals, NEW p \in Packs, Cluster(a, p)
  PROVE  TypeOK'
<1>1. jobs[a][p] \in Slot /\ NoJob \in Slot
  BY SlotTypes DEF TypeOK
<1>2. PICK s \in Slot : SetJob(a, p, s)
  <2>1. [FreshJob EXCEPT !.st = "active"] \in Slot
    BY DEF FreshJob, Slot
  <2>2. [jobs[a][p] EXCEPT !.st = "passed"] \in Slot
        /\ [jobs[a][p] EXCEPT !.st = "failed"] \in Slot
    BY <1>1 DEF Slot
  <2>3. Deleting(jobs[a][p]) \in Slot
    BY <1>1, SlotTypes
  <2> QED BY <1>1, <2>1, <2>2, <2>3
          DEF Cluster, JobRuns, JobPasses, JobFails, JobExpires, JobVanishes
<1>3. succeeded' \in [Arrivals -> SUBSET Packs]
  <2>1. CASE JobPasses(a, p)
    BY <2>1 DEF JobPasses, TypeOK
  <2>2. CASE UNCHANGED succeeded
    BY <2>2 DEF TypeOK
  <2> QED BY <2>1, <2>2 DEF Cluster, JobRuns, JobFails, JobExpires, JobVanishes
<1>5. blamed' \in [Arrivals -> BOOLEAN]
  <2>1. CASE JobFails(a, p)
    BY <2>1 DEF JobFails, TypeOK
  <2>2. CASE UNCHANGED blamed
    BY <2>2 DEF TypeOK
  <2> QED BY <2>1, <2>2 DEF Cluster, JobRuns, JobPasses, JobExpires, JobVanishes
<1>4. jobs' \in [Arrivals -> [Packs -> Slot]]
  BY <1>2, JobType
<1> QED BY <1>3, <1>4, <1>5 DEF Cluster, TypeOK

LEMMA NextTypes == TypeOK /\ [Next]_vars => TypeOK'
<1> SUFFICES ASSUME TypeOK, [Next]_vars PROVE TypeOK'
  OBVIOUS
<1>1. ASSUME NEW w \in Workers, Work(w) PROVE TypeOK'
  BY <1>1, PatchBranchTypes, TakeBranchTypes, DispatchTypes, PollTypes,
     FinalizeTypes DEF Work
<1>2. CASE UNCHANGED vars
  BY <1>2 DEF vars, TypeOK
<1> QED BY <1>1, <1>2, SurroundingTypes, ClusterTypes DEF Next

\* Every variable keeps its type: in particular no action writes a phase or a
\* test status outside the CRD's enumeration, which the API server would reject
\* as a whole patch.
THEOREM TypeCorrect == Spec => []TypeOK
  BY InitType, NextTypes, PTL DEF Spec

-----------------------------------------------------------------------------
(***************************************************************************)
(* No interleaving makes up a pass: EarnedInv is inductive relative to the  *)
(* types, and implies PassedIsEarned.  The argument is one of provenance.   *)
(* Nobody writes "Passed" but a poll that has just read a succeeded Job; a  *)
(* copy of an Arrival, however stale, was once in the API server; and the   *)
(* packs that ever succeeded only grow.  After it, the same for failures.   *)
(***************************************************************************)

-----------------------------------------------------------------------------
(* What the steps are built from keeps the truth.                            *)

LEMMA Steady ==
  ASSUME UNCHANGED succeeded
  PROVE  /\ \A a \in Arrivals : Truthful(a)' = Truthful(a)
         /\ TruthfulWorkers' = TruthfulWorkers
  BY DEF Truthful, TruthfulWorkers, Earned

LEMMA EarnedIdle == Idle \in TruthfulWorkers
<1>1. Idle.pc = "idle" /\ Idle.tests = NoTests
  BY DEF Idle
<1>2. \A p \in Packs : NoTests[p] = "none"
  BY DEF NoTests, AllOf
<1> QED BY <1>1, <1>2, IdleType DEF TruthfulWorkers, Earned, Whole

LEMMA EarnedPromoted ==
  ASSUME NEW a \in Arrivals, NEW ts \in Tests, Earned(a, ts), Whole(ts),
         NEW ph \in {"Failed", "Timeout"}
  PROVE  Earned(a, Promoted(ts, ph)) /\ Whole(Promoted(ts, ph))
<1>1. Earned(a, Promoted(ts, ph))
  BY DEF Earned, Promoted
<1>2. CASE ts = NoTests
  <2>1. Promoted(ts, ph) = NoTests
    BY <1>2 DEF Promoted, NoTests, AllOf, Unsettled
  <2> QED BY <1>1, <2>1 DEF Whole
<1>3. CASE \A p \in Packs : ts[p] # "none"
  BY <1>1, <1>3 DEF Promoted, Whole
<1> QED BY <1>2, <1>3 DEF Whole

LEMMA EarnedTake ==
  ASSUME RealDispatch, TypeOK, EarnedInv, UNCHANGED succeeded,
         NEW w \in Workers, NEW a \in Arrivals, Take(w, a)
  PROVE  /\ Snapshot(w, a) \in Truthful(a)
         /\ \A b \in Arrivals, v \in Workers : inbox'[v][b] \in Seq(Truthful(b))'
<1>1. inbox[w][a] \in Seq(Truthful(a)) /\ inbox[w][a] # <<>>
  BY DEF EarnedInv, Take
<1>2. Head(inbox[w][a]) \in Truthful(a) /\ Tail(inbox[w][a]) \in Seq(Truthful(a))
  BY <1>1
<1>3. \A b \in Arrivals, v \in Workers : inbox'[v][b] \in Seq(Truthful(b))
  BY <1>2 DEF Take, TypeOK, EarnedInv
<1> QED BY <1>2, <1>3, Steady DEF Snapshot

LEMMA EarnedWrite ==
  ASSUME RealDispatch, TypeOK, EarnedInv, UNCHANGED succeeded,
         NEW a \in Arrivals, NEW obj \in Truthful(a), Write(a, obj)
  PROVE  \A b \in Arrivals : api'[b] \in Truthful(b)' /\ watch'[b] \in Seq(Truthful(b))'
<1>1. \A b \in Arrivals : api'[b] \in Truthful(b)
  BY DEF Write, TypeOK, EarnedInv
<1>2. Append(watch[a], obj) \in Seq(Truthful(a))
  BY DEF EarnedInv
<1>3. \A b \in Arrivals : watch'[b] \in Seq(Truthful(b))
  BY <1>2 DEF Write, TypeOK, EarnedInv
<1> QED BY <1>1, <1>3, Steady

LEMMA EarnedPatch ==
  ASSUME RealDispatch, TypeOK, EarnedInv, UNCHANGED succeeded,
         NEW a \in Arrivals, NEW obj \in Truthful(a), PatchStatus(a, obj)
  PROVE  \A b \in Arrivals : api'[b] \in Truthful(b)' /\ watch'[b] \in Seq(Truthful(b))'
<1>1. CASE Write(a, obj)
  BY <1>1, EarnedWrite
<1>2. CASE UNCHANGED <<api, watch>>
  BY <1>2, Steady DEF EarnedInv
<1> QED BY <1>1, <1>2 DEF PatchStatus

LEMMA EarnedGoto ==
  ASSUME RealDispatch, TypeOK, EarnedInv, UNCHANGED succeeded,
         NEW w \in Workers, NEW rec \in TruthfulWorkers, Goto(w, rec)
  PROVE  \A v \in Workers : wk'[v] \in TruthfulWorkers'
<1>1. \A v \in Workers : wk'[v] \in TruthfulWorkers
  BY DEF Goto, TypeOK, EarnedInv
<1> QED BY <1>1, Steady

\* A dispatch never invents a succeeded Job: the one it adopts was there.
LEMMA EarnedSlots ==
  ASSUME NEW s \in Slot,
         NEW t \in Dispatched(s) \cup DispatchFailed(s) \cup Panicked(s),
         t.st = "passed"
  PROVE  s.st = "passed"
  BY DEF Slot, Dispatched, DispatchFailed, Panicked, FreshJob, NoJob, Deleting, Running

LEMMA EarnedJobs ==
  ASSUME RealDispatch, TypeOK, EarnedInv, UNCHANGED succeeded,
         NEW a \in Arrivals, NEW p \in Packs,
         NEW s \in Dispatched(jobs[a][p]) \cup DispatchFailed(jobs[a][p])
                     \cup Panicked(jobs[a][p]),
         SetJob(a, p, s)
  PROVE  \A b \in Arrivals, q \in Packs : jobs'[b][q].st = "passed" => q \in succeeded'[b]
<1>1. jobs[a][p] \in Slot
  BY DEF TypeOK
<1>2. s.st = "passed" => p \in succeeded[a]
  BY <1>1, EarnedSlots DEF EarnedInv
<1> QED BY <1>2 DEF SetJob, TypeOK, EarnedInv

LEMMA EarnedReboot ==
  ASSUME RealDispatch, TypeOK, EarnedInv, Reboot
  PROVE  /\ \A a \in Arrivals :
              /\ api'[a] \in Truthful(a)' /\ store'[a] \in Truthful(a)'
              /\ watch'[a] \in Seq(Truthful(a))'
              /\ \A w \in Workers : inbox'[w][a] \in Seq(Truthful(a))'
         /\ \A w \in Workers : wk'[w] \in TruthfulWorkers'
<1>1. UNCHANGED <<api, succeeded>>
  BY DEF Reboot
<1>2. \A a \in Arrivals : api[a] \in Truthful(a) /\ <<api[a]>> \in Seq(Truthful(a))
  BY DEF EarnedInv
<1>3. \A a \in Arrivals : <<>> \in Seq(Truthful(a))
  OBVIOUS
<1> QED BY <1>1, <1>2, <1>3, Steady, EarnedIdle DEF Reboot, Listed
-----------------------------------------------------------------------------
(* EarnedInv is inductive.                                                   *)

LEMMA InitEarned == Init => EarnedInv
<1> SUFFICES ASSUME Init, RealDispatch PROVE EarnedInv
  BY DEF EarnedInv
<1>1. TypeOK
  BY InitType
<1>2. \A a \in Arrivals : api[a] \in Truthful(a)
  <2>1. \A a \in Arrivals : api[a].phase = "New" /\ api[a].tests = NoTests
    BY DEF Init
  <2>2. \A p \in Packs : NoTests[p] = "none"
    BY DEF NoTests, AllOf
  <2> QED BY <1>1, <2>1, <2>2 DEF Truthful, Earned, Whole, TypeOK
<1>3. \A a \in Arrivals : <<api[a]>> \in Seq(Truthful(a)) /\ <<>> \in Seq(Truthful(a))
  BY <1>2
<1>4. \A a \in Arrivals :
        /\ store[a] \in Truthful(a)
        /\ watch[a] \in Seq(Truthful(a))
        /\ \A w \in Workers : inbox[w][a] \in Seq(Truthful(a))
  BY <1>2, <1>3 DEF Init, Listed
<1>5. \A a \in Arrivals, p \in Packs : jobs[a][p].st # "passed"
  BY DEF Init, NoJob
<1>6. \A w \in Workers : wk[w] \in TruthfulWorkers
  BY EarnedIdle DEF Init
<1> QED BY <1>2, <1>4, <1>5, <1>6 DEF EarnedInv

\* The branches of reconcileOne that patch at once.
LEMMA PatchBranchEarned ==
  ASSUME RealDispatch, TypeOK, EarnedInv, NEW w \in Workers, NEW a \in Arrivals,
         SkipArrival(w, a) \/ Unskip(w, a) \/ Retest(w, a)
  PROVE  EarnedInv'
<1>1. Take(w, a) /\ UNCHANGED <<world, inFlight, wk, blamed>>
  BY DEF SkipArrival, Unskip, Retest
<1>2. api[a] \in Truthful(a) /\ api[a] \in Arrival /\ clock \in Times
  BY DEF EarnedInv, TypeOK
<1>3. PICK obj \in Truthful(a) : PatchStatus(a, obj)
  <2>1. [api[a] EXCEPT !.phase = "Skipped", !.finalizedAt = clock] \in Truthful(a)
    BY <1>2 DEF Truthful, Arrival, Phases
  <2>2. [api[a] EXCEPT !.phase = "Pending"] \in Truthful(a)
    BY <1>2 DEF Truthful, Arrival, Phases, Waiting
  <2>3. [api[a] EXCEPT !.phase = "Pending", !.tests = NoTests] \in Truthful(a)
    <3>1. \A p \in Packs : NoTests[p] = "none"
      BY DEF NoTests, AllOf
    <3> QED BY <1>2, <3>1, NoTestsType DEF Truthful, Arrival, Phases, Waiting, Earned, Whole
  <2> QED BY <2>1, <2>2, <2>3 DEF SkipArrival, Unskip, Retest
<1>4. UNCHANGED succeeded
  BY <1>1 DEF world
<1>5. \A b \in Arrivals : api'[b] \in Truthful(b)' /\ watch'[b] \in Seq(Truthful(b))'
  BY <1>3, <1>4, EarnedPatch
<1>6. \A b \in Arrivals, v \in Workers : inbox'[v][b] \in Seq(Truthful(b))'
  BY <1>1, <1>4, EarnedTake
<1> QED BY <1>1, <1>4, <1>5, <1>6, Steady DEF EarnedInv, world

\* Only the copies in the inbox and the locals of one worker change.
LEMMA OneWorkerEarned ==
  ASSUME RealDispatch, TypeOK, EarnedInv,
         UNCHANGED <<succeeded, store, jobs>>,
         \A b \in Arrivals : api'[b] \in Truthful(b)' /\ watch'[b] \in Seq(Truthful(b))',
         \A b \in Arrivals, v \in Workers : inbox'[v][b] \in Seq(Truthful(b))',
         \A v \in Workers : wk'[v] \in TruthfulWorkers'
  PROVE  EarnedInv'
  BY Steady DEF EarnedInv

LEMMA UntouchedEarned ==
  ASSUME RealDispatch, EarnedInv, UNCHANGED succeeded
  PROVE  /\ UNCHANGED <<api, watch>> =>
              \A b \in Arrivals : api'[b] \in Truthful(b)' /\ watch'[b] \in Seq(Truthful(b))'
         /\ UNCHANGED inbox =>
              \A b \in Arrivals, v \in Workers : inbox'[v][b] \in Seq(Truthful(b))'
         /\ UNCHANGED wk => \A v \in Workers : wk'[v] \in TruthfulWorkers'
  BY Steady DEF EarnedInv

LEMMA TakeBranchEarned ==
  ASSUME RealDispatch, TypeOK, EarnedInv, NEW w \in Workers, NEW a \in Arrivals,
         \/ LeaveAlone(w, a) \/ SkipReentry(w, a) \/ Wait(w, a) \/ MissTimer(w, a)
         \/ EnterDispatch(w, a) \/ EndByTimer(w, a) \/ StartPoll(w, a)
  PROVE  EarnedInv'
<1>1. Take(w, a) /\ UNCHANGED <<world, api, watch>>
  BY DEF LeaveAlone, SkipReentry, Wait, MissTimer, EnterDispatch, EndByTimer,
         StartPoll, Pending, Testing
<1>2. UNCHANGED <<succeeded, store, jobs, api, watch>>
  BY <1>1 DEF world
<1> DEFINE o == Snapshot(w, a)
<1>3. o \in Truthful(a)
  BY <1>1, <1>2, EarnedTake
<1>4. o \in Arrival /\ o.tests \in Tests /\ Earned(a, o.tests) /\ Whole(o.tests)
      /\ clock \in Times
  BY <1>3 DEF Truthful, Arrival, TypeOK
<1>5. Idle \in Worker /\ Idle \in TruthfulWorkers
  BY IdleType, EarnedIdle
<1>6. ASSUME NEW rec \in TruthfulWorkers, Goto(w, rec) \/ UNCHANGED wk
      PROVE  EarnedInv'
  <2>1. \A v \in Workers : wk'[v] \in TruthfulWorkers'
    BY <1>2, <1>6, EarnedGoto, UntouchedEarned
  <2>2. \A b \in Arrivals, v \in Workers : inbox'[v][b] \in Seq(Truthful(b))'
    BY <1>1, <1>2, EarnedTake
  <2>3. \A b \in Arrivals : api'[b] \in Truthful(b)' /\ watch'[b] \in Seq(Truthful(b))'
    BY <1>2, UntouchedEarned
  <2> QED BY <1>2, <2>1, <2>2, <2>3, OneWorkerEarned
<1>7. CASE UNCHANGED wk
  BY <1>5, <1>6, <1>7
<1>8. CASE MissTimer(w, a)
  <2>1. [Idle EXCEPT !.pc = "seed", !.arr = a] \in TruthfulWorkers
    <3>1. Idle.tests = NoTests /\ \A p \in Packs : NoTests[p] = "none"
      BY DEF Idle, NoTests, AllOf
    <3> QED BY <1>5, <3>1 DEF TruthfulWorkers, Worker, Pcs, Earned, Whole
  <2> QED BY <1>6, <1>8, <2>1 DEF MissTimer
<1>9. CASE EnterDispatch(w, a)
  <2> DEFINE rec == [Idle EXCEPT !.pc = IF RealDispatch THEN "gate" ELSE "publish",
                                 !.arr = a, !.tests = o.tests,
                                 !.todo = IF RealDispatch THEN Packs ELSE {}]
  <2>1. rec \in TruthfulWorkers
    BY <1>4, <1>5 DEF TruthfulWorkers, Worker, Pcs
  <2>2. Goto(w, rec)
    BY <1>9 DEF EnterDispatch
  <2> QED BY <1>6, <2>1, <2>2
<1>10. CASE EndByTimer(w, a)
  <2> DEFINE rec == [Idle EXCEPT !.pc = "finalize", !.arr = a, !.phase = "Timeout",
                                 !.stamp = clock, !.tests = Promoted(o.tests, "Timeout")]
  <2>1. Goto(w, rec)
    BY <1>10 DEF EndByTimer
  <2>2. Promoted(o.tests, "Timeout") \in Tests
    BY <1>4, PromotedType DEF Verdicts
  <2>3. Earned(a, Promoted(o.tests, "Timeout")) /\ Whole(Promoted(o.tests, "Timeout"))
    BY <1>4, EarnedPromoted
  <2>4. rec \in TruthfulWorkers
    BY <1>4, <1>5, <2>2, <2>3 DEF TruthfulWorkers, Worker, Pcs, Phases, Verdicts
  <2> QED BY <1>6, <2>1, <2>4
<1>11. CASE StartPoll(w, a)
  <2> DEFINE rec == [Idle EXCEPT !.pc = "poll", !.arr = a, !.tests = o.tests,
                                 !.todo = Open(o.tests)]
  <2>1. Goto(w, rec) /\ o.phase = "Testing" /\ o.tests # NoTests
    BY <1>11 DEF StartPoll, Testing
  <2>2. \A p \in Packs : o.tests[p] \notin {"none", "Timeout"}
    BY <1>3, <2>1 DEF Truthful, Whole
  <2>3. Open(o.tests) \subseteq Packs
    BY DEF Open
  <2>4. rec \in TruthfulWorkers
    BY <1>4, <1>5, <2>2, <2>3 DEF TruthfulWorkers, Worker, Pcs
  <2> QED BY <1>6, <2>1, <2>4
<1> QED BY <1>7, <1>8, <1>9, <1>10, <1>11 DEF LeaveAlone, SkipReentry, Wait

\* A step of worker w from its locals: it takes nothing from an inbox.
LEMMA StepEarned ==
  ASSUME RealDispatch, TypeOK, EarnedInv, UNCHANGED <<world, inbox>>,
         NEW w \in Workers,
         NEW rec \in TruthfulWorkers, Goto(w, rec),
         NEW obj \in Truthful(wk[w].arr),
         PatchStatus(wk[w].arr, obj) \/ UNCHANGED <<api, watch>>
  PROVE  EarnedInv'
<1>1. UNCHANGED <<succeeded, store, jobs, inbox>>
  BY DEF world
<1>2. wk[w].arr \in Arrivals
  BY DEF TypeOK, Worker
<1>3. \A v \in Workers : wk'[v] \in TruthfulWorkers'
  BY <1>1, EarnedGoto
<1>4. \A b \in Arrivals : api'[b] \in Truthful(b)' /\ watch'[b] \in Seq(Truthful(b))'
  BY <1>1, <1>2, EarnedPatch, UntouchedEarned
<1> QED BY <1>1, <1>3, <1>4, UntouchedEarned, OneWorkerEarned

\* finalize starts from truthful tests with a phase that is no pass.
LEMMA StartFinalizeEarned ==
  ASSUME RealDispatch, TypeOK, EarnedInv, NEW w \in Workers
  PROVE  [wk[w] EXCEPT !.pc = "finalize", !.tests = Promoted(wk[w].tests, "Failed"),
                       !.todo = {}, !.phase = "Failed", !.stamp = clock] \in TruthfulWorkers
<1>1. wk[w] \in Worker /\ wk[w] \in TruthfulWorkers /\ clock \in Times
  BY DEF TypeOK, EarnedInv
<1>2. wk[w].arr \in Arrivals /\ wk[w].tests \in Tests
      /\ Earned(wk[w].arr, wk[w].tests) /\ Whole(wk[w].tests)
  BY <1>1 DEF TruthfulWorkers, Worker
<1>3. Promoted(wk[w].tests, "Failed") \in Tests
  BY <1>2, PromotedType DEF Verdicts
<1>4. /\ Earned(wk[w].arr, Promoted(wk[w].tests, "Failed"))
      /\ Whole(Promoted(wk[w].tests, "Failed"))
  BY <1>2, EarnedPromoted
<1> QED BY <1>1, <1>3, <1>4 DEF TruthfulWorkers, Worker, Pcs, Phases, Verdicts

\* Moving on in the dispatch path changes no test.
LEMMA JumpEarned ==
  ASSUME RealDispatch, TypeOK, EarnedInv, NEW w \in Workers,
         NEW pc \in {"dispatch", "publish", "evidence"}, NEW todo \in SUBSET Packs
  PROVE  /\ [wk[w] EXCEPT !.pc = pc] \in TruthfulWorkers
         /\ [wk[w] EXCEPT !.todo = todo, !.pc = pc] \in TruthfulWorkers
<1>1. wk[w] \in Worker /\ wk[w] \in TruthfulWorkers
  BY DEF TypeOK, EarnedInv
<1> QED BY <1>1 DEF TruthfulWorkers, Worker, Pcs

\* A step that changes a Job.
LEMMA JobStepEarned ==
  ASSUME RealDispatch, TypeOK, EarnedInv,
         UNCHANGED <<succeeded, store, inbox, api, watch>>,
         \A v \in Workers : wk'[v] \in TruthfulWorkers',
         \A b \in Arrivals, q \in Packs : jobs'[b][q].st = "passed" => q \in succeeded'[b]
  PROVE  EarnedInv'
  BY Steady DEF EarnedInv

LEMMA DispatchEarned ==
  ASSUME RealDispatch, TypeOK, EarnedInv, NEW w \in Workers,
         \/ GatePasses(w) \/ GateFails(w) \/ PatchEvidence(w) \/ PublishTesting(w)
         \/ \E p \in Packs : \/ DispatchPack(w, p) \/ DispatchFails(w, p)
                             \/ DispatchPanics(w, p) \/ DispatchInterrupted(w, p)
  PROVE  EarnedInv'
<1> DEFINE a == wk[w].arr
<1>1. /\ wk[w] \in Worker /\ a \in Arrivals /\ wk[w].todo \subseteq Packs
      /\ api[a] \in Arrival /\ api[a] \in Truthful(a)
  BY DEF TypeOK, Worker, EarnedInv
<1>2. CASE GatePasses(w)
  <2>1. UNCHANGED <<world, inbox, api, watch>>
    BY <1>2 DEF GatePasses
  <2>2. Goto(w, [wk[w] EXCEPT !.pc = "dispatch"])
    BY <1>2 DEF GatePasses, Jump
  <2> QED BY <1>1, <2>1, <2>2, JumpEarned, StepEarned
<1>3. CASE GateFails(w)
  <2>1. UNCHANGED <<world, inbox, api, watch>>
    BY <1>3 DEF GateFails
  <2>2. Goto(w, [wk[w] EXCEPT !.pc = "finalize",
                   !.tests = Promoted(wk[w].tests, "Failed"),
                   !.todo = {}, !.phase = "Failed", !.stamp = clock])
    BY <1>3 DEF GateFails, StartFinalize
  <2> QED BY <1>1, <2>1, <2>2, StartFinalizeEarned, StepEarned
<1>4. CASE PatchEvidence(w)
  <2> DEFINE obj == [api[a] EXCEPT !.tests = DispatchEvidence(wk[w].todo)]
  <2>1. UNCHANGED <<world, inbox>> /\ PatchStatus(a, obj)
    BY <1>4 DEF PatchEvidence
  <2>2. Goto(w, [wk[w] EXCEPT !.pc = "finalize",
                   !.tests = Promoted(wk[w].tests, "Failed"),
                   !.todo = {}, !.phase = "Failed", !.stamp = clock])
    BY <1>4 DEF PatchEvidence, StartFinalize
  <2>3. DispatchEvidence(wk[w].todo) \in Tests
        /\ \A p \in Packs : DispatchEvidence(wk[w].todo)[p] \in Unsettled
    BY DEF DispatchEvidence, Tests, Status, Unsettled
  <2>4. obj \in Truthful(a)
    BY <1>1, <2>3 DEF Truthful, Arrival, Earned, Whole, Unsettled
  <2> QED BY <2>1, <2>2, <2>4, StartFinalizeEarned, StepEarned
<1>5. CASE PublishTesting(w)
  <2> DEFINE obj == [api[a] EXCEPT !.phase = "Testing", !.tests = AllOf("Running")]
  <2>1. UNCHANGED <<world, inbox>> /\ PatchStatus(a, obj) /\ Goto(w, Idle)
    BY <1>5 DEF PublishTesting
  <2>2. AllOf("Running") \in Tests /\ \A p \in Packs : AllOf("Running")[p] = "Running"
    BY DEF AllOf, Tests, Status, Unsettled
  <2>3. obj \in Truthful(a)
    BY <1>1, <2>2 DEF Truthful, Arrival, Phases, Earned, Whole
  <2> QED BY <2>1, <2>3, EarnedIdle, StepEarned
<1>6. ASSUME NEW p \in Packs, DispatchPack(w, p) PROVE EarnedInv'
  <2>1. UNCHANGED <<succeeded, store, inbox, api, watch>>
    BY <1>6 DEF DispatchPack
  <2>2. PICK pc \in {"dispatch", "publish"} :
          Goto(w, [wk[w] EXCEPT !.todo = wk[w].todo \ {p}, !.pc = pc])
    BY <1>1, <1>6 DEF DispatchPack, At, Worker
  <2>3. [wk[w] EXCEPT !.todo = wk[w].todo \ {p}, !.pc = pc] \in TruthfulWorkers
    BY <1>1, JumpEarned
  <2>4. \A v \in Workers : wk'[v] \in TruthfulWorkers'
    BY <2>1, <2>2, <2>3, EarnedGoto
  <2>5. \A b \in Arrivals, q \in Packs : jobs'[b][q].st = "passed" => q \in succeeded'[b]
    BY <1>1, <1>6, <2>1, EarnedJobs DEF DispatchPack
  <2> QED BY <2>1, <2>4, <2>5, JobStepEarned
<1>7. ASSUME NEW p \in Packs, DispatchFails(w, p) PROVE EarnedInv'
  <2>1. UNCHANGED <<succeeded, store, inbox, api, watch>>
    BY <1>7 DEF DispatchFails
  <2>2. \A v \in Workers : wk'[v] \in TruthfulWorkers'
    BY <1>7, <2>1, JumpEarned, EarnedGoto DEF DispatchFails, Jump
  <2>3. \A b \in Arrivals, q \in Packs : jobs'[b][q].st = "passed" => q \in succeeded'[b]
    BY <1>1, <1>7, <2>1, EarnedJobs DEF DispatchFails
  <2> QED BY <2>1, <2>2, <2>3, JobStepEarned
<1>8. ASSUME NEW p \in Packs, DispatchPanics(w, p) \/ DispatchInterrupted(w, p)
      PROVE  EarnedInv'
  <2>1. Reboot /\ UNCHANGED succeeded
    BY <1>8 DEF DispatchPanics, DispatchInterrupted, Reboot
  <2>2. \A b \in Arrivals, q \in Packs : jobs'[b][q].st = "passed" => q \in succeeded'[b]
    BY <1>1, <1>8, <2>1, EarnedJobs DEF DispatchPanics, DispatchInterrupted
  <2> QED BY <2>1, <2>2, EarnedReboot DEF EarnedInv
<1> QED BY <1>2, <1>3, <1>4, <1>5, <1>6, <1>7, <1>8

\* A poll says "Passed" of a pack only when its Job has succeeded.
LEMMA PolledEarned ==
  ASSUME RealDispatch, TypeOK, EarnedInv, NEW w \in Workers, NEW p \in Packs,
         wk[w].pc = "poll"
  PROVE  [wk[w] EXCEPT !.todo = @ \ {p},
            !.tests[p] = Polled(@, jobs[wk[w].arr][p])] \in TruthfulWorkers
<1> DEFINE a  == wk[w].arr
           ts == wk[w].tests
           s  == Polled(ts[p], jobs[a][p])
<1>1. wk[w] \in Worker /\ wk[w] \in TruthfulWorkers /\ a \in Arrivals /\ ts \in Tests
  BY DEF TypeOK, EarnedInv, Worker
<1>2. Earned(a, ts) /\ \A q \in Packs : ts[q] \notin {"none", "Timeout"}
  BY <1>1 DEF TruthfulWorkers
<1>3. s \in Status \ {"none", "Timeout"}
  BY <1>1, <1>2 DEF Polled, Status, Verdicts, Tests
<1>4. s = "Passed" => p \in succeeded[a]
  BY <1>1, <1>2 DEF Polled, Earned, EarnedInv
<1>5. [ts EXCEPT ![p] = s] \in Tests
  BY <1>1, <1>3 DEF Tests
<1>6. \A q \in Packs : [ts EXCEPT ![p] = s][q] \notin {"none", "Timeout"}
  BY <1>1, <1>2, <1>3 DEF Tests
<1>7. Earned(a, [ts EXCEPT ![p] = s])
  BY <1>1, <1>2, <1>4 DEF Earned, Tests
<1> DEFINE rec == [wk[w] EXCEPT !.todo = @ \ {p}, !.tests = [ts EXCEPT ![p] = s]]
<1>8. rec \in Worker /\ rec.arr = a /\ rec.tests = [ts EXCEPT ![p] = s] /\ rec.pc = "poll"
  BY <1>1, <1>5 DEF Worker
<1>9. rec \in TruthfulWorkers
  BY <1>6, <1>7, <1>8 DEF TruthfulWorkers, Whole
<1>10. rec = [wk[w] EXCEPT !.todo = @ \ {p}, !.tests[p] = Polled(@, jobs[wk[w].arr][p])]
  BY <1>1 DEF Worker
<1> QED BY <1>9, <1>10

LEMMA PollEarned ==
  ASSUME RealDispatch, TypeOK, EarnedInv, NEW w \in Workers,
         \/ SeedTimer(w) \/ PatchProgress(w) \/ AllSettled(w) \/ RecordVerdict(w)
         \/ DispatchForensics(w) \/ \E p \in Packs : PollPack(w, p)
  PROVE  EarnedInv'
<1> DEFINE a  == wk[w].arr
           ts == wk[w].tests
<1>1. /\ wk[w] \in Worker /\ wk[w] \in TruthfulWorkers /\ a \in Arrivals
      /\ ts \in Tests /\ Earned(a, ts) /\ Whole(ts)
      /\ api[a] \in Arrival /\ api[a] \in Truthful(a) /\ clock \in Times
  BY DEF TypeOK, Worker, EarnedInv, TruthfulWorkers
<1>2. UNCHANGED <<world, inbox>>
  BY DEF SeedTimer, PatchProgress, AllSettled, RecordVerdict, DispatchForensics, PollPack
<1>3. CASE SeedTimer(w)
  BY <1>1, <1>2, <1>3, EarnedIdle, StepEarned DEF SeedTimer
<1>4. CASE PatchProgress(w)
  <2>1. [api[a] EXCEPT !.tests = ts] \in Truthful(a)
    <3>1. \A p \in Packs : ts[p] # "Timeout"
      BY <1>1, <1>4 DEF PatchProgress, At, TruthfulWorkers
    <3> QED BY <1>1, <3>1 DEF Truthful, Arrival
  <2> QED BY <1>2, <1>4, <2>1, EarnedIdle, StepEarned DEF PatchProgress
<1>5. CASE AllSettled(w)
  <2> DEFINE ph  == IF \E p \in Packs : ts[p] = "Failed" THEN "Failed" ELSE "Passed"
             rec == [wk[w] EXCEPT !.pc = "record", !.phase = ph]
  <2>1. Goto(w, rec) /\ wk[w].pc = "poll" /\ Open(ts) = {} /\ UNCHANGED <<api, watch>>
    BY <1>5 DEF AllSettled, At
  <2>2. \A p \in Packs : ts[p] \in {"Passed", "Failed"}
    BY <1>1, <2>1 DEF TruthfulWorkers, Open, Tests, Status, Verdicts
  <2>3. ph = "Passed" => succeeded[a] = Packs
    <3>1. ph = "Passed" => \A p \in Packs : ts[p] = "Passed"
      BY <2>2
    <3>2. succeeded[a] \subseteq Packs
      BY <1>1 DEF TypeOK
    <3> QED BY <1>1, <3>1, <3>2 DEF Earned
  <2>4. rec \in Worker /\ rec.pc = "record" /\ rec.arr = a /\ rec.tests = ts /\ rec.phase = ph
    BY <1>1 DEF Worker, Pcs, Phases, Verdicts
  <2>5. rec \in TruthfulWorkers
    BY <1>1, <2>3, <2>4 DEF TruthfulWorkers
  <2> QED BY <1>1, <1>2, <2>1, <2>5, StepEarned
<1>6. CASE RecordVerdict(w)
  <2> DEFINE rec == IF ForensicsOn THEN [Idle EXCEPT !.pc = "forensics", !.arr = a]
                    ELSE Idle
             obj == [api[a] EXCEPT !.phase = wk[w].phase, !.tests = ts,
                                   !.finalizedAt = clock]
  <2>1. Goto(w, rec) /\ wk[w].pc = "record" /\ PatchStatus(a, obj)
    BY <1>6 DEF RecordVerdict, At
  <2>2. rec \in TruthfulWorkers
    <3>1. Idle.tests = NoTests /\ \A p \in Packs : NoTests[p] = "none"
      BY DEF Idle, NoTests, AllOf
    <3>2. Idle \in TruthfulWorkers
      BY EarnedIdle
    <3> DEFINE next == [Idle EXCEPT !.pc = "forensics", !.arr = a]
    <3>3. next \in Worker /\ next.pc = "forensics" /\ next.tests = Idle.tests
      BY <1>1, IdleType DEF Worker, Pcs
    <3>4. next \in TruthfulWorkers
      BY <3>1, <3>3 DEF TruthfulWorkers, Earned, Whole
    <3> QED BY <3>2, <3>4
  <2>3. /\ wk[w].phase \in {"Failed", "Passed"}
        /\ wk[w].phase = "Passed" => succeeded[a] = Packs
    BY <1>1, <2>1 DEF TruthfulWorkers
  <2>4. obj \in Truthful(a)
    BY <1>1, <2>3 DEF Truthful, Arrival, Phases, Verdicts
  <2> QED BY <1>2, <2>1, <2>2, <2>4, StepEarned
<1>7. CASE DispatchForensics(w)
  <2>1. [api[a] EXCEPT !.forensics = TRUE] \in Truthful(a)
    BY <1>1 DEF Truthful, Arrival
  <2> QED BY <1>1, <1>2, <1>7, <2>1, EarnedIdle, StepEarned DEF DispatchForensics
<1>8. ASSUME NEW p \in Packs, PollPack(w, p) PROVE EarnedInv'
  <2>1. wk[w].pc = "poll" /\ UNCHANGED <<api, watch>>
    BY <1>8 DEF PollPack, At
  <2>2. [wk[w] EXCEPT !.todo = @ \ {p}] \in TruthfulWorkers
    BY <1>1, <2>1 DEF TruthfulWorkers, Worker
  <2>3. PICK rec \in TruthfulWorkers : Goto(w, rec)
    BY <1>8, <2>1, <2>2, PolledEarned DEF PollPack
  <2> QED BY <1>1, <1>2, <2>1, <2>3, StepEarned
<1> QED BY <1>3, <1>4, <1>5, <1>6, <1>7, <1>8

LEMMA FinalizeEarned ==
  ASSUME RealDispatch, TypeOK, EarnedInv, NEW w \in Workers,
         FinalizeForgets(w) \/ FinalizeCommits(w)
  PROVE  EarnedInv'
<1> DEFINE a  == wk[w].arr
           ts == wk[w].tests
<1>1. /\ wk[w] \in Worker /\ wk[w] \in TruthfulWorkers /\ a \in Arrivals
      /\ ts \in Tests /\ Earned(a, ts) /\ Whole(ts)
      /\ wk[w].phase \in {"Failed", "Timeout"} /\ wk[w].stamp \in Times
      /\ api[a] \in Arrival /\ api[a] \in Truthful(a)
  BY DEF TypeOK, Worker, EarnedInv, TruthfulWorkers, FinalizeForgets, FinalizeCommits, At
<1>2. UNCHANGED <<world, inbox>>
  BY DEF FinalizeForgets, FinalizeCommits
<1>3. CASE FinalizeForgets(w)
  <2>1. [wk[w] EXCEPT !.pc = "commit"] \in TruthfulWorkers
    BY <1>1 DEF TruthfulWorkers, Worker, Pcs
  <2> QED BY <1>1, <1>2, <1>3, <2>1, StepEarned DEF FinalizeForgets, Jump
<1>4. CASE FinalizeCommits(w)
  <2>1. [api[a] EXCEPT !.phase = wk[w].phase, !.tests = ts,
                       !.finalizedAt = wk[w].stamp] \in Truthful(a)
    BY <1>1 DEF Truthful, Arrival, Phases, Verdicts
  <2> QED BY <1>2, <1>4, <2>1, EarnedIdle, StepEarned DEF FinalizeCommits
<1> QED BY <1>3, <1>4

\* The informer, the ticker and the watcher pass copies on.
LEMMA SurroundingEarned ==
  ASSUME RealDispatch, TypeOK, EarnedInv,
         \/ TickerLists \/ Restart \/ Tick
         \/ \E a \in Arrivals : Deliver(a) \/ Age(a) \/ Upsert(a)
  PROVE  EarnedInv'
<1>1. CASE TickerLists
  <2>1. UNCHANGED <<api, watch, store, wk, jobs, succeeded>>
    BY <1>1 DEF TickerLists
  <2>2. \A a \in Arrivals : <<store[a]>> \in Seq(Truthful(a))
    BY DEF EarnedInv
  <2>3. \A a \in Arrivals, v \in Workers : inbox'[v][a] \in Seq(Truthful(a))
    BY <1>1, <2>2 DEF TickerLists, TypeOK, EarnedInv
  <2> QED BY <2>1, <2>3, Steady DEF EarnedInv
<1>2. CASE Restart
  <2>1. Reboot /\ UNCHANGED <<jobs, succeeded>>
    BY <1>2 DEF Restart, Reboot
  <2>2. \A b \in Arrivals, q \in Packs : jobs'[b][q].st = "passed" => q \in succeeded'[b]
    BY <2>1 DEF EarnedInv
  <2> QED BY <2>1, <2>2, EarnedReboot DEF EarnedInv
<1>3. CASE Tick
  <2>1. UNCHANGED <<api, watch, store, inbox, wk, jobs, succeeded>>
    BY <1>3 DEF Tick
  <2> QED BY <2>1, Steady DEF EarnedInv
<1>4. ASSUME NEW a \in Arrivals, Deliver(a) PROVE EarnedInv'
  <2>1. UNCHANGED <<api, wk, jobs, succeeded>>
    BY <1>4 DEF Deliver
  <2>2. watch[a] \in Seq(Truthful(a)) /\ watch[a] # <<>>
    BY <1>4 DEF Deliver, EarnedInv
  <2>3. Head(watch[a]) \in Truthful(a) /\ Tail(watch[a]) \in Seq(Truthful(a))
    BY <2>2
  <2>4. \A b \in Arrivals : watch'[b] \in Seq(Truthful(b)) /\ store'[b] \in Truthful(b)
    BY <1>4, <2>3 DEF Deliver, TypeOK, EarnedInv
  <2>5. \A v \in Workers : Append(inbox[v][a], Head(watch[a])) \in Seq(Truthful(a))
    BY <2>3 DEF EarnedInv
  <2>6. \A b \in Arrivals, v \in Workers : inbox'[v][b] \in Seq(Truthful(b))
    BY <1>4, <2>5 DEF Deliver, TypeOK, EarnedInv
  <2> QED BY <2>1, <2>4, <2>6, Steady DEF EarnedInv
<1>5. ASSUME NEW a \in Arrivals, Age(a) PROVE EarnedInv'
  <2>1. UNCHANGED <<api, watch, store, inbox, wk, jobs, succeeded>>
    BY <1>5 DEF Age
  <2> QED BY <2>1, Steady DEF EarnedInv
<1>6. ASSUME NEW a \in Arrivals, Upsert(a) PROVE EarnedInv'
  <2>1. UNCHANGED <<store, inbox, wk, jobs, succeeded>>
    BY <1>6 DEF Upsert
  <2>2. PICK t \in 1..clock, d \in {api[a].declared, TRUE} :
          Write(a, [api[a] EXCEPT !.deployedAt = t, !.declared = d])
    BY <1>6 DEF Upsert
  <2>3. t \in Times
    <3>1. MaxClock \in Nat /\ clock \in 0..MaxClock
      BY ControllerAssumption DEF TypeOK, Times
    <3> QED BY <3>1 DEF Times
  <2>4. api[a] \in Arrival /\ api[a] \in Truthful(a)
    BY DEF TypeOK, EarnedInv
  <2>5. [api[a] EXCEPT !.deployedAt = t, !.declared = d] \in Truthful(a)
    BY <2>3, <2>4 DEF Truthful, Arrival
  <2>6. \A b \in Arrivals : api'[b] \in Truthful(b)' /\ watch'[b] \in Seq(Truthful(b))'
    BY <2>1, <2>2, <2>5, EarnedWrite
  <2> QED BY <2>1, <2>6, Steady DEF EarnedInv
<1> QED BY <1>1, <1>2, <1>3, <1>4, <1>5, <1>6

\* What was true of a pass stays true when more packs have succeeded.
LEMMA Growing ==
  ASSUME TypeOK, NEW a \in Arrivals, NEW p \in Packs,
         succeeded' = [succeeded EXCEPT ![a] = @ \cup {p}]
  PROVE  /\ \A b \in Arrivals : Truthful(b) \subseteq Truthful(b)'
         /\ TruthfulWorkers \subseteq TruthfulWorkers'
<1>1. \A b \in Arrivals : /\ succeeded[b] \subseteq succeeded'[b]
                         /\ succeeded'[b] \subseteq Packs
  BY DEF TypeOK
<1>2. \A b \in Arrivals, ts \in Tests : Earned(b, ts) => Earned(b, ts)'
  BY <1>1 DEF Earned
<1>3. \A b \in Arrivals : Truthful(b) \subseteq Truthful(b)'
  BY <1>1, <1>2 DEF Truthful, Arrival
<1>4. TruthfulWorkers \subseteq TruthfulWorkers'
  BY <1>1, <1>2 DEF TruthfulWorkers, Worker
<1> QED BY <1>3, <1>4

LEMMA ClusterEarned ==
  ASSUME RealDispatch, TypeOK, EarnedInv,
         NEW a \in Arrivals, NEW p \in Packs, Cluster(a, p)
  PROVE  EarnedInv'
<1>1. UNCHANGED <<api, watch, store, inbox, wk>>
  BY DEF Cluster
<1>2. CASE JobPasses(a, p)
  <2>1. succeeded' = [succeeded EXCEPT ![a] = @ \cup {p}]
        /\ SetJob(a, p, [jobs[a][p] EXCEPT !.st = "passed"])
    BY <1>2 DEF JobPasses
  <2>2. \A b \in Arrivals, q \in Packs : jobs'[b][q].st = "passed" => q \in succeeded'[b]
    BY <2>1 DEF SetJob, TypeOK, EarnedInv
  <2>3. /\ \A b \in Arrivals : Truthful(b) \subseteq Truthful(b)'
        /\ TruthfulWorkers \subseteq TruthfulWorkers'
    BY <2>1, Growing
  <2>4. \A b \in Arrivals :
          /\ api'[b] \in Truthful(b)' /\ store'[b] \in Truthful(b)'
    BY <1>1, <2>3 DEF EarnedInv
  <2>5. \A b \in Arrivals : Seq(Truthful(b)) \subseteq Seq(Truthful(b)')
    BY <2>3
  <2>6. \A b \in Arrivals :
          /\ watch'[b] \in Seq(Truthful(b)')
          /\ \A w \in Workers : inbox'[w][b] \in Seq(Truthful(b)')
    BY <1>1, <2>5 DEF EarnedInv
  <2>7. \A w \in Workers : wk'[w] \in TruthfulWorkers'
    BY <1>1, <2>3 DEF EarnedInv
  <2> QED BY <2>2, <2>4, <2>6, <2>7 DEF EarnedInv
<1>3. CASE JobRuns(a, p) \/ JobFails(a, p) \/ JobExpires(a, p) \/ JobVanishes(a, p)
  <2>1. UNCHANGED succeeded /\ jobs[a][p] \in Slot
    BY <1>3 DEF JobRuns, JobFails, JobExpires, JobVanishes, TypeOK
  <2>2. PICK s \in Slot : /\ SetJob(a, p, s)
                          /\ s.st = "passed" => jobs[a][p].st = "passed"
    <3>1. FreshJob \in Slot /\ NoJob \in Slot
      BY <2>1, SlotTypes
    <3>2. /\ [FreshJob EXCEPT !.st = "active"] \in Slot
          /\ [FreshJob EXCEPT !.st = "active"].st # "passed"
      BY <3>1 DEF Slot
    <3>3. /\ [jobs[a][p] EXCEPT !.st = "failed"] \in Slot
          /\ [jobs[a][p] EXCEPT !.st = "failed"].st # "passed"
      BY <2>1 DEF Slot
    <3>4. NoJob.st # "passed"
      BY DEF NoJob
    <3>5. Deleting(jobs[a][p]) \in Slot /\ Deleting(jobs[a][p]).st = jobs[a][p].st
      BY <2>1 DEF Deleting, Slot
    <3> QED BY <1>3, <3>1, <3>2, <3>3, <3>4, <3>5
            DEF JobRuns, JobFails, JobExpires, JobVanishes
  <2>3. \A b \in Arrivals, q \in Packs : jobs'[b][q].st = "passed" => q \in succeeded'[b]
    BY <2>1, <2>2 DEF SetJob, TypeOK, EarnedInv
  <2> QED BY <1>1, <2>1, <2>3, Steady DEF EarnedInv
<1> QED BY <1>2, <1>3 DEF Cluster

LEMMA NextEarned == TypeOK /\ EarnedInv /\ [Next]_vars => EarnedInv'
<1> SUFFICES ASSUME RealDispatch, TypeOK, EarnedInv, [Next]_vars PROVE EarnedInv'
  BY DEF EarnedInv
<1>1. ASSUME NEW w \in Workers, Work(w) PROVE EarnedInv'
  BY <1>1, PatchBranchEarned, TakeBranchEarned, DispatchEarned, PollEarned,
     FinalizeEarned DEF Work
<1>2. CASE UNCHANGED vars
  <2>1. UNCHANGED <<api, watch, store, inbox, wk, jobs, succeeded>>
    BY <1>2 DEF vars
  <2> QED BY <2>1, Steady DEF EarnedInv
<1> QED BY <1>1, <1>2, SurroundingEarned, ClusterEarned DEF Next

\* Every copy of an Arrival and every worker's locals speak the truth about
\* what passed, in every reachable state, for any number of Arrivals, packs,
\* lost patches, restarts and upserts and any staleness.
THEOREM AlwaysEarned == Spec => []EarnedInv
<1>1. Init => TypeOK /\ EarnedInv
  BY InitType, InitEarned
<1>2. TypeOK /\ EarnedInv /\ [Next]_vars => (TypeOK /\ EarnedInv)'
  BY NextTypes, NextEarned
<1> QED BY <1>1, <1>2, PTL DEF Spec

\* An Arrival is Passed only when every one of its packs' Jobs has succeeded.
THEOREM PassesAreEarned == Spec => []PassedIsEarned
<1>1. EarnedInv => PassedIsEarned
  BY DEF EarnedInv, PassedIsEarned, Truthful
<1> QED BY <1>1, AlwaysEarned, PTL

-----------------------------------------------------------------------------
(* No interleaving makes up a failure either: the same argument, with the    *)
(* set of Arrivals of which something really went wrong, which only grows.   *)

Guilty == {a \in Arrivals : blamed[a]}

Accuses(ts) == \E p \in Packs : ts[p] = "Failed"

\* A copy that tells of a failure is of a guilty Arrival, and so is a worker's
\* Arrival when its locals do, or are about to.
Fair(a) == {o \in Arrival : o.phase = "Failed" \/ Accuses(o.tests) => a \in Guilty}

FairWorkers ==
    {r \in Worker :
        \/ r.pc = "evidence" \/ Accuses(r.tests)
        \/ r.pc \in {"finalize", "commit", "record"} /\ r.phase = "Failed"
        => r.arr \in Guilty}

FairCopies ==
    \A a \in Arrivals : /\ api[a] \in Fair(a)
                        /\ store[a] \in Fair(a)
                        /\ watch[a] \in Seq(Fair(a))
                        /\ \A w \in Workers : inbox[w][a] \in Seq(Fair(a))

FairJobs == \A a \in Arrivals, p \in Packs : jobs[a][p].st = "failed" => a \in Guilty

BlameInv == FairCopies /\ FairJobs /\ \A w \in Workers : wk[w] \in FairWorkers

LEMMA GuiltStays ==
  ASSUME UNCHANGED blamed
  PROVE  Guilty' = Guilty
  BY DEF Guilty

LEMMA GuiltComes ==
  ASSUME TypeOK, NEW a \in Arrivals, blamed' = [blamed EXCEPT ![a] = TRUE]
  PROVE  Guilty' = Guilty \cup {a}
<1>1. blamed'[a] = TRUE
  BY DEF TypeOK
<1>2. \A b \in Arrivals : b # a => blamed'[b] = blamed[b]
  BY Zenon DEF TypeOK
<1> QED BY <1>1, <1>2, Zenon DEF Guilty

\* What was fair to say stays so.
LEMMA FairLater ==
  ASSUME Guilty \subseteq Guilty'
  PROVE  /\ \A a \in Arrivals : Fair(a) \subseteq Fair(a)'
         /\ \A a \in Arrivals : Seq(Fair(a)) \subseteq Seq(Fair(a)')
         /\ FairWorkers \subseteq FairWorkers'
<1>1. \A a \in Arrivals : Fair(a) \subseteq Fair(a)'
  BY DEF Fair, Accuses
<1>2. FairWorkers \subseteq FairWorkers'
  BY DEF FairWorkers, Accuses
<1> QED BY <1>1, <1>2

LEMMA Harmless == ~Accuses(NoTests) /\ Idle \in FairWorkers /\ ~Accuses(Idle.tests)
<1>1. ~Accuses(NoTests)
  BY DEF Accuses, NoTests, AllOf
<1>2. Idle.pc = "idle" /\ Idle.tests = NoTests
  BY DEF Idle
<1> QED BY <1>1, <1>2, IdleType DEF FairWorkers

LEMMA InitBlame == Init => BlameInv
<1> SUFFICES ASSUME Init PROVE BlameInv
  OBVIOUS
<1>1. TypeOK
  BY InitType
<1>2. \A a \in Arrivals : api[a] \in Fair(a)
  <2>1. \A a \in Arrivals : api[a].phase = "New" /\ api[a].tests = NoTests
    BY DEF Init
  <2> QED BY <1>1, <2>1, Harmless DEF Fair, TypeOK
<1>3. \A a \in Arrivals : <<api[a]>> \in Seq(Fair(a)) /\ <<>> \in Seq(Fair(a))
  BY <1>2
<1>4. FairCopies
  BY <1>2, <1>3 DEF Init, Listed, FairCopies
<1>5. FairJobs
  BY DEF Init, NoJob, FairJobs
<1>6. \A w \in Workers : wk[w] \in FairWorkers
  BY Harmless DEF Init
<1> QED BY <1>4, <1>5, <1>6 DEF BlameInv

\* Patches, locals and inboxes: each is fair after a step that puts something
\* fair into it.
LEMMA FairPatch ==
  ASSUME TypeOK, BlameInv, Guilty \subseteq Guilty',
         NEW a \in Arrivals, NEW obj \in Fair(a)',
         PatchStatus(a, obj) \/ UNCHANGED <<api, watch>>
  PROVE  \A b \in Arrivals : api'[b] \in Fair(b)' /\ watch'[b] \in Seq(Fair(b)')
<1>1. \A b \in Arrivals : api[b] \in Fair(b)' /\ watch[b] \in Seq(Fair(b)')
  BY FairLater DEF BlameInv, FairCopies
<1>2. CASE Write(a, obj)
  <2>1. Append(watch[a], obj) \in Seq(Fair(a)')
    BY <1>1
  <2>2. api' = [api EXCEPT ![a] = obj]
        /\ (watch' = watch \/ watch' = [watch EXCEPT ![a] = Append(watch[a], obj)])
    BY <1>2 DEF Write
  <2> QED BY <1>1, <2>1, <2>2 DEF TypeOK
<1>3. CASE UNCHANGED <<api, watch>>
  BY <1>1, <1>3
<1> QED BY <1>2, <1>3 DEF PatchStatus

LEMMA FairGoto ==
  ASSUME TypeOK, BlameInv, Guilty \subseteq Guilty',
         NEW w \in Workers, NEW rec \in FairWorkers', Goto(w, rec) \/ UNCHANGED wk
  PROVE  \A v \in Workers : wk'[v] \in FairWorkers'
<1>1. \A v \in Workers : wk[v] \in FairWorkers'
  BY FairLater DEF BlameInv
<1> QED BY <1>1 DEF Goto, TypeOK

LEMMA FairTake ==
  ASSUME TypeOK, BlameInv, NEW w \in Workers, NEW a \in Arrivals, Take(w, a)
  PROVE  /\ Snapshot(w, a) \in Fair(a)
         /\ \A b \in Arrivals, v \in Workers : inbox'[v][b] \in Seq(Fair(b))
<1>1. inbox[w][a] \in Seq(Fair(a)) /\ inbox[w][a] # <<>>
  BY DEF BlameInv, FairCopies, Take
<1>2. Head(inbox[w][a]) \in Fair(a) /\ Tail(inbox[w][a]) \in Seq(Fair(a))
  BY <1>1
<1>3. \A b \in Arrivals, v \in Workers : inbox'[v][b] \in Seq(Fair(b))
  BY <1>2 DEF Take, TypeOK, BlameInv, FairCopies
<1> QED BY <1>2, <1>3 DEF Snapshot

LEMMA FairReboot ==
  ASSUME TypeOK, BlameInv, Guilty' = Guilty, Reboot
  PROVE  FairCopies' /\ \A w \in Workers : wk'[w] \in FairWorkers'
<1>1. \A a \in Arrivals : Fair(a)' = Fair(a)
  BY DEF Fair
<1>2. \A a \in Arrivals : /\ api[a] \in Fair(a) /\ <<api[a]>> \in Seq(Fair(a))
                         /\ <<>> \in Seq(Fair(a))
  BY DEF BlameInv, FairCopies
<1>3. FairCopies'
  BY <1>1, <1>2 DEF Reboot, Listed, FairCopies
<1>4. FairWorkers' = FairWorkers
  BY DEF FairWorkers
<1> QED BY <1>3, <1>4, Harmless DEF Reboot

\* A step of one worker: it may take a snapshot, patch its Arrival and change
\* its locals.
LEMMA WorkerFair ==
  ASSUME TypeOK, BlameInv, Guilty \subseteq Guilty', UNCHANGED <<store, jobs>>,
         \A b \in Arrivals : api'[b] \in Fair(b)' /\ watch'[b] \in Seq(Fair(b)'),
         UNCHANGED inbox \/ \A b \in Arrivals, v \in Workers : inbox'[v][b] \in Seq(Fair(b)),
         \A v \in Workers : wk'[v] \in FairWorkers'
  PROVE  BlameInv'
<1>1. \A b \in Arrivals, v \in Workers : inbox'[v][b] \in Seq(Fair(b)')
  BY FairLater DEF BlameInv, FairCopies
<1>2. \A b \in Arrivals : store'[b] \in Fair(b)'
  BY FairLater DEF BlameInv, FairCopies
<1>3. FairCopies'
  BY <1>1, <1>2 DEF FairCopies
<1>4. FairJobs'
  BY DEF BlameInv, FairJobs
<1> QED BY <1>3, <1>4 DEF BlameInv

LEMMA PatchBranchFair ==
  ASSUME TypeOK, BlameInv, NEW w \in Workers, NEW a \in Arrivals,
         SkipArrival(w, a) \/ Unskip(w, a) \/ Retest(w, a)
  PROVE  BlameInv'
<1>1. Take(w, a) /\ UNCHANGED <<world, wk, blamed>>
  BY DEF SkipArrival, Unskip, Retest
<1>2. Guilty' = Guilty
  BY <1>1, GuiltStays
<1>3. api[a] \in Fair(a) /\ api[a] \in Arrival /\ clock \in Times
  BY DEF BlameInv, FairCopies, TypeOK
<1>4. PICK obj \in Fair(a) : PatchStatus(a, obj)
  <2>1. [api[a] EXCEPT !.phase = "Skipped", !.finalizedAt = clock] \in Fair(a)
    BY <1>3 DEF Fair, Arrival, Phases
  <2>2. [api[a] EXCEPT !.phase = "Pending"] \in Fair(a)
    BY <1>3 DEF Fair, Arrival, Phases, Waiting
  <2>3. [api[a] EXCEPT !.phase = "Pending", !.tests = NoTests] \in Fair(a)
    BY <1>3, NoTestsType, Harmless DEF Fair, Arrival, Phases, Waiting
  <2> QED BY <2>1, <2>2, <2>3 DEF SkipArrival, Unskip, Retest
<1>5. Fair(a)' = Fair(a) /\ FairWorkers' = FairWorkers
  BY <1>2 DEF Fair, FairWorkers
<1>6. \A b \in Arrivals : api'[b] \in Fair(b)' /\ watch'[b] \in Seq(Fair(b)')
  BY <1>2, <1>4, <1>5, FairPatch
<1>7. \A v \in Workers : wk'[v] \in FairWorkers'
  BY <1>1, <1>5 DEF BlameInv
<1> QED BY <1>1, <1>2, <1>6, <1>7, FairTake, WorkerFair DEF world

\* finalize promotes to the phase it is about to write.
LEMMA FairPromoted ==
  ASSUME NEW ts \in Tests, NEW ph \in Verdicts, Accuses(Promoted(ts, ph))
  PROVE  Accuses(ts) \/ ph = "Failed"
  BY DEF Accuses, Promoted

LEMMA TakeBranchFair ==
  ASSUME TypeOK, BlameInv, NEW w \in Workers, NEW a \in Arrivals,
         \/ LeaveAlone(w, a) \/ SkipReentry(w, a) \/ Wait(w, a) \/ MissTimer(w, a)
         \/ EnterDispatch(w, a) \/ EndByTimer(w, a) \/ StartPoll(w, a)
  PROVE  BlameInv'
<1>1. Take(w, a) /\ UNCHANGED <<world, api, watch, blamed>>
  BY DEF LeaveAlone, SkipReentry, Wait, MissTimer, EnterDispatch, EndByTimer,
         StartPoll, Pending, Testing
<1>2. Guilty' = Guilty /\ FairWorkers' = FairWorkers
  BY <1>1, GuiltStays DEF FairWorkers
<1> DEFINE o == Snapshot(w, a)
<1>3. /\ o \in Arrival /\ o.tests \in Tests /\ clock \in Times
      /\ Accuses(o.tests) => a \in Guilty
  BY <1>1, FairTake DEF Fair, Arrival, TypeOK
<1>4. Idle \in Worker /\ ~Accuses(Idle.tests) /\ Idle \in FairWorkers
  BY IdleType, Harmless
<1>5. ASSUME NEW rec \in FairWorkers, Goto(w, rec) \/ UNCHANGED wk
      PROVE  BlameInv'
  <2>1. \A v \in Workers : wk'[v] \in FairWorkers'
    BY <1>2, <1>5, FairGoto
  <2>2. api[a] \in Fair(a)'
    BY <1>2, FairLater DEF BlameInv, FairCopies
  <2>3. \A b \in Arrivals : api'[b] \in Fair(b)' /\ watch'[b] \in Seq(Fair(b)')
    BY <1>1, <1>2, <2>2, FairPatch
  <2> QED BY <1>1, <1>2, <2>1, <2>3, FairTake, WorkerFair DEF world
<1>6. CASE UNCHANGED wk
  BY <1>4, <1>5, <1>6
<1>7. CASE MissTimer(w, a)
  <2>1. [Idle EXCEPT !.pc = "seed", !.arr = a] \in FairWorkers
    BY <1>4 DEF FairWorkers, Worker, Pcs
  <2> QED BY <1>5, <1>7, <2>1 DEF MissTimer
<1>8. CASE EnterDispatch(w, a)
  <2>1. PICK pc \in {"gate", "publish"}, todo \in SUBSET Packs :
          Goto(w, [Idle EXCEPT !.pc = pc, !.arr = a, !.tests = o.tests, !.todo = todo])
    BY <1>8 DEF EnterDispatch
  <2>2. [Idle EXCEPT !.pc = pc, !.arr = a, !.tests = o.tests, !.todo = todo] \in FairWorkers
    BY <1>3, <1>4 DEF FairWorkers, Worker, Pcs
  <2> QED BY <1>5, <2>1, <2>2
<1>9. CASE EndByTimer(w, a)
  <2>1. PICK ph \in {"Timeout", "Passed"} :
          Goto(w, [Idle EXCEPT !.pc = "finalize", !.arr = a, !.phase = ph,
                               !.stamp = clock, !.tests = Promoted(o.tests, ph)])
    BY <1>9 DEF EndByTimer
  <2>2. ph \in Verdicts /\ ph \in Phases /\ ph # "Failed"
    BY <2>1 DEF Verdicts, Phases
  <2>3. Promoted(o.tests, ph) \in Tests
    BY <1>3, <2>2, PromotedType
  <2>4. Accuses(Promoted(o.tests, ph)) => a \in Guilty
    BY <1>3, <2>2, FairPromoted
  <2>5. [Idle EXCEPT !.pc = "finalize", !.arr = a, !.phase = ph, !.stamp = clock,
                     !.tests = Promoted(o.tests, ph)] \in FairWorkers
    BY <1>3, <1>4, <2>2, <2>3, <2>4 DEF FairWorkers, Worker, Pcs
  <2> QED BY <1>5, <2>1, <2>5
<1>10. CASE StartPoll(w, a)
  <2>1. Open(o.tests) \subseteq Packs
    BY DEF Open
  <2>2. [Idle EXCEPT !.pc = "poll", !.arr = a, !.tests = o.tests,
                     !.todo = Open(o.tests)] \in FairWorkers
    BY <1>3, <1>4, <2>1 DEF FairWorkers, Worker, Pcs
  <2> QED BY <1>5, <1>10, <2>2 DEF StartPoll
<1> QED BY <1>6, <1>7, <1>8, <1>9, <1>10 DEF LeaveAlone, SkipReentry, Wait

\* A step of worker w from its locals.
LEMMA StepFair ==
  ASSUME TypeOK, BlameInv, Guilty' = Guilty, UNCHANGED <<world, inbox>>,
         NEW w \in Workers, NEW rec \in FairWorkers, Goto(w, rec),
         NEW obj \in Fair(wk[w].arr),
         PatchStatus(wk[w].arr, obj) \/ UNCHANGED <<api, watch>>
  PROVE  BlameInv'
<1>1. wk[w].arr \in Arrivals
  BY DEF TypeOK, Worker
<1>2. FairWorkers' = FairWorkers /\ \A c \in Arrivals : Fair(c)' = Fair(c)
  BY DEF FairWorkers, Fair
<1>3. PICK c \in Arrivals : c = wk[w].arr
  BY <1>1
<1>4. \A b \in Arrivals : api'[b] \in Fair(b)' /\ watch'[b] \in Seq(Fair(b)')
  <2>1. obj \in Fair(c)'
    BY <1>2, <1>3
  <2>2. PatchStatus(c, obj) \/ UNCHANGED <<api, watch>>
    BY <1>3
  <2> QED BY <2>1, <2>2, FairPatch
<1>5. \A v \in Workers : wk'[v] \in FairWorkers'
  BY <1>2, FairGoto
<1> QED BY <1>4, <1>5, WorkerFair DEF world

\* A step of worker w that changes a Job, or that found its Arrival guilty.
LEMMA BlamingFair ==
  ASSUME TypeOK, BlameInv, Guilty \subseteq Guilty',
         UNCHANGED <<store, inbox, api, watch>>, FairJobs',
         \A v \in Workers : wk'[v] \in FairWorkers'
  PROVE  BlameInv'
<1>1. \A b \in Arrivals : /\ api'[b] \in Fair(b)' /\ store'[b] \in Fair(b)'
                         /\ watch'[b] \in Seq(Fair(b)')
                         /\ \A v \in Workers : inbox'[v][b] \in Seq(Fair(b)')
  BY FairLater DEF BlameInv, FairCopies
<1> QED BY <1>1 DEF BlameInv, FairCopies

\* Whatever a worker says of a guilty Arrival is fair.
LEMMA FairAccusation ==
  ASSUME TypeOK, NEW w \in Workers, wk[w].arr \in Guilty', NEW ph \in Verdicts
  PROVE  /\ [wk[w] EXCEPT !.pc = "finalize", !.tests = Promoted(wk[w].tests, ph),
                          !.todo = {}, !.phase = ph, !.stamp = clock] \in FairWorkers'
         /\ [wk[w] EXCEPT !.pc = "evidence"] \in FairWorkers'
<1>1. wk[w] \in Worker /\ wk[w].tests \in Tests /\ clock \in Times
  BY DEF TypeOK, Worker
<1>2. Promoted(wk[w].tests, ph) \in Tests /\ ph \in Phases
  BY <1>1, PromotedType DEF Phases, Verdicts
<1> DEFINE fin == [wk[w] EXCEPT !.pc = "finalize", !.tests = Promoted(wk[w].tests, ph),
                                !.todo = {}, !.phase = ph, !.stamp = clock]
           ev  == [wk[w] EXCEPT !.pc = "evidence"]
<1>3. fin \in Worker /\ fin.arr = wk[w].arr
  BY <1>1, <1>2 DEF Worker, Pcs
<1>4. ev \in Worker /\ ev.arr = wk[w].arr
  BY <1>1 DEF Worker, Pcs
<1>5. \A r \in Worker : r.arr \in Guilty' => r \in FairWorkers'
  BY DEF FairWorkers
<1> QED BY <1>3, <1>4, <1>5

\* Dispatching never makes up a failed Job.
LEMMA FairSlots ==
  ASSUME NEW s \in Slot,
         NEW t \in Dispatched(s) \cup DispatchFailed(s) \cup Panicked(s),
         t.st = "failed"
  PROVE  s.st = "failed"
  BY DEF Slot, Dispatched, DispatchFailed, Panicked, FreshJob, NoJob, Deleting, Running

LEMMA FairSetJob ==
  ASSUME TypeOK, BlameInv, Guilty \subseteq Guilty',
         NEW a \in Arrivals, NEW p \in Packs,
         NEW s \in Dispatched(jobs[a][p]) \cup DispatchFailed(jobs[a][p])
                     \cup Panicked(jobs[a][p]),
         SetJob(a, p, s)
  PROVE  FairJobs'
<1>1. jobs[a][p] \in Slot
  BY DEF TypeOK
<1>2. s.st = "failed" => jobs[a][p].st = "failed"
  BY <1>1, FairSlots
<1>3. \A b \in Arrivals, q \in Packs :
        jobs'[b][q].st = "failed" => jobs[b][q].st = "failed"
  BY <1>2 DEF SetJob, TypeOK
<1> QED BY <1>3 DEF BlameInv, FairJobs

LEMMA DispatchFair ==
  ASSUME TypeOK, BlameInv, NEW w \in Workers,
         \/ GatePasses(w) \/ GateFails(w) \/ PatchEvidence(w) \/ PublishTesting(w)
         \/ \E p \in Packs : \/ DispatchPack(w, p) \/ DispatchFails(w, p)
                             \/ DispatchPanics(w, p) \/ DispatchInterrupted(w, p)
  PROVE  BlameInv'
<1> DEFINE a == wk[w].arr
<1>1. /\ wk[w] \in Worker /\ wk[w] \in FairWorkers /\ a \in Arrivals
      /\ wk[w].todo \subseteq Packs /\ api[a] \in Arrival /\ api[a] \in Fair(a)
  BY DEF TypeOK, Worker, BlameInv, FairCopies
<1>2. CASE GatePasses(w)
  <2>1. UNCHANGED <<world, inbox, api, watch, blamed>> /\ At(w, "gate")
    BY <1>2 DEF GatePasses
  <2>2. Goto(w, [wk[w] EXCEPT !.pc = "dispatch"])
    BY <1>2 DEF GatePasses, Jump
  <2>3. [wk[w] EXCEPT !.pc = "dispatch"] \in FairWorkers
    BY <1>1, <2>1 DEF FairWorkers, Worker, Pcs, At
  <2> QED BY <1>1, <2>1, <2>2, <2>3, GuiltStays, StepFair
<1>3. CASE GateFails(w)
  <2>1. UNCHANGED <<world, inbox, api, watch>>
    BY <1>3 DEF GateFails
  <2>2. Guilty' = Guilty \cup {a}
    BY <1>1, <1>3, GuiltComes DEF GateFails
  <2>3. PICK rec \in FairWorkers' : Goto(w, rec)
    BY <1>3, <2>2, FairAccusation DEF GateFails, StartFinalize, Verdicts
  <2>4. \A v \in Workers : wk'[v] \in FairWorkers'
    BY <2>2, <2>3, FairGoto
  <2>5. FairJobs'
    BY <2>1, <2>2 DEF world, BlameInv, FairJobs
  <2> QED BY <2>1, <2>2, <2>4, <2>5, BlamingFair DEF world
<1>4. CASE PatchEvidence(w)
  <2> DEFINE obj == [api[a] EXCEPT !.tests = DispatchEvidence(wk[w].todo)]
  <2>1. /\ UNCHANGED <<world, inbox, blamed>> /\ PatchStatus(a, obj)
        /\ a \in Guilty /\ Guilty' = Guilty
    BY <1>1, <1>4, GuiltStays DEF PatchEvidence, At, FairWorkers
  <2>2. PICK rec \in FairWorkers' : Goto(w, rec)
    BY <1>4, <2>1, FairAccusation DEF PatchEvidence, StartFinalize, Verdicts
  <2>3. DispatchEvidence(wk[w].todo) \in Tests
    BY DEF DispatchEvidence, Tests, Status, Unsettled
  <2>4. obj \in Fair(a)
    BY <1>1, <2>1, <2>3 DEF Fair, Arrival
  <2>5. FairWorkers' = FairWorkers
    BY <2>1 DEF FairWorkers
  <2> QED BY <2>1, <2>2, <2>4, <2>5, StepFair
<1>5. CASE PublishTesting(w)
  <2> DEFINE obj == [api[a] EXCEPT !.phase = "Testing", !.tests = AllOf("Running")]
  <2>1. UNCHANGED <<world, inbox, blamed>> /\ PatchStatus(a, obj) /\ Goto(w, Idle)
    BY <1>5 DEF PublishTesting
  <2>2. AllOf("Running") \in Tests /\ ~Accuses(AllOf("Running"))
    BY DEF AllOf, Tests, Status, Unsettled, Accuses
  <2>3. obj \in Fair(a)
    BY <1>1, <2>2 DEF Fair, Arrival, Phases
  <2> QED BY <2>1, <2>3, GuiltStays, Harmless, StepFair
<1>6. ASSUME NEW p \in Packs, DispatchPack(w, p) PROVE BlameInv'
  <2>1. UNCHANGED <<store, inbox, api, watch>> /\ Guilty' = Guilty
    BY <1>6, GuiltStays DEF DispatchPack
  <2>2. PICK pc \in {"dispatch", "publish"} :
          Goto(w, [wk[w] EXCEPT !.todo = wk[w].todo \ {p}, !.pc = pc])
    BY <1>1, <1>6 DEF DispatchPack, At, Worker
  <2>3. [wk[w] EXCEPT !.todo = wk[w].todo \ {p}, !.pc = pc] \in FairWorkers'
    BY <1>1, <1>6, <2>1 DEF FairWorkers, Worker, Pcs, DispatchPack, At
  <2>4. \A v \in Workers : wk'[v] \in FairWorkers'
    BY <2>1, <2>2, <2>3, FairGoto
  <2>5. FairJobs'
    BY <1>1, <1>6, <2>1, FairSetJob DEF DispatchPack
  <2> QED BY <2>1, <2>4, <2>5, BlamingFair
<1>7. ASSUME NEW p \in Packs, DispatchFails(w, p) PROVE BlameInv'
  <2>1. UNCHANGED <<store, inbox, api, watch>>
    BY <1>7 DEF DispatchFails
  <2>2. Guilty' = Guilty \cup {a}
    BY <1>1, <1>7, GuiltComes DEF DispatchFails
  <2>3. \A v \in Workers : wk'[v] \in FairWorkers'
    BY <1>7, <2>2, FairAccusation, FairGoto DEF DispatchFails, Jump, Verdicts
  <2>4. FairJobs'
    BY <1>1, <1>7, <2>2, FairSetJob DEF DispatchFails
  <2> QED BY <2>1, <2>2, <2>3, <2>4, BlamingFair
<1>8. ASSUME NEW p \in Packs, DispatchPanics(w, p) \/ DispatchInterrupted(w, p)
      PROVE  BlameInv'
  <2>1. Reboot /\ Guilty' = Guilty
    BY <1>8, GuiltStays DEF DispatchPanics, DispatchInterrupted
  <2>2. FairJobs'
    BY <1>1, <1>8, <2>1, FairSetJob DEF DispatchPanics, DispatchInterrupted
  <2> QED BY <2>1, <2>2, FairReboot DEF BlameInv
<1> QED BY <1>2, <1>3, <1>4, <1>5, <1>6, <1>7, <1>8

\* A poll says "Failed" of a pack only when its Job has failed.
LEMMA PolledFair ==
  ASSUME TypeOK, BlameInv, NEW w \in Workers, NEW p \in Packs, wk[w].pc = "poll"
  PROVE  [wk[w] EXCEPT !.todo = @ \ {p},
            !.tests[p] = Polled(@, jobs[wk[w].arr][p])] \in FairWorkers
<1> DEFINE a  == wk[w].arr
           ts == wk[w].tests
           s  == Polled(ts[p], jobs[a][p])
<1>1. wk[w] \in Worker /\ wk[w] \in FairWorkers /\ a \in Arrivals /\ ts \in Tests
  BY DEF TypeOK, BlameInv, Worker
<1>2. s \in Status /\ (s = "Failed" => ts[p] = "Failed" \/ a \in Guilty)
  BY <1>1 DEF Polled, Status, Verdicts, Tests, BlameInv, FairJobs
<1>3. [ts EXCEPT ![p] = s] \in Tests
  BY <1>1, <1>2 DEF Tests
<1>4. Accuses([ts EXCEPT ![p] = s]) => Accuses(ts) \/ a \in Guilty
  BY <1>1, <1>2 DEF Accuses, Tests
<1> DEFINE rec == [wk[w] EXCEPT !.todo = @ \ {p}, !.tests = [ts EXCEPT ![p] = s]]
<1>5. rec \in Worker /\ rec.arr = a /\ rec.tests = [ts EXCEPT ![p] = s] /\ rec.pc = "poll"
  BY <1>1, <1>3 DEF Worker
<1>6. rec \in FairWorkers
  BY <1>1, <1>4, <1>5 DEF FairWorkers
<1>7. rec = [wk[w] EXCEPT !.todo = @ \ {p}, !.tests[p] = Polled(@, jobs[wk[w].arr][p])]
  BY <1>1 DEF Worker
<1> QED BY <1>6, <1>7

LEMMA PollFair ==
  ASSUME TypeOK, BlameInv, NEW w \in Workers,
         \/ SeedTimer(w) \/ PatchProgress(w) \/ AllSettled(w) \/ RecordVerdict(w)
         \/ DispatchForensics(w) \/ \E p \in Packs : PollPack(w, p)
  PROVE  BlameInv'
<1> DEFINE a  == wk[w].arr
           ts == wk[w].tests
<1>1. /\ wk[w] \in Worker /\ wk[w] \in FairWorkers /\ a \in Arrivals /\ ts \in Tests
      /\ Accuses(ts) => a \in Guilty
      /\ api[a] \in Arrival /\ api[a] \in Fair(a) /\ clock \in Times
  BY DEF TypeOK, Worker, BlameInv, FairCopies, FairWorkers
<1>2. UNCHANGED <<world, inbox>> /\ Guilty' = Guilty
  BY GuiltStays
  DEF SeedTimer, PatchProgress, AllSettled, RecordVerdict, DispatchForensics, PollPack
<1>3. CASE SeedTimer(w)
  BY <1>1, <1>2, <1>3, Harmless, StepFair DEF SeedTimer
<1>4. CASE PatchProgress(w)
  <2>1. [api[a] EXCEPT !.tests = ts] \in Fair(a)
    BY <1>1 DEF Fair, Arrival
  <2> QED BY <1>2, <1>4, <2>1, Harmless, StepFair DEF PatchProgress
<1>5. CASE AllSettled(w)
  <2> DEFINE ph  == IF \E p \in Packs : ts[p] = "Failed" THEN "Failed" ELSE "Passed"
             rec == [wk[w] EXCEPT !.pc = "record", !.phase = ph]
  <2>1. Goto(w, rec) /\ UNCHANGED <<api, watch>>
    BY <1>5 DEF AllSettled
  <2>2. ph = "Failed" => a \in Guilty
    BY <1>1 DEF Accuses
  <2>3. rec \in Worker /\ rec.pc = "record" /\ rec.arr = a /\ rec.tests = ts /\ rec.phase = ph
    BY <1>1 DEF Worker, Pcs, Phases, Verdicts
  <2>4. rec \in FairWorkers
    BY <1>1, <2>2, <2>3 DEF FairWorkers
  <2> QED BY <1>1, <1>2, <2>1, <2>4, StepFair
<1>6. CASE RecordVerdict(w)
  <2> DEFINE next == [Idle EXCEPT !.pc = "forensics", !.arr = a]
             rec  == IF ForensicsOn THEN next ELSE Idle
             obj  == [api[a] EXCEPT !.phase = wk[w].phase, !.tests = ts,
                                    !.finalizedAt = clock]
  <2>1. Goto(w, rec) /\ wk[w].pc = "record" /\ PatchStatus(a, obj)
    BY <1>6 DEF RecordVerdict, At
  <2>2. next \in Worker /\ next.pc = "forensics" /\ next.tests = Idle.tests
    BY <1>1, IdleType DEF Worker, Pcs
  <2>3. next \in FairWorkers
    BY <2>2, Harmless DEF FairWorkers
  <2>4. rec \in FairWorkers
    BY <2>3, Harmless
  <2>5. wk[w].phase \in Phases /\ (wk[w].phase = "Failed" => a \in Guilty)
    BY <1>1, <2>1 DEF FairWorkers, Worker
  <2>6. obj \in Fair(a)
    BY <1>1, <2>5 DEF Fair, Arrival
  <2> QED BY <1>2, <2>1, <2>4, <2>6, StepFair
<1>7. CASE DispatchForensics(w)
  <2>1. [api[a] EXCEPT !.forensics = TRUE] \in Fair(a)
    BY <1>1 DEF Fair, Arrival
  <2> QED BY <1>1, <1>2, <1>7, <2>1, Harmless, StepFair DEF DispatchForensics
<1>8. ASSUME NEW p \in Packs, PollPack(w, p) PROVE BlameInv'
  <2>1. wk[w].pc = "poll" /\ UNCHANGED <<api, watch>>
    BY <1>8 DEF PollPack, At
  <2>2. [wk[w] EXCEPT !.todo = @ \ {p}] \in FairWorkers
    BY <1>1, <2>1 DEF FairWorkers, Worker
  <2>3. PICK rec \in FairWorkers : Goto(w, rec)
    BY <1>8, <2>1, <2>2, PolledFair DEF PollPack
  <2> QED BY <1>1, <1>2, <2>1, <2>3, StepFair
<1> QED BY <1>3, <1>4, <1>5, <1>6, <1>7, <1>8

LEMMA FinalizeFair ==
  ASSUME TypeOK, BlameInv, NEW w \in Workers, FinalizeForgets(w) \/ FinalizeCommits(w)
  PROVE  BlameInv'
<1> DEFINE a  == wk[w].arr
           ts == wk[w].tests
<1>1. /\ wk[w] \in Worker /\ a \in Arrivals /\ ts \in Tests
      /\ Accuses(ts) \/ wk[w].phase = "Failed" => a \in Guilty
      /\ wk[w].phase \in Phases /\ wk[w].stamp \in Times
      /\ api[a] \in Arrival /\ api[a] \in Fair(a)
  BY DEF TypeOK, Worker, BlameInv, FairCopies, FairWorkers, FinalizeForgets,
         FinalizeCommits, At
<1>2. UNCHANGED <<world, inbox>> /\ Guilty' = Guilty
  BY GuiltStays DEF FinalizeForgets, FinalizeCommits
<1>3. CASE FinalizeForgets(w)
  <2>1. [wk[w] EXCEPT !.pc = "commit"] \in FairWorkers
    BY <1>1 DEF FairWorkers, Worker, Pcs
  <2> QED BY <1>1, <1>2, <1>3, <2>1, StepFair DEF FinalizeForgets, Jump
<1>4. CASE FinalizeCommits(w)
  <2>1. [api[a] EXCEPT !.phase = wk[w].phase, !.tests = ts,
                       !.finalizedAt = wk[w].stamp] \in Fair(a)
    BY <1>1 DEF Fair, Arrival
  <2> QED BY <1>2, <1>4, <2>1, Harmless, StepFair DEF FinalizeCommits
<1> QED BY <1>3, <1>4

\* Nobody is found guilty and only copies move.
LEMMA CopiesMove ==
  ASSUME TypeOK, BlameInv, UNCHANGED <<wk, jobs, blamed>>,
         \A b \in Arrivals : /\ api'[b] \in Fair(b) /\ store'[b] \in Fair(b)
                            /\ watch'[b] \in Seq(Fair(b))
                            /\ \A v \in Workers : inbox'[v][b] \in Seq(Fair(b))
  PROVE  BlameInv'
<1>1. Guilty' = Guilty
  BY GuiltStays
<1>2. FairWorkers' = FairWorkers /\ \A b \in Arrivals : Fair(b)' = Fair(b)
  BY <1>1 DEF FairWorkers, Fair
<1>3. FairCopies'
  BY <1>2 DEF FairCopies
<1>4. FairJobs'
  BY <1>1 DEF BlameInv, FairJobs
<1> QED BY <1>2, <1>3, <1>4 DEF BlameInv

\* The informer, the ticker and the watcher pass copies on.
LEMMA SurroundingFair ==
  ASSUME TypeOK, BlameInv,
         \/ TickerLists \/ Restart \/ Tick
         \/ \E a \in Arrivals : Deliver(a) \/ Age(a) \/ Upsert(a)
  PROVE  BlameInv'
<1>0. \A b \in Arrivals : /\ api[b] \in Fair(b) /\ store[b] \in Fair(b)
                         /\ watch[b] \in Seq(Fair(b))
                         /\ \A v \in Workers : inbox[v][b] \in Seq(Fair(b))
  BY DEF BlameInv, FairCopies
<1>1. CASE TickerLists
  <2>1. UNCHANGED <<api, watch, store, wk, jobs, blamed>>
    BY <1>1 DEF TickerLists
  <2>2. \A a \in Arrivals : <<store[a]>> \in Seq(Fair(a))
    BY <1>0
  <2>3. \A a \in Arrivals, v \in Workers : inbox'[v][a] \in Seq(Fair(a))
    BY <1>0, <1>1, <2>2 DEF TickerLists, TypeOK
  <2> QED BY <1>0, <2>1, <2>3, CopiesMove
<1>2. CASE Restart
  <2>1. Reboot /\ UNCHANGED jobs /\ Guilty' = Guilty
    BY <1>2, GuiltStays DEF Restart
  <2>2. FairJobs'
    BY <2>1 DEF BlameInv, FairJobs
  <2> QED BY <2>1, <2>2, FairReboot DEF BlameInv
<1>3. CASE Tick \/ \E a \in Arrivals : Age(a)
  <2>1. UNCHANGED <<api, watch, store, inbox, wk, jobs, blamed>>
    BY <1>3 DEF Tick, Age
  <2> QED BY <1>0, <2>1, CopiesMove
<1>4. ASSUME NEW a \in Arrivals, Deliver(a) PROVE BlameInv'
  <2>1. UNCHANGED <<api, wk, jobs, blamed>>
    BY <1>4 DEF Deliver
  <2>2. watch[a] \in Seq(Fair(a)) /\ watch[a] # <<>>
    BY <1>0, <1>4 DEF Deliver
  <2>3. Head(watch[a]) \in Fair(a) /\ Tail(watch[a]) \in Seq(Fair(a))
    BY <2>2
  <2>4. \A b \in Arrivals : watch'[b] \in Seq(Fair(b)) /\ store'[b] \in Fair(b)
    BY <1>0, <1>4, <2>3 DEF Deliver, TypeOK
  <2>5. \A v \in Workers : Append(inbox[v][a], Head(watch[a])) \in Seq(Fair(a))
    BY <1>0, <2>3
  <2>6. \A b \in Arrivals, v \in Workers : inbox'[v][b] \in Seq(Fair(b))
    BY <1>0, <1>4, <2>5 DEF Deliver, TypeOK
  <2> QED BY <1>0, <2>1, <2>4, <2>6, CopiesMove
<1>5. ASSUME NEW a \in Arrivals, Upsert(a) PROVE BlameInv'
  <2>1. UNCHANGED <<store, inbox, wk, jobs, blamed>>
    BY <1>5 DEF Upsert
  <2>2. PICK t \in 1..clock, d \in {api[a].declared, TRUE} :
          Write(a, [api[a] EXCEPT !.deployedAt = t, !.declared = d])
    BY <1>5 DEF Upsert
  <2>3. t \in Times
    <3>1. MaxClock \in Nat /\ clock \in 0..MaxClock
      BY ControllerAssumption DEF TypeOK, Times
    <3> QED BY <3>1 DEF Times
  <2>4. api[a] \in Arrival
    BY DEF TypeOK
  <2> DEFINE obj == [api[a] EXCEPT !.deployedAt = t, !.declared = d]
  <2>5. obj \in Fair(a)
    BY <1>0, <2>3, <2>4 DEF Fair, Arrival
  <2>6. Append(watch[a], obj) \in Seq(Fair(a))
    BY <1>0, <2>5
  <2>7. \A b \in Arrivals : api'[b] \in Fair(b) /\ watch'[b] \in Seq(Fair(b))
    BY <1>0, <2>2, <2>5, <2>6 DEF Write, TypeOK
  <2> QED BY <1>0, <2>1, <2>7, CopiesMove
<1> QED BY <1>1, <1>2, <1>3, <1>4, <1>5

LEMMA ClusterFair ==
  ASSUME TypeOK, BlameInv, NEW a \in Arrivals, NEW p \in Packs, Cluster(a, p)
  PROVE  BlameInv'
<1>1. UNCHANGED <<api, watch, store, inbox, wk>> /\ jobs[a][p] \in Slot
  BY DEF Cluster, TypeOK
<1>2. CASE JobFails(a, p)
  <2>1. Guilty' = Guilty \cup {a}
    BY <1>2, GuiltComes DEF JobFails
  <2>2. \A b \in Arrivals, q \in Packs :
          b # a => jobs'[b][q] = jobs[b][q]
    BY <1>2 DEF JobFails, SetJob, TypeOK
  <2>3. FairJobs'
    BY <2>1, <2>2 DEF BlameInv, FairJobs
  <2>4. \A v \in Workers : wk'[v] \in FairWorkers'
    BY <1>1, <2>1, FairLater DEF BlameInv
  <2> QED BY <1>1, <2>1, <2>3, <2>4, BlamingFair
<1>3. CASE JobRuns(a, p) \/ JobPasses(a, p) \/ JobExpires(a, p) \/ JobVanishes(a, p)
  <2>1. Guilty' = Guilty
    BY <1>3, GuiltStays DEF JobRuns, JobPasses, JobExpires, JobVanishes
  <2>2. PICK s : SetJob(a, p, s) /\ (s.st = "failed" => jobs[a][p].st = "failed")
    <3>1. /\ [FreshJob EXCEPT !.st = "active"].st # "failed" /\ NoJob.st # "failed"
          /\ [jobs[a][p] EXCEPT !.st = "passed"].st # "failed"
          /\ Deleting(jobs[a][p]).st = jobs[a][p].st
      BY <1>1 DEF FreshJob, NoJob, Deleting, Slot
    <3> QED BY <1>3, <3>1 DEF JobRuns, JobPasses, JobExpires, JobVanishes
  <2>3. FairJobs'
    BY <2>1, <2>2 DEF SetJob, TypeOK, BlameInv, FairJobs
  <2>4. \A v \in Workers : wk'[v] \in FairWorkers'
    BY <1>1, <2>1, FairLater DEF BlameInv
  <2> QED BY <1>1, <2>1, <2>3, <2>4, BlamingFair
<1> QED BY <1>2, <1>3 DEF Cluster

LEMMA NextFair == TypeOK /\ BlameInv /\ [Next]_vars => BlameInv'
<1> SUFFICES ASSUME TypeOK, BlameInv, [Next]_vars PROVE BlameInv'
  OBVIOUS
<1>1. ASSUME NEW w \in Workers, Work(w) PROVE BlameInv'
  BY <1>1, PatchBranchFair, TakeBranchFair, DispatchFair, PollFair, FinalizeFair DEF Work
<1>2. CASE UNCHANGED vars
  <2>1. UNCHANGED <<api, watch, store, inbox, wk, jobs, blamed>>
    BY <1>2 DEF vars
  <2> QED BY <2>1, CopiesMove DEF BlameInv, FairCopies
<1> QED BY <1>1, <1>2, SurroundingFair, ClusterFair DEF Next

\* An Arrival is Failed, or has a Failed entry, only when its rollout, its
\* dispatch or one of its Jobs really failed: stub or real, for any number of
\* Arrivals, packs, lost patches, restarts and upserts and any staleness.
THEOREM FailuresAreEarned == Spec => []FailedIsEarned
<1>1. Init => TypeOK /\ BlameInv
  BY InitType, InitBlame
<1>2. TypeOK /\ BlameInv /\ [Next]_vars => (TypeOK /\ BlameInv)'
  BY NextTypes, NextFair
<1>3. BlameInv => FailedIsEarned
  BY DEF BlameInv, FairCopies, Fair, Accuses, Guilty, FailedIsEarned
<1> QED BY <1>1, <1>2, <1>3, PTL DEF Spec

-----------------------------------------------------------------------------
(* What keeps .status within ArrivalLifecycle: that a goroutine acts only on a *)
(* snapshot the API server still agrees with, and while the other one is not   *)
(* at the same Arrival.  Then patches may get lost, requests fail, the process *)
(* restart and the informer lag as they like.  The reason is that nobody       *)
(* changes what an engaged goroutine has read.                                 *)

\* Every copy of an Arrival carries a rollout that there was.
RolledOut(a) == {o \in Arrival : o.deployedAt \in rollouts[a]}

RolledCopies ==
    \A a \in Arrivals : /\ api[a] \in RolledOut(a)
                        /\ store[a] \in RolledOut(a)
                        /\ watch[a] \in Seq(RolledOut(a))
                        /\ \A w \in Workers : inbox[w][a] \in Seq(RolledOut(a))

\* The entries of status.tests before a verdict.  The stub has no failures.
Consistent(u) ==
    /\ u.phase \in Waiting \cup {"Skipped"} =>
          \A p \in Packs : u.tests[p] \in {"none", "Pending", "Running"}
    /\ u.phase = "Testing" =>
          \A p \in Packs : /\ u.tests[p] \in {"Running", "Passed", "Failed"}
                           /\ u.tests[p] = "Failed" => RealDispatch

\* A verdict on its way, and where it comes from: a failed gate or dispatch,
\* the wall-clock ceiling, the stub.
Ending(r, u) ==
    \/ r.phase = "Failed" /\ u.phase \in Waiting /\ r.tests \in [Packs -> {"none", "Failed"}]
    \/ r.phase = "Timeout" /\ u.phase = "Testing" /\ r.tests = Promoted(u.tests, "Timeout")
    \/ /\ r.phase = "Passed" /\ u.phase = "Testing" /\ ~RealDispatch
       /\ r.tests = Promoted(u.tests, "Passed")

\* What the locals r know of the Arrival u they are about, at time now.
Knows(r, u, now) ==
    /\ r.pc \in {"gate", "dispatch", "publish", "evidence"} =>
          u.phase \in Waiting /\ r.tests = u.tests
    /\ r.pc \in {"poll", "record"} => u.phase = "Testing" /\ Lifecycle!Extends(u.tests, r.tests)
    /\ r.pc = "poll" => RealDispatch /\ r.tests \in [Packs -> {"Running", "Passed", "Failed"}]
    /\ r.pc = "record" => /\ r.tests \in [Packs -> {"Passed", "Failed"}]
                          /\ r.phase = Lifecycle!Verdict(r.tests)
    /\ r.pc \in {"finalize", "commit"} => r.stamp \in 1..now /\ Ending(r, u)

NobodyElse(w, a) == \A v \in Workers \ {w} : ~Engaged(v, a)

InHand ==
    \A w \in Workers, a \in Arrivals :
        Engaged(w, a) => Knows(wk[w], api[a], clock) /\ NobodyElse(w, a)

TurnInv == RolledCopies /\ (\A a \in Arrivals : Consistent(api[a])) /\ InHand

LEMMA InitTurn == Init => TurnInv
<1> SUFFICES ASSUME Init PROVE TurnInv
  OBVIOUS
<1>1. \A a \in Arrivals : /\ api[a] \in Arrival /\ api[a].deployedAt = 1
                          /\ api[a].phase = "New" /\ api[a].tests = NoTests
                          /\ rollouts[a] = {1}
  <2>1. \A a \in Arrivals : api[a] \in Arrival
    BY InitType DEF TypeOK
  <2> QED BY <2>1 DEF Init
<1>2. \A a \in Arrivals : api[a] \in RolledOut(a)
  BY <1>1 DEF RolledOut
<1>3. \A a \in Arrivals : <<api[a]>> \in Seq(RolledOut(a)) /\ <<>> \in Seq(RolledOut(a))
  BY <1>2
<1>4. RolledCopies
  BY <1>2, <1>3 DEF Init, Listed, RolledCopies
<1>5. \A a \in Arrivals : Consistent(api[a])
  <2>1. \A p \in Packs : NoTests[p] = "none"
    BY DEF NoTests, AllOf
  <2> QED BY <1>1, <2>1 DEF Consistent, Waiting
<1>6. \A w \in Workers, a \in Arrivals : ~Engaged(w, a)
  BY DEF Init, Idle, Engaged
<1> QED BY <1>4, <1>5, <1>6 DEF TurnInv, InHand

\* Rollouts are never forgotten, so copies that only move stay true.
LEMMA RolledMove ==
  ASSUME RolledCopies, NEW a \in Arrivals, rollouts[a] \subseteq rollouts'[a]
  PROVE  /\ RolledOut(a) \subseteq RolledOut(a)'
         /\ Seq(RolledOut(a)) \subseteq Seq(RolledOut(a)')
<1>1. RolledOut(a) \subseteq RolledOut(a)'
  BY DEF RolledOut
<1> QED BY <1>1

\* The API server's copy and the watch, after a write or without one.
LEMMA RolledWrite ==
  ASSUME TypeOK, RolledCopies, \A b \in Arrivals : rollouts[b] \subseteq rollouts'[b],
         NEW a \in Arrivals, NEW obj \in Arrival, obj.deployedAt \in rollouts'[a],
         UNCHANGED <<api, watch>> \/ Write(a, obj)
  PROVE  \A b \in Arrivals : api'[b] \in RolledOut(b)' /\ watch'[b] \in Seq(RolledOut(b)')
<1>1. \A b \in Arrivals : api[b] \in RolledOut(b)' /\ watch[b] \in Seq(RolledOut(b)')
  BY RolledMove DEF RolledCopies
<1>2. obj \in RolledOut(a)'
  BY DEF RolledOut
<1>3. CASE Write(a, obj)
  <2>1. Append(watch[a], obj) \in Seq(RolledOut(a)')
    BY <1>1, <1>2
  <2>2. api' = [api EXCEPT ![a] = obj]
        /\ (watch' = watch \/ watch' = [watch EXCEPT ![a] = Append(watch[a], obj)])
    BY <1>3 DEF Write
  <2> QED BY <1>1, <1>2, <2>1, <2>2 DEF TypeOK
<1>4. CASE UNCHANGED <<api, watch>>
  BY <1>1, <1>4
<1> QED BY <1>3, <1>4

LEMMA RolledTake ==
  ASSUME TypeOK, RolledCopies, NEW w \in Workers, NEW a \in Arrivals, Take(w, a)
  PROVE  /\ Snapshot(w, a) \in RolledOut(a)
         /\ \A b \in Arrivals, v \in Workers : inbox'[v][b] \in Seq(RolledOut(b))
<1>1. inbox[w][a] \in Seq(RolledOut(a)) /\ inbox[w][a] # <<>>
  BY DEF RolledCopies, Take
<1>2. Head(inbox[w][a]) \in RolledOut(a) /\ Tail(inbox[w][a]) \in Seq(RolledOut(a))
  BY <1>1
<1>3. \A b \in Arrivals, v \in Workers : inbox'[v][b] \in Seq(RolledOut(b))
  BY <1>2 DEF Take, TypeOK, RolledCopies
<1> QED BY <1>2, <1>3 DEF Snapshot

\* A step of w about a: it may take a snapshot, patch a and change its locals.
StepAbout(w, a) ==
    /\ UNCHANGED <<clock, store, rollouts>>
    /\ \/ UNCHANGED <<api, watch>>
       \/ \E obj \in Arrival : obj.deployedAt = api[a].deployedAt /\ Write(a, obj)
    /\ UNCHANGED inbox \/ \E b \in Arrivals : Take(w, b)
    /\ \A v \in Workers \ {w} : wk'[v] = wk[v]

SameStatus(a) ==
    /\ api'[a].phase = api[a].phase
    /\ api'[a].tests = api[a].tests

\* ... and what is to be shown of it.
GoodStep(w, a) ==
    /\ Consistent(api'[a])
    /\ SameStatus(a) \/ NobodyElse(w, a)
    /\ \A b \in Arrivals : Engaged(w, b)' =>
          b = a /\ NobodyElse(w, a) /\ Knows(wk'[w], api'[a], clock)

LEMMA TurnStep ==
  ASSUME TypeOK, TurnInv, NEW w \in Workers, NEW a \in Arrivals, StepAbout(w, a), GoodStep(w, a)
  PROVE  TurnInv'
<1>1. UNCHANGED <<clock, store, rollouts>> /\ \A v \in Workers \ {w} : wk'[v] = wk[v]
  BY DEF StepAbout
<1>2. PICK obj \in Arrival : /\ obj.deployedAt = api[a].deployedAt
                             /\ UNCHANGED <<api, watch>> \/ Write(a, obj)
  BY DEF StepAbout, TypeOK
<1>3. \A b \in Arrivals \ {a} : api'[b] = api[b]
  BY <1>2 DEF Write, TypeOK
<1>4. RolledCopies'
  <2>1. api[a].deployedAt \in rollouts[a]
    BY DEF TurnInv, RolledCopies, RolledOut
  <2>2. \A b \in Arrivals : api'[b] \in RolledOut(b)' /\ watch'[b] \in Seq(RolledOut(b)')
    BY <1>1, <1>2, <2>1, RolledWrite DEF TurnInv
  <2>3. \A b \in Arrivals : RolledOut(b)' = RolledOut(b)
    BY <1>1 DEF RolledOut
  <2>4. \A b \in Arrivals, v \in Workers : inbox'[v][b] \in Seq(RolledOut(b))
    BY RolledTake DEF StepAbout, TurnInv, RolledCopies
  <2> QED BY <1>1, <2>2, <2>3, <2>4 DEF TurnInv, RolledCopies
<1>5. \A b \in Arrivals : Consistent(api'[b])
  BY <1>3 DEF GoodStep, TurnInv
<1>6. ASSUME NEW v \in Workers, NEW b \in Arrivals, Engaged(v, b)'
      PROVE  (Knows(wk[v], api[b], clock) /\ NobodyElse(v, b))'
  <2>1. CASE v = w
    <3>1. b = a /\ NobodyElse(w, a) /\ Knows(wk'[w], api'[a], clock)
      BY <1>6, <2>1 DEF GoodStep
    <3>2. NobodyElse(w, a)'
      BY <1>1, <3>1 DEF NobodyElse, Engaged
    <3> QED BY <1>1, <2>1, <3>1, <3>2
  <2>2. CASE v # w
    <3>1. Engaged(v, b) /\ wk'[v] = wk[v]
      BY <1>1, <1>6, <2>2 DEF Engaged
    <3>2. Knows(wk[v], api[b], clock) /\ NobodyElse(v, b)
      BY <3>1 DEF TurnInv, InHand
    <3>3. ~Engaged(w, b)'
      BY <2>2, <3>1 DEF GoodStep, NobodyElse
    <3>4. NobodyElse(v, b)'
      BY <1>1, <3>2, <3>3 DEF NobodyElse, Engaged
    <3>5. api'[b].phase = api[b].phase /\ api'[b].tests = api[b].tests
      BY <1>3, <2>2, <3>1 DEF GoodStep, SameStatus, NobodyElse
    <3>6. Knows(wk'[v], api'[b], clock)
      BY <3>1, <3>2, <3>5 DEF Knows, Ending
    <3> QED BY <1>1, <3>4, <3>6
  <2> QED BY <2>1, <2>2
<1> QED BY <1>4, <1>5, <1>6 DEF TurnInv, InHand

\* A patch either writes or is lost, and concerns nothing else.
LEMMA PatchCases ==
  ASSUME NEW a \in Arrivals, NEW obj \in Arrival, PatchStatus(a, obj), TypeOK
  PROVE  /\ api'[a] \in {obj, api[a]}
         /\ UNCHANGED <<api, watch>> \/ Write(a, obj)
<1>1. api'[a] \in {obj, api[a]}
  BY DEF PatchStatus, Write, TypeOK
<1> QED BY <1>1 DEF PatchStatus

\* What a snapshot acted on in turn says is so.
LEMMA TakeInTurn ==
  ASSUME InTurn, NEW w \in Workers, NEW a \in Arrivals, Take(w, a),
         api' # api \/ Engaged(w, a)'
  PROVE  /\ Snapshot(w, a).phase = api[a].phase
         /\ Snapshot(w, a).tests = api[a].tests
         /\ Snapshot(w, a).finalizedAt = api[a].finalizedAt
         /\ NobodyElse(w, a)
BY DEF InTurn, Acts, Alone, NobodyElse

LEMMA WorkerGoes ==
  ASSUME TypeOK, NEW w \in Workers, NEW rec, Goto(w, rec)
  PROVE  wk'[w] = rec /\ \A v \in Workers \ {w} : wk'[v] = wk[v]
BY DEF TypeOK, Goto

\* The branches of reconcileOne that patch and are done.
LEMMA TurnPatchBranch ==
  ASSUME TypeOK, TurnInv, InTurn, NEW w \in Workers, NEW a \in Arrivals,
         SkipArrival(w, a) \/ Unskip(w, a) \/ Retest(w, a)
  PROVE  TurnInv'
<1>1. /\ Take(w, a) /\ UNCHANGED <<clock, store, rollouts, wk>>
      /\ wk[w].pc = "idle"
  BY DEF SkipArrival, Unskip, Retest, Take, At, world
<1>2. api[a] \in Arrival /\ clock \in Times /\ Consistent(api[a])
  BY DEF TypeOK, TurnInv
<1>3. \A b \in Arrivals : ~Engaged(w, b)'
  BY <1>1 DEF Engaged
<1>4. CASE UNCHANGED <<api, watch>>
  <2>1. StepAbout(w, a)
    BY <1>1, <1>4 DEF StepAbout
  <2>2. GoodStep(w, a)
    BY <1>2, <1>3, <1>4 DEF GoodStep, SameStatus
  <2> QED BY <2>1, <2>2, TurnStep
<1>5. CASE api' # api
  <2>1. Snapshot(w, a).phase = api[a].phase /\ NobodyElse(w, a)
    BY <1>1, <1>5, TakeInTurn
  <2>2. PICK obj \in Arrival : /\ PatchStatus(a, obj)
                               /\ obj.deployedAt = api[a].deployedAt
                               /\ obj.phase \in {"Skipped", "Pending"}
                               /\ obj.tests = NoTests
                                    \/ (obj.tests = api[a].tests
                                          /\ api[a].phase \in Waiting \cup {"Skipped"})
    <3>1. CASE SkipArrival(w, a)
      <4>1. [api[a] EXCEPT !.phase = "Skipped", !.finalizedAt = clock] \in Arrival
        BY <1>2 DEF Arrival, Phases
      <4>2. api[a].phase \in Waiting
        BY <2>1, <3>1 DEF SkipArrival
      <4> QED BY <1>2, <3>1, <4>1, <4>2 DEF SkipArrival, Arrival
    <3>2. CASE Unskip(w, a)
      <4>1. [api[a] EXCEPT !.phase = "Pending"] \in Arrival
        BY <1>2 DEF Arrival, Phases, Waiting
      <4>2. api[a].phase = "Skipped"
        BY <2>1, <3>2 DEF Unskip
      <4> QED BY <1>2, <3>2, <4>1, <4>2 DEF Unskip, Arrival
    <3>3. CASE Retest(w, a)
      <4>1. [api[a] EXCEPT !.phase = "Pending", !.tests = NoTests] \in Arrival
        BY <1>2, NoTestsType DEF Arrival, Phases, Waiting
      <4> QED BY <1>2, <3>3, <4>1 DEF Retest, Arrival
    <3> QED BY <3>1, <3>2, <3>3
  <2>3. api'[a] \in {obj, api[a]} /\ (UNCHANGED <<api, watch>> \/ Write(a, obj))
    BY <2>2, PatchCases
  <2>4. Consistent(obj)
    <3>1. \A p \in Packs : NoTests[p] = "none"
      BY DEF NoTests, AllOf
    <3> QED BY <1>2, <2>2, <3>1 DEF Consistent
  <2>5. StepAbout(w, a)
    BY <1>1, <2>2, <2>3 DEF StepAbout
  <2>6. GoodStep(w, a)
    BY <1>2, <1>3, <2>1, <2>3, <2>4 DEF GoodStep
  <2> QED BY <2>5, <2>6, TurnStep
<1>6. UNCHANGED <<api, watch>> \/ api' # api
  BY DEF SkipArrival, Unskip, Retest, PatchStatus, Write, TypeOK
<1> QED BY <1>4, <1>5, <1>6

\* The branches of reconcileOne that go on with the snapshot, or leave it.
LEMMA TurnTakeBranch ==
  ASSUME TypeOK, TurnInv, InTurn, NEW w \in Workers, NEW a \in Arrivals,
         \/ LeaveAlone(w, a) \/ SkipReentry(w, a) \/ Wait(w, a) \/ MissTimer(w, a)
         \/ EnterDispatch(w, a) \/ EndByTimer(w, a) \/ StartPoll(w, a)
  PROVE  TurnInv'
<1> DEFINE o == Snapshot(w, a)
<1>1. /\ Take(w, a) /\ wk[w].pc = "idle"
      /\ UNCHANGED <<clock, store, rollouts, api, watch>>
  BY DEF LeaveAlone, SkipReentry, Wait, MissTimer, EnterDispatch, EndByTimer, StartPoll,
         Pending, Testing, Take, At, world
<1>2. api[a] \in Arrival /\ Consistent(api[a]) /\ clock \in Times \ {0} /\ SameStatus(a)
  BY <1>1 DEF TypeOK, TurnInv, SameStatus
<1>3. ASSUME \A v \in Workers \ {w} : wk'[v] = wk[v],
             \A b \in Arrivals : Engaged(w, b)' =>
                b = a /\ NobodyElse(w, a) /\ Knows(wk'[w], api[a], clock)
      PROVE  TurnInv'
  <2>1. StepAbout(w, a)
    BY <1>1, <1>3 DEF StepAbout
  <2>2. GoodStep(w, a)
    BY <1>1, <1>2, <1>3 DEF GoodStep
  <2> QED BY <2>1, <2>2, TurnStep
<1>4. ASSUME NEW rec, Goto(w, rec), rec.arr = a, rec.pc \in {"gate", "publish", "poll", "finalize"},
             /\ o.phase = api[a].phase
             /\ o.tests = api[a].tests
             => Knows(rec, api[a], clock)
      PROVE  TurnInv'
  <2>1. wk'[w] = rec /\ \A v \in Workers \ {w} : wk'[v] = wk[v]
    BY <1>4, WorkerGoes
  <2>2. Engaged(w, a)'
    BY <1>4, <2>1 DEF Engaged
  <2>3. o.phase = api[a].phase /\ o.tests = api[a].tests /\ NobodyElse(w, a)
    BY <1>1, <2>2, TakeInTurn
  <2> HIDE DEF o
  <2>4. \A b \in Arrivals : Engaged(w, b)' => b = a
    BY <1>4, <2>1 DEF Engaged
  <2> QED BY <1>3, <1>4, <2>1, <2>3, <2>4
<1>5. o \in Arrival
  BY <1>1, TakeType
<1>11. o.tests \in Tests
  BY <1>5 DEF Arrival
<1> HIDE DEF o
<1>6. CASE LeaveAlone(w, a) \/ SkipReentry(w, a) \/ Wait(w, a)
  <2>1. UNCHANGED wk
    BY <1>6 DEF LeaveAlone, SkipReentry, Wait
  <2>2. \A b \in Arrivals : ~Engaged(w, b)'
    BY <1>1, <2>1 DEF Engaged
  <2> QED BY <1>3, <2>1, <2>2
<1>7. CASE MissTimer(w, a)
  <2> DEFINE rec == [Idle EXCEPT !.pc = "seed", !.arr = a]
  <2>1. Goto(w, rec)
    BY <1>7 DEF MissTimer
  <2>2. rec.pc = "seed"
    BY DEF Idle
  <2> HIDE DEF rec
  <2>4. wk'[w].pc = "seed" /\ \A v \in Workers \ {w} : wk'[v] = wk[v]
    BY <2>1, <2>2, WorkerGoes
  <2>3. \A b \in Arrivals : ~Engaged(w, b)'
    BY <2>4 DEF Engaged
  <2> QED BY <1>3, <2>3, <2>4
<1>8. CASE EnterDispatch(w, a)
  <2> DEFINE rec == [Idle EXCEPT !.pc = IF RealDispatch THEN "gate" ELSE "publish",
                            !.arr = a, !.tests = o.tests,
                            !.todo = IF RealDispatch THEN Packs ELSE {}]
  <2>1. Goto(w, rec) /\ o.phase \in Waiting
    BY <1>8 DEF EnterDispatch, Pending, o
  <2>2. rec.pc \in {"gate", "publish"} /\ rec.arr = a /\ rec.tests = o.tests
    BY DEF Idle
  <2> HIDE DEF rec
  <2>3. o.phase = api[a].phase /\ o.tests = api[a].tests => Knows(rec, api[a], clock)
    BY <2>1, <2>2 DEF Knows
  <2> QED BY <1>4, <2>1, <2>2, <2>3
<1>9. CASE EndByTimer(w, a)
  <2> DEFINE ph == IF inFlight[a] = "overdue" THEN "Timeout" ELSE "Passed"
             rec == [Idle EXCEPT !.pc = "finalize", !.arr = a, !.phase = ph,
                                 !.stamp = clock, !.tests = Promoted(o.tests, ph)]
  <2>1. Goto(w, rec) /\ o.phase = "Testing" /\ (ph = "Passed" => ~RealDispatch)
    BY <1>9 DEF EndByTimer, Testing, o
  <2>2. ph \in {"Timeout", "Passed"}
    OBVIOUS
  <2> HIDE DEF ph
  <2>3. /\ rec.pc = "finalize" /\ rec.arr = a /\ rec.phase = ph /\ rec.stamp = clock
        /\ rec.tests = Promoted(o.tests, ph)
    BY DEF Idle
  <2> HIDE DEF rec
  <2>4. clock \in 1..clock
    BY <1>2 DEF Times
  <2>5. o.phase = api[a].phase /\ o.tests = api[a].tests => Ending(rec, api[a])
    BY <2>1, <2>2, <2>3 DEF Ending
  <2>6. o.phase = api[a].phase /\ o.tests = api[a].tests => Knows(rec, api[a], clock)
    BY <2>3, <2>4, <2>5 DEF Knows
  <2> QED BY <1>4, <2>1, <2>3, <2>6
<1>10. CASE StartPoll(w, a)
  <2> DEFINE rec == [Idle EXCEPT !.pc = "poll", !.arr = a, !.tests = o.tests,
                            !.todo = Open(o.tests)]
  <2>1. Goto(w, rec) /\ o.phase = "Testing" /\ RealDispatch
    BY <1>10 DEF StartPoll, Testing, o
  <2>2. rec.pc = "poll" /\ rec.arr = a /\ rec.tests = o.tests
    BY DEF Idle
  <2> HIDE DEF rec
  <2>3. ASSUME o.phase = api[a].phase, o.tests = api[a].tests
        PROVE  Knows(rec, api[a], clock)
    <3>1. Lifecycle!Extends(api[a].tests, rec.tests)
      BY <2>2, <2>3 DEF Lifecycle!Extends
    <3>2. rec.tests \in [Packs -> {"Running", "Passed", "Failed"}]
      BY <1>2, <1>11, <2>1, <2>2, <2>3 DEF Consistent, Tests
    <3> QED BY <2>1, <2>2, <2>3, <3>1, <3>2 DEF Knows
  <2> QED BY <1>4, <2>1, <2>2, <2>3
<1> QED BY <1>6, <1>7, <1>8, <1>9, <1>10

\* What a step of w that is under way about a starts from.
LEMMA TurnUnderWay ==
  ASSUME TypeOK, TurnInv, NEW w \in Workers, wk[w].pc \notin {"idle", "seed", "forensics"}
  PROVE  /\ wk[w] \in Worker /\ wk[w].arr \in Arrivals /\ wk[w].tests \in Tests
         /\ Knows(wk[w], api[wk[w].arr], clock) /\ NobodyElse(w, wk[w].arr)
         /\ api[wk[w].arr] \in Arrival /\ Consistent(api[wk[w].arr])
<1>1. wk[w] \in Worker
  BY DEF TypeOK
<1>2. wk[w].arr \in Arrivals /\ wk[w].tests \in Tests
  BY <1>1 DEF Worker
<1>3. Engaged(w, wk[w].arr)
  BY DEF Engaged
<1> QED BY <1>1, <1>2, <1>3 DEF TypeOK, TurnInv, InHand

\* Steps that change only the locals.
LEMMA TurnInside ==
  ASSUME TypeOK, TurnInv, NEW w \in Workers, NEW rec, Goto(w, rec),
         wk[w].pc \notin {"idle", "seed", "forensics"},
         UNCHANGED <<clock, store, rollouts, api, watch, inbox>>,
         rec.arr = wk[w].arr, Knows(rec, api[wk[w].arr], clock)
  PROVE  TurnInv'
<1>0. PICK a \in Arrivals : a = wk[w].arr
  BY TurnUnderWay
<1>1. NobodyElse(w, a) /\ Consistent(api[a])
  BY <1>0, TurnUnderWay
<1>2. wk'[w] = rec /\ \A v \in Workers \ {w} : wk'[v] = wk[v]
  BY WorkerGoes
<1>3. StepAbout(w, a)
  BY <1>2 DEF StepAbout
<1>4. \A b \in Arrivals : Engaged(w, b)' => b = a
  BY <1>0, <1>2 DEF Engaged
<1>5. GoodStep(w, a)
  BY <1>0, <1>1, <1>2, <1>4 DEF GoodStep
<1> QED BY <1>3, <1>5, TurnStep

\* What a failed gate or dispatch leaves of the entries.
LEMMA PromotedFailed ==
  ASSUME NEW u \in Arrival, Consistent(u), u.phase \in Waiting
  PROVE  Promoted(u.tests, "Failed") \in [Packs -> {"none", "Failed"}]
<1>1. \A p \in Packs : u.tests[p] \in {"none", "Pending", "Running"}
  BY DEF Consistent
<1> QED BY <1>1 DEF Promoted, Unsettled

\* finalize, from a failure of an Arrival that is, or has become, u.
LEMMA TurnStartFinalize ==
  ASSUME TypeOK, NEW w \in Workers, NEW u, u.phase \in Waiting,
         Promoted(wk[w].tests, "Failed") \in [Packs -> {"none", "Failed"}]
  PROVE  LET rec == [wk[w] EXCEPT !.pc = "finalize", !.tests = Promoted(wk[w].tests, "Failed"),
                                  !.todo = {}, !.phase = "Failed", !.stamp = clock]
         IN  rec.arr = wk[w].arr /\ rec.pc = "finalize" /\ Knows(rec, u, clock)
<1> DEFINE rec == [wk[w] EXCEPT !.pc = "finalize", !.tests = Promoted(wk[w].tests, "Failed"),
                                !.todo = {}, !.phase = "Failed", !.stamp = clock]
<1>1. wk[w] \in Worker /\ clock \in Times \ {0}
  BY DEF TypeOK
<1>2. /\ rec.pc = "finalize" /\ rec.arr = wk[w].arr /\ rec.phase = "Failed"
      /\ rec.stamp = clock /\ rec.tests = Promoted(wk[w].tests, "Failed")
  BY <1>1 DEF Worker
<1> HIDE DEF rec
<1>3. clock \in 1..clock
  BY <1>1 DEF Times
<1>4. Ending(rec, u)
  BY <1>2 DEF Ending
<1>5. rec.arr = wk[w].arr /\ rec.pc = "finalize" /\ Knows(rec, u, clock)
  BY <1>2, <1>3, <1>4 DEF Knows
<1> QED BY <1>5 DEF rec

\* The gate and the dispatch, as far as they stay within the process.
LEMMA TurnDispatch ==
  ASSUME TypeOK, TurnInv, NEW w \in Workers,
         \/ GatePasses(w) \/ GateFails(w)
         \/ \E p \in Packs : DispatchPack(w, p) \/ DispatchFails(w, p)
  PROVE  TurnInv'
<1> DEFINE r == wk[w]
<1>1. r.pc \in {"gate", "dispatch"}
      /\ UNCHANGED <<clock, store, rollouts, api, watch, inbox>>
  BY DEF GatePasses, GateFails, DispatchPack, DispatchFails, At, world
<1>2. /\ r \in Worker /\ Knows(r, api[r.arr], clock)
      /\ api[r.arr] \in Arrival /\ Consistent(api[r.arr])
  BY <1>1, TurnUnderWay
<1>3. api[r.arr].phase \in Waiting /\ r.tests = api[r.arr].tests
  BY <1>1, <1>2 DEF Knows
<1>4. ASSUME NEW rec, Goto(w, rec), rec.arr = r.arr, Knows(rec, api[r.arr], clock)
      PROVE  TurnInv'
  BY <1>1, <1>4, TurnInside
<1>5. ASSUME NEW pc \in {"dispatch", "publish", "evidence"}, NEW todo,
             Goto(w, [r EXCEPT !.pc = pc, !.todo = todo])
      PROVE  TurnInv'
  <2> DEFINE rec == [r EXCEPT !.pc = pc, !.todo = todo]
  <2>1. rec.pc = pc /\ rec.arr = r.arr /\ rec.tests = r.tests
    BY <1>2 DEF Worker
  <2>2. Goto(w, rec)
    BY <1>5
  <2> HIDE DEF rec
  <2>3. Knows(rec, api[r.arr], clock)
    BY <1>3, <1>5, <2>1 DEF Knows
  <2> QED BY <1>4, <2>1, <2>2, <2>3
<1>6. CASE GatePasses(w)
  <2>1. Goto(w, [r EXCEPT !.pc = "dispatch"])
    BY <1>6 DEF GatePasses, Jump
  <2>2. [r EXCEPT !.pc = "dispatch"] = [r EXCEPT !.pc = "dispatch", !.todo = r.todo]
    BY <1>2 DEF Worker
  <2> QED BY <1>5, <2>1, <2>2
<1>7. CASE GateFails(w)
  <2> DEFINE rec == [r EXCEPT !.pc = "finalize", !.tests = Promoted(r.tests, "Failed"),
                              !.todo = {}, !.phase = "Failed", !.stamp = clock]
  <2>1. Goto(w, rec)
    BY <1>7 DEF GateFails, StartFinalize
  <2>2. Promoted(r.tests, "Failed") \in [Packs -> {"none", "Failed"}]
    BY <1>2, <1>3, PromotedFailed
  <2>3. rec.arr = r.arr /\ Knows(rec, api[r.arr], clock)
    BY <1>3, <2>2, TurnStartFinalize
  <2> HIDE DEF rec
  <2> QED BY <1>4, <2>1, <2>3
<1>8. ASSUME NEW p \in Packs, DispatchPack(w, p) PROVE TurnInv'
  <2>1. Goto(w, [r EXCEPT !.todo = r.todo \ {p},
                          !.pc = IF r.todo = {p} THEN "publish" ELSE r.pc])
        /\ r.pc = "dispatch"
    BY <1>8 DEF DispatchPack, At
  <2>2. [r EXCEPT !.todo = r.todo \ {p}, !.pc = IF r.todo = {p} THEN "publish" ELSE r.pc]
          = [r EXCEPT !.pc = IF r.todo = {p} THEN "publish" ELSE r.pc, !.todo = r.todo \ {p}]
    BY <1>2 DEF Worker
  <2> QED BY <1>5, <2>1, <2>2
<1>9. ASSUME NEW p \in Packs, DispatchFails(w, p) PROVE TurnInv'
  <2>1. Goto(w, [r EXCEPT !.pc = "evidence"])
    BY <1>9 DEF DispatchFails, Jump
  <2>2. [r EXCEPT !.pc = "evidence"] = [r EXCEPT !.pc = "evidence", !.todo = r.todo]
    BY <1>2 DEF Worker
  <2> QED BY <1>5, <2>1, <2>2
<1> QED BY <1>6, <1>7, <1>8, <1>9

\* A patch of a step under way, after which the worker is at rec.
LEMMA TurnPatches ==
  ASSUME TypeOK, TurnInv, NEW w \in Workers, wk[w].pc \notin {"idle", "seed", "forensics"},
         UNCHANGED <<clock, store, rollouts, inbox>>,
         NEW obj \in Arrival, PatchStatus(wk[w].arr, obj),
         obj.deployedAt = api[wk[w].arr].deployedAt, Consistent(obj),
         NEW rec, Goto(w, rec),
         \/ rec.pc \in {"idle", "forensics"}
         \/ /\ rec.arr = wk[w].arr
            /\ Knows(rec, obj, clock) /\ Knows(rec, api[wk[w].arr], clock)
  PROVE  TurnInv'
<1>0. PICK a \in Arrivals : a = wk[w].arr
  BY TurnUnderWay
<1>1. /\ api[a] \in Arrival /\ Consistent(api[a]) /\ NobodyElse(w, a)
  BY <1>0, TurnUnderWay
<1>2. api'[a] \in {obj, api[a]} /\ (UNCHANGED <<api, watch>> \/ Write(a, obj))
  BY <1>0, PatchCases
<1>3. wk'[w] = rec /\ \A v \in Workers \ {w} : wk'[v] = wk[v]
  BY WorkerGoes
<1>4. StepAbout(w, a)
  BY <1>0, <1>2, <1>3 DEF StepAbout
<1>5. \A b \in Arrivals : Engaged(w, b)' => b = a /\ Knows(rec, api'[a], clock)
  BY <1>0, <1>2, <1>3 DEF Engaged
<1>6. GoodStep(w, a)
  BY <1>1, <1>2, <1>3, <1>5 DEF GoodStep
<1> QED BY <1>4, <1>6, TurnStep

\* The patches a dispatch ends with: evidence, or Testing.
LEMMA TurnPublish ==
  ASSUME TypeOK, TurnInv, NEW w \in Workers, PatchEvidence(w) \/ PublishTesting(w)
  PROVE  TurnInv'
<1> DEFINE r == wk[w]
           u == api[r.arr]
<1>1. r.pc \in {"evidence", "publish"} /\ UNCHANGED <<clock, store, rollouts, inbox>>
  BY DEF PatchEvidence, PublishTesting, At, world
<1>2. /\ r \in Worker /\ Knows(r, u, clock) /\ u \in Arrival /\ Consistent(u)
  BY <1>1, TurnUnderWay
<1>3. u.phase \in Waiting /\ r.tests = u.tests
  BY <1>1, <1>2 DEF Knows
<1>4. CASE PatchEvidence(w)
  <2> DEFINE ts == DispatchEvidence(r.todo)
             obj == [u EXCEPT !.tests = ts]
             rec == [r EXCEPT !.pc = "finalize", !.tests = Promoted(r.tests, "Failed"),
                              !.todo = {}, !.phase = "Failed", !.stamp = clock]
  <2>1. ts \in Tests /\ \A p \in Packs : ts[p] \in Unsettled
    BY DEF DispatchEvidence, Tests, Status, Unsettled
  <2>2. PatchStatus(r.arr, obj) /\ Goto(w, rec)
    BY <1>4 DEF PatchEvidence, StartFinalize
  <2> HIDE DEF ts
  <2>3. /\ obj \in Arrival /\ obj.deployedAt = u.deployedAt
        /\ obj.phase = u.phase /\ obj.tests = ts
    BY <1>2, <2>1 DEF Arrival
  <2> HIDE DEF obj
  <2>4. Consistent(obj)
    BY <1>3, <2>1, <2>3 DEF Consistent, Unsettled, Waiting
  <2>5. Promoted(r.tests, "Failed") \in [Packs -> {"none", "Failed"}]
    BY <1>2, <1>3, PromotedFailed
  <2>6. rec.arr = r.arr /\ Knows(rec, u, clock) /\ Knows(rec, obj, clock)
    BY <1>3, <2>3, <2>5, TurnStartFinalize
  <2> HIDE DEF rec
  <2> QED BY <1>1, <2>2, <2>3, <2>4, <2>6, TurnPatches
<1>5. CASE PublishTesting(w)
  <2> DEFINE obj == [u EXCEPT !.phase = "Testing", !.tests = AllOf("Running")]
  <2>1. PatchStatus(r.arr, obj) /\ Goto(w, Idle) /\ Idle.pc = "idle"
    BY <1>5 DEF PublishTesting, Idle
  <2>2. AllOf("Running") \in Tests /\ \A p \in Packs : AllOf("Running")[p] = "Running"
    BY DEF AllOf, Tests, Status, Unsettled
  <2>3. /\ obj \in Arrival /\ obj.deployedAt = u.deployedAt
        /\ obj.phase = "Testing" /\ obj.tests = AllOf("Running")
    BY <1>2, <2>2 DEF Arrival, Phases
  <2> HIDE DEF obj
  <2>4. Consistent(obj)
    BY <2>2, <2>3 DEF Consistent, Waiting
  <2> QED BY <1>1, <2>1, <2>3, <2>4, TurnPatches
<1> QED BY <1>4, <1>5

\* A verdict that settled results deserve is one of two.
LEMMA VerdictOfResults ==
  ASSUME NEW ts \in [Packs -> {"Passed", "Failed"}]
  PROVE  /\ Lifecycle!Verdict(ts) \in {"Passed", "Failed"}
         /\ Lifecycle!Verdict(ts) = IF \E p \in Packs : ts[p] = "Failed" THEN "Failed" ELSE "Passed"
BY DEF Lifecycle!Verdict

\* A Job's status settles an entry, or leaves it.
LEMMA PolledSettles ==
  ASSUME NEW s \in {"Running", "Passed", "Failed"}, NEW job
  PROVE  /\ Polled(s, job) \in {"Running", "Passed", "Failed"}
         /\ Polled(s, job) = s \/ (s = "Running" /\ Polled(s, job) \in {"Passed", "Failed"})
BY DEF Polled

\* The notes taken beside a reconcile: the replayed timer, the forensics Job.
LEMMA TurnAside ==
  ASSUME TypeOK, TurnInv, NEW w \in Workers, SeedTimer(w) \/ DispatchForensics(w)
  PROVE  TurnInv'
<1>1. UNCHANGED <<clock, store, rollouts, inbox>> /\ Goto(w, Idle) /\ Idle.pc = "idle"
  BY DEF SeedTimer, DispatchForensics, Idle, world
<1>2. wk'[w] = Idle /\ \A v \in Workers \ {w} : wk'[v] = wk[v]
  BY <1>1, WorkerGoes
<1>3. \A b \in Arrivals : ~Engaged(w, b)'
  BY <1>1, <1>2 DEF Engaged
<1>4. PICK a \in Arrivals : a = wk[w].arr
  BY DEF TypeOK, Worker
<1>5. api[a] \in Arrival /\ Consistent(api[a])
  BY DEF TypeOK, TurnInv
<1> DEFINE obj == [api[a] EXCEPT !.forensics = TRUE]
<1>6. UNCHANGED <<api, watch>> \/ PatchStatus(a, obj)
  BY <1>4 DEF SeedTimer, DispatchForensics
<1>7. /\ obj \in Arrival /\ obj.deployedAt = api[a].deployedAt
      /\ obj.phase = api[a].phase /\ obj.tests = api[a].tests
  BY <1>5 DEF Arrival
<1> HIDE DEF obj
<1>8. api'[a] \in {obj, api[a]} /\ (UNCHANGED <<api, watch>> \/ Write(a, obj))
  BY <1>6, <1>7, PatchCases
<1>9. StepAbout(w, a)
  BY <1>1, <1>2, <1>7, <1>8 DEF StepAbout
<1>10. SameStatus(a) /\ Consistent(api'[a])
  BY <1>5, <1>7, <1>8 DEF SameStatus, Consistent
<1>11. GoodStep(w, a)
  BY <1>3, <1>10 DEF GoodStep
<1> QED BY <1>9, <1>11, TurnStep

\* handleTesting after its snapshot.
LEMMA TurnPoll ==
  ASSUME TypeOK, TurnInv, NEW w \in Workers,
         \/ PatchProgress(w) \/ AllSettled(w) \/ RecordVerdict(w)
         \/ \E p \in Packs : PollPack(w, p)
  PROVE  TurnInv'
<1> DEFINE r == wk[w]
           u == api[r.arr]
<1>1. r.pc \in {"poll", "record"} /\ UNCHANGED <<clock, store, rollouts, inbox>>
  BY DEF PatchProgress, AllSettled, RecordVerdict, PollPack, At, world
<1>2. /\ r \in Worker /\ Knows(r, u, clock)
      /\ u \in Arrival /\ Consistent(u) /\ r.tests \in Tests /\ clock \in Times
  BY <1>1, TurnUnderWay DEF TypeOK
<1>3. /\ u.phase = "Testing" /\ Lifecycle!Extends(u.tests, r.tests)
  BY <1>1, <1>2 DEF Knows
<1>4. ASSUME NEW p \in Packs, PollPack(w, p) PROVE TurnInv'
  <2>1. /\ r.pc = "poll" /\ UNCHANGED <<api, watch>>
        /\ \/ Goto(w, [r EXCEPT !.todo = r.todo \ {p},
                                !.tests[p] = Polled(r.tests[p], jobs[r.arr][p])])
           \/ Goto(w, [r EXCEPT !.todo = r.todo \ {p}])
    BY <1>4 DEF PollPack, At
  <2>2. /\ r.tests \in [Packs -> {"Running", "Passed", "Failed"}] /\ RealDispatch
    BY <1>2, <2>1 DEF Knows
  <2>3. ASSUME NEW ts, Goto(w, [[r EXCEPT !.todo = r.todo \ {p}] EXCEPT !.tests = ts]),
               Lifecycle!Extends(u.tests, ts), ts \in [Packs -> {"Running", "Passed", "Failed"}]
        PROVE  TurnInv'
    <3> DEFINE rec == [[r EXCEPT !.todo = r.todo \ {p}] EXCEPT !.tests = ts]
    <3>1. rec.pc = "poll" /\ rec.arr = r.arr /\ rec.tests = ts
      BY <1>2, <2>1 DEF Worker
    <3>2. Goto(w, rec)
      BY <2>3
    <3> HIDE DEF rec
    <3>3. Knows(rec, u, clock)
      BY <1>3, <2>2, <2>3, <3>1 DEF Knows
    <3> QED BY <1>1, <2>1, <3>1, <3>2, <3>3, TurnInside
  <2>4. CASE Goto(w, [r EXCEPT !.todo = r.todo \ {p}])
    <3>1. [[r EXCEPT !.todo = r.todo \ {p}] EXCEPT !.tests = r.tests] = [r EXCEPT !.todo = r.todo \ {p}]
      BY <1>2 DEF Worker
    <3> QED BY <1>3, <2>2, <2>3, <2>4, <3>1
  <2>5. CASE Goto(w, [r EXCEPT !.todo = r.todo \ {p},
                               !.tests[p] = Polled(r.tests[p], jobs[r.arr][p])])
    <3> DEFINE s  == Polled(r.tests[p], jobs[r.arr][p])
               ts == [r.tests EXCEPT ![p] = s]
    <3>1. [r EXCEPT !.todo = r.todo \ {p}, !.tests[p] = s]
            = [[r EXCEPT !.todo = r.todo \ {p}] EXCEPT !.tests = ts]
      BY <1>2 DEF Worker
    <3>2. r.tests[p] \in {"Running", "Passed", "Failed"}
      BY <2>2
    <3>3. /\ s \in {"Running", "Passed", "Failed"}
          /\ s = r.tests[p] \/ (r.tests[p] = "Running" /\ s \in {"Passed", "Failed"})
      BY <3>2, PolledSettles
    <3>4. Goto(w, [[r EXCEPT !.todo = r.todo \ {p}] EXCEPT !.tests = ts])
      BY <2>5, <3>1
    <3> HIDE DEF s
    <3>5. ts \in [Packs -> {"Running", "Passed", "Failed"}]
      BY <2>2, <3>3
    <3>6. \A q \in Packs : ts[q] = IF q = p THEN s ELSE r.tests[q]
      BY <2>2
    <3> HIDE DEF ts
    <3>7. Lifecycle!Extends(u.tests, ts)
      BY <1>3, <3>3, <3>6 DEF Lifecycle!Extends, Lifecycle!Unsettled, Lifecycle!Settled
    <3> QED BY <2>3, <3>4, <3>5, <3>7
  <2> QED BY <2>1, <2>4, <2>5
<1>5. CASE PatchProgress(w)
  <2> DEFINE obj == [u EXCEPT !.tests = r.tests]
  <2>1. r.pc = "poll" /\ PatchStatus(r.arr, obj) /\ Goto(w, Idle) /\ Idle.pc = "idle"
    BY <1>5 DEF PatchProgress, At, Idle
  <2>2. r.tests \in [Packs -> {"Running", "Passed", "Failed"}] /\ RealDispatch
    BY <1>2, <2>1 DEF Knows
  <2>3. /\ obj \in Arrival /\ obj.deployedAt = u.deployedAt
        /\ obj.phase = "Testing" /\ obj.tests = r.tests
    BY <1>2, <1>3 DEF Arrival
  <2> HIDE DEF obj
  <2>4. Consistent(obj)
    BY <2>2, <2>3 DEF Consistent, Waiting
  <2> QED BY <1>1, <2>1, <2>3, <2>4, TurnPatches
<1>6. CASE AllSettled(w)
  <2> DEFINE ph == IF \E p \in Packs : r.tests[p] = "Failed" THEN "Failed" ELSE "Passed"
             rec == [r EXCEPT !.pc = "record", !.phase = ph]
  <2>1. r.pc = "poll" /\ Open(r.tests) = {} /\ UNCHANGED <<api, watch>> /\ Goto(w, rec)
    BY <1>6 DEF AllSettled, At
  <2>2. r.tests \in [Packs -> {"Running", "Passed", "Failed"}]
    BY <1>2, <2>1 DEF Knows
  <2>3. r.tests \in [Packs -> {"Passed", "Failed"}]
    BY <2>1, <2>2 DEF Open, Unsettled
  <2>4. ph = Lifecycle!Verdict(r.tests)
    BY <2>3, VerdictOfResults
  <2> HIDE DEF ph
  <2>5. rec.pc = "record" /\ rec.arr = r.arr /\ rec.tests = r.tests /\ rec.phase = ph
    BY <1>2 DEF Worker
  <2> HIDE DEF rec
  <2>6. Knows(rec, u, clock)
    BY <1>3, <2>3, <2>4, <2>5 DEF Knows
  <2> QED BY <1>1, <2>1, <2>5, <2>6, TurnInside
<1>7. CASE RecordVerdict(w)
  <2> DEFINE obj == [u EXCEPT !.phase = r.phase, !.tests = r.tests, !.finalizedAt = clock]
             rec == IF ForensicsOn THEN [Idle EXCEPT !.pc = "forensics", !.arr = r.arr] ELSE Idle
  <2>1. r.pc = "record" /\ PatchStatus(r.arr, obj) /\ Goto(w, rec)
    BY <1>7 DEF RecordVerdict, At
  <2>2. r.tests \in [Packs -> {"Passed", "Failed"}] /\ r.phase = Lifecycle!Verdict(r.tests)
    BY <1>2, <2>1 DEF Knows
  <2>3. r.phase \in {"Passed", "Failed"}
    BY <2>2, VerdictOfResults
  <2>4. /\ obj \in Arrival /\ obj.deployedAt = u.deployedAt /\ obj.phase = r.phase
    BY <1>2, <2>3 DEF Arrival, Phases, Verdicts
  <2> HIDE DEF obj
  <2>5. Consistent(obj)
    BY <2>3, <2>4 DEF Consistent, Waiting
  <2>6. rec.pc \in {"idle", "forensics"}
    BY DEF Idle
  <2> HIDE DEF rec
  <2> QED BY <1>1, <2>1, <2>4, <2>5, <2>6, TurnPatches
<1> QED BY <1>4, <1>5, <1>6, <1>7

LEMMA TurnFinalize ==
  ASSUME TypeOK, TurnInv, NEW w \in Workers, FinalizeForgets(w) \/ FinalizeCommits(w)
  PROVE  TurnInv'
<1> DEFINE r == wk[w]
           u == api[r.arr]
<1>1. r.pc \in {"finalize", "commit"} /\ UNCHANGED <<clock, store, rollouts, inbox>>
  BY DEF FinalizeForgets, FinalizeCommits, At, world
<1>2. /\ r \in Worker /\ Knows(r, u, clock)
      /\ u \in Arrival /\ Consistent(u) /\ r.tests \in Tests
  BY <1>1, TurnUnderWay
<1>3. r.stamp \in 1..clock /\ Ending(r, u)
  BY <1>1, <1>2 DEF Knows
<1>4. CASE FinalizeForgets(w)
  <2> DEFINE rec == [r EXCEPT !.pc = "commit"]
  <2>1. UNCHANGED <<api, watch>> /\ Goto(w, rec)
    BY <1>4 DEF FinalizeForgets, Jump
  <2>2. /\ rec.pc = "commit" /\ rec.arr = r.arr /\ rec.tests = r.tests
        /\ rec.phase = r.phase /\ rec.stamp = r.stamp
    BY <1>2 DEF Worker
  <2> HIDE DEF rec
  <2>3. Ending(rec, u)
    BY <1>3, <2>2 DEF Ending
  <2>4. Knows(rec, u, clock)
    BY <1>3, <2>2, <2>3 DEF Knows
  <2> QED BY <1>1, <2>1, <2>2, <2>4, TurnInside
<1>5. CASE FinalizeCommits(w)
  <2> DEFINE obj == [u EXCEPT !.phase = r.phase, !.tests = r.tests, !.finalizedAt = r.stamp]
  <2>1. PatchStatus(r.arr, obj) /\ Goto(w, Idle) /\ Idle.pc = "idle"
    BY <1>5 DEF FinalizeCommits, Idle
  <2>2. r.phase \in Verdicts /\ r.stamp \in Times
    BY <1>2, <1>3 DEF Ending, Verdicts, Worker
  <2>3. /\ obj \in Arrival /\ obj.deployedAt = u.deployedAt /\ obj.phase = r.phase
    BY <1>2, <2>2 DEF Arrival, Phases
  <2> HIDE DEF obj
  <2>4. Consistent(obj)
    BY <2>2, <2>3 DEF Consistent, Waiting, Verdicts
  <2> QED BY <1>1, <2>1, <2>3, <2>4, TurnPatches
<1> QED BY <1>4, <1>5

\* A new process is at nothing, and lists what there is.
LEMMA TurnReboot ==
  ASSUME TypeOK, TurnInv, Reboot
  PROVE  TurnInv'
<1>1. /\ \A a \in Arrivals : watch'[a] = <<>>
      /\ store' = api /\ inbox' = Listed(api)
      /\ \A w \in Workers : wk'[w] = Idle
      /\ UNCHANGED <<clock, api, rollouts>>
  BY DEF Reboot
<1>2. \A a \in Arrivals : RolledOut(a)' = RolledOut(a) /\ api[a] \in RolledOut(a)
  BY <1>1 DEF TurnInv, RolledCopies, RolledOut
<1>3. \A w \in Workers, a \in Arrivals : inbox'[w][a] \in {<<>>, <<api[a]>>}
  BY <1>1 DEF Listed
<1>4. \A a \in Arrivals : <<>> \in Seq(RolledOut(a)) /\ <<api[a]>> \in Seq(RolledOut(a))
  BY <1>2
<1>5. RolledCopies'
  BY <1>1, <1>2, <1>3, <1>4 DEF RolledCopies
<1>6. \A w \in Workers, a \in Arrivals : ~Engaged(w, a)'
  <2>1. Idle.pc = "idle"
    BY DEF Idle
  <2> QED BY <1>1, <2>1 DEF Engaged
<1>7. InHand'
  BY <1>6 DEF InHand
<1> QED BY <1>1, <1>5, <1>7 DEF TurnInv

\* Steps of the surroundings leave the workers' locals and the API server's
\* status alone.
LEMMA TurnBeside ==
  ASSUME TypeOK, TurnInv, UNCHANGED wk, clock' \in {clock, clock + 1},
         \A a \in Arrivals : SameStatus(a), RolledCopies'
  PROVE  TurnInv'
<1>1. \A a \in Arrivals : Consistent(api'[a])
  BY DEF TurnInv, SameStatus, Consistent
<1>2. clock \in Nat /\ clock' \in Nat /\ clock <= clock'
  <2>1. clock \in Nat
    BY ControllerAssumption DEF TypeOK, Times
  <2> QED BY ONLY <2>1, clock' \in {clock, clock + 1}
<1>3. ASSUME NEW w \in Workers, NEW a \in Arrivals, Engaged(w, a)
      PROVE  Knows(wk[w], api'[a], clock') /\ NobodyElse(w, a)
  <2> DEFINE r == wk[w]
             u == api[a]
             v == api'[a]
  <2>1. Knows(r, u, clock) /\ NobodyElse(w, a)
    BY <1>3 DEF TurnInv, InHand
  <2>2. u.phase = v.phase /\ u.tests = v.tests
    BY DEF SameStatus
  <2>3. r.stamp \in 1..clock => r.stamp \in 1..clock'
    BY <1>2
  <2> HIDE DEF r, u, v
  <2>4. Knows(r, v, clock')
    BY <2>1, <2>2, <2>3 DEF Knows, Ending
  <2> QED BY <2>1, <2>4 DEF r, v
<1>4. \A w \in Workers, a \in Arrivals : Engaged(w, a)' <=> Engaged(w, a)
  BY DEF Engaged
<1>5. InHand'
  BY <1>3, <1>4 DEF InHand, NobodyElse
<1> QED BY <1>1, <1>5 DEF TurnInv

\* The informer and the ticker hand on copies.
LEMMA TurnCopies ==
  ASSUME TypeOK, TurnInv, TickerLists \/ \E a \in Arrivals : Deliver(a)
  PROVE  TurnInv'
<1>1. UNCHANGED <<clock, api, wk, rollouts>>
  BY DEF TickerLists, Deliver
<1>2. \A a \in Arrivals : RolledOut(a)' = RolledOut(a)
  BY <1>1 DEF RolledOut
<1>3. CASE TickerLists
  <2>1. /\ UNCHANGED <<watch, store>> /\ "ticker" \in Workers
        /\ inbox' = [inbox EXCEPT !["ticker"] = [a \in Arrivals |-> <<store[a]>>]]
    BY <1>3 DEF TickerLists
  <2>2. \A a \in Arrivals : <<store[a]>> \in Seq(RolledOut(a))
    BY DEF TurnInv, RolledCopies
  <2>3. \A w \in Workers, a \in Arrivals : inbox'[w][a] \in Seq(RolledOut(a))
    BY <2>1, <2>2 DEF TypeOK, TurnInv, RolledCopies
  <2>4. RolledCopies'
    BY <1>1, <1>2, <2>1, <2>3 DEF TurnInv, RolledCopies
  <2> QED BY <1>1, <2>4, TurnBeside DEF SameStatus
<1>4. ASSUME NEW a \in Arrivals, Deliver(a) PROVE TurnInv'
  <2>1. /\ watch[a] # <<>> /\ watch' = [watch EXCEPT ![a] = Tail(watch[a])]
        /\ store' = [store EXCEPT ![a] = Head(watch[a])]
        /\ inbox' = [w \in Workers |->
                       IF w = "handler" THEN [inbox[w] EXCEPT ![a] = Append(inbox[w][a], Head(watch[a]))]
                       ELSE inbox[w]]
    BY <1>4 DEF Deliver
  <2>2. watch[a] \in Seq(RolledOut(a))
    BY DEF TurnInv, RolledCopies
  <2>3. Head(watch[a]) \in RolledOut(a) /\ Tail(watch[a]) \in Seq(RolledOut(a))
    BY <2>1, <2>2
  <2>4. \A w \in Workers : Append(inbox[w][a], Head(watch[a])) \in Seq(RolledOut(a))
    BY <2>3 DEF TurnInv, RolledCopies
  <2>5. \A b \in Arrivals : watch'[b] \in Seq(RolledOut(b)) /\ store'[b] \in RolledOut(b)
    BY <2>1, <2>3 DEF TypeOK, TurnInv, RolledCopies
  <2>6. \A w \in Workers, b \in Arrivals : inbox'[w][b] \in Seq(RolledOut(b))
    BY <2>1, <2>4 DEF TypeOK, TurnInv, RolledCopies
  <2>7. RolledCopies'
    BY <1>1, <1>2, <2>5, <2>6 DEF TurnInv, RolledCopies
  <2> QED BY <1>1, <2>7, TurnBeside DEF SameStatus
<1> QED BY <1>3, <1>4

\* The watcher writes deployedAt, which is on record as a rollout, and the packs.
LEMMA TurnUpsert ==
  ASSUME TypeOK, TurnInv, NEW a \in Arrivals, Upsert(a)
  PROVE  TurnInv'
<1>1. PICK t \in 1..clock, d \in {api[a].declared, TRUE} :
        /\ Write(a, [api[a] EXCEPT !.deployedAt = t, !.declared = d])
        /\ rollouts' = [rollouts EXCEPT ![a] = rollouts[a] \cup {t}]
  BY DEF Upsert
<1>2. UNCHANGED <<clock, store, inbox, wk>>
  BY DEF Upsert
<1>3. api[a] \in Arrival /\ clock \in Times /\ rollouts \in [Arrivals -> SUBSET Times]
  BY DEF TypeOK
<1> DEFINE obj == [api[a] EXCEPT !.deployedAt = t, !.declared = d]
<1>4. d \in BOOLEAN /\ t \in Times
  <2>1. d \in BOOLEAN
    BY <1>3 DEF Arrival
  <2>2. t \in Times
    BY <1>3, ControllerAssumption DEF Times
  <2> QED BY <2>1, <2>2
<1>5. /\ obj \in Arrival /\ obj.deployedAt = t /\ obj.phase = api[a].phase
      /\ obj.tests = api[a].tests
  BY <1>3, <1>4 DEF Arrival
<1>6. Write(a, obj)
  BY <1>1
<1> HIDE DEF obj
<1>7. t \in rollouts'[a] /\ \A b \in Arrivals : rollouts[b] \subseteq rollouts'[b]
  BY <1>1, <1>3
<1>8. \A b \in Arrivals : SameStatus(b)
  BY <1>5, <1>6 DEF Write, TypeOK, SameStatus
<1>9. RolledCopies'
  <2>1. \A b \in Arrivals : api'[b] \in RolledOut(b)' /\ watch'[b] \in Seq(RolledOut(b)')
    BY <1>5, <1>6, <1>7, RolledWrite DEF TurnInv
  <2>2. \A b \in Arrivals : /\ RolledOut(b) \subseteq RolledOut(b)'
                            /\ Seq(RolledOut(b)) \subseteq Seq(RolledOut(b)')
    BY <1>7, RolledMove DEF TurnInv
  <2> QED BY <1>2, <2>1, <2>2 DEF TurnInv, RolledCopies
<1> QED BY <1>2, <1>8, <1>9, TurnBeside

\* Time, Jobs and ages touch nothing the argument is about.
LEMMA TurnTime ==
  ASSUME TypeOK, TurnInv,
         \/ Tick
         \/ \E a \in Arrivals : Age(a) \/ \E p \in Packs : Cluster(a, p)
  PROVE  TurnInv'
<1>1. UNCHANGED <<api, watch, store, inbox, wk, rollouts>> /\ clock' \in {clock, clock + 1}
  BY DEF Tick, Age, Cluster
<1>2. RolledCopies'
  BY <1>1 DEF TurnInv, RolledCopies, RolledOut
<1> QED BY <1>1, <1>2, TurnBeside DEF SameStatus

LEMMA NextTurn == TypeOK /\ TurnInv /\ [Next /\ InTurn]_vars => TurnInv'
<1> SUFFICES ASSUME TypeOK, TurnInv, [Next /\ InTurn]_vars PROVE TurnInv'
  OBVIOUS
<1>1. CASE UNCHANGED vars
  BY <1>1 DEF vars, TurnInv, RolledCopies, RolledOut, Consistent, InHand, Engaged, NobodyElse
<1>2. ASSUME NEW w \in Workers, Work(w), InTurn PROVE TurnInv'
  <2>1. ASSUME NEW p \in Packs, DispatchPanics(w, p) \/ DispatchInterrupted(w, p)
        PROVE  Reboot
    BY <2>1 DEF DispatchPanics, DispatchInterrupted
  <2> QED BY <1>2, <2>1, TurnPatchBranch, TurnTakeBranch, TurnDispatch, TurnPublish, TurnPoll,
             TurnAside, TurnFinalize, TurnReboot DEF Work
<1>3. CASE Restart
  BY <1>3, TurnReboot DEF Restart
<1> QED BY <1>1, <1>2, <1>3, TurnCopies, TurnUpsert, TurnTime DEF Next

LEMMA AlwaysTurn == InTurnSpec => [](TypeOK /\ TurnInv)
<1>1. Init => TypeOK /\ TurnInv
  BY InitType, InitTurn
<1>2. TypeOK /\ TurnInv /\ [Next /\ InTurn]_vars => (TypeOK /\ TurnInv)'
  BY NextTypes, NextTurn
<1> QED BY <1>1, <1>2, PTL DEF InTurnSpec

\* What the lifecycle sees of the API server.
PhaseOf       == [a \in Arrivals |-> api[a].phase]
TestsOf       == [a \in Arrivals |-> api[a].tests]
FinalizedAtOf == [a \in Arrivals |-> api[a].finalizedAt]

Unseen == UNCHANGED <<PhaseOf, TestsOf, FinalizedAtOf, rollouts, clock>>

LEMMA UnseenStutters == Unseen => UNCHANGED Lifecycle!vars
BY DEF Unseen, PhaseOf, TestsOf, FinalizedAtOf, Lifecycle!vars

\* A patch, seen from the lifecycle.
LEMMA PatchSeen ==
  ASSUME TypeOK, NEW a \in Arrivals, NEW obj \in Arrival,
         UNCHANGED <<api, watch>> \/ PatchStatus(a, obj), UNCHANGED <<rollouts, clock>>
  PROVE  \/ Unseen
         \/ /\ PhaseOf' = [PhaseOf EXCEPT ![a] = obj.phase]
            /\ TestsOf' = [TestsOf EXCEPT ![a] = obj.tests]
            /\ FinalizedAtOf' = [FinalizedAtOf EXCEPT ![a] = obj.finalizedAt]
<1>1. CASE UNCHANGED api
  BY <1>1 DEF Unseen, PhaseOf, TestsOf, FinalizedAtOf
<1>2. CASE Write(a, obj)
  <2>1. api' = [api EXCEPT ![a] = obj] /\ api \in [Arrivals -> Arrival]
    BY <1>2 DEF Write, TypeOK
  <2>2. \A b \in Arrivals : api'[b] = IF b = a THEN obj ELSE api[b]
    BY <2>1
  <2>3. PhaseOf' = [PhaseOf EXCEPT ![a] = obj.phase]
    BY <2>2 DEF PhaseOf
  <2>4. TestsOf' = [TestsOf EXCEPT ![a] = obj.tests]
    BY <2>2 DEF TestsOf
  <2>5. FinalizedAtOf' = [FinalizedAtOf EXCEPT ![a] = obj.finalizedAt]
    BY <2>2 DEF FinalizedAtOf
  <2> QED BY <2>3, <2>4, <2>5
<1> QED BY <1>1, <1>2 DEF PatchStatus

\* A patch that stamps the Arrival, and one that does not.
LEMMA StampSeen ==
  ASSUME NEW a \in Arrivals, NEW t \in 1..clock,
         FinalizedAtOf' = [FinalizedAtOf EXCEPT ![a] = t]
  PROVE  Lifecycle!Stamp(a)
BY DEF Lifecycle!Stamp, FinalizedAtOf

LEMMA NoStampSeen ==
  ASSUME NEW a \in Arrivals, FinalizedAtOf' = [FinalizedAtOf EXCEPT ![a] = api[a].finalizedAt]
  PROVE  FinalizedAtOf' = FinalizedAtOf
BY DEF FinalizedAtOf

LEMMA SeenOf == \A a \in Arrivals : /\ PhaseOf[a] = api[a].phase /\ TestsOf[a] = api[a].tests
                                    /\ FinalizedAtOf[a] = api[a].finalizedAt
BY DEF PhaseOf, TestsOf, FinalizedAtOf

\* reconcileOne's patches are the lifecycle's Skip, Unskip and Reopen.
LEMMA PatchBranchRefines ==
  ASSUME TypeOK, TurnInv, InTurn, NEW w \in Workers, NEW a \in Arrivals,
         SkipArrival(w, a) \/ Unskip(w, a) \/ Retest(w, a)
  PROVE  Unseen \/ Lifecycle!Next
<1>1. Take(w, a) /\ UNCHANGED <<clock, rollouts>>
  BY DEF SkipArrival, Unskip, Retest, world
<1>2. api[a] \in Arrival /\ clock \in Times \ {0}
  BY DEF TypeOK
<1>7. UNCHANGED api \/ api' # api
  OBVIOUS
<1>8. CASE UNCHANGED api
  BY <1>1, <1>8 DEF Unseen, PhaseOf, TestsOf, FinalizedAtOf
<1> SUFFICES ASSUME api' # api PROVE Unseen \/ Lifecycle!Next
  BY <1>7, <1>8
<1>3. /\ Snapshot(w, a).phase = api[a].phase
      /\ Snapshot(w, a).finalizedAt = api[a].finalizedAt
      /\ Snapshot(w, a).deployedAt \in rollouts[a]
  BY <1>1, TakeInTurn, RolledTake DEF TurnInv, RolledOut
<1>4. CASE SkipArrival(w, a)
  <2> DEFINE obj == [api[a] EXCEPT !.phase = "Skipped", !.finalizedAt = clock]
  <2>1. PatchStatus(a, obj) /\ api[a].phase \in Waiting
    BY <1>3, <1>4 DEF SkipArrival
  <2>2. /\ obj \in Arrival /\ obj.phase = "Skipped"
        /\ obj.tests = api[a].tests /\ obj.finalizedAt = clock
    BY <1>2 DEF Arrival, Phases
  <2> HIDE DEF obj
  <2>3. CASE /\ PhaseOf' = [PhaseOf EXCEPT ![a] = "Skipped"]
             /\ TestsOf' = [TestsOf EXCEPT ![a] = api[a].tests]
             /\ FinalizedAtOf' = [FinalizedAtOf EXCEPT ![a] = clock]
    <3>1. clock \in 1..clock
      BY <1>2 DEF Times
    <3>2. Lifecycle!Stamp(a)
      BY <2>3, <3>1, StampSeen
    <3>3. Lifecycle!Skip(a)
      BY <1>1, <2>1, <2>3, <3>2
         DEF Lifecycle!Skip, Lifecycle!Waiting, Waiting, Lifecycle!Become, PhaseOf, TestsOf,
             FinalizedAtOf
    <3> QED BY <3>3 DEF Lifecycle!Next
  <2> QED BY <1>1, <2>1, <2>2, <2>3, PatchSeen
<1>5. CASE Unskip(w, a)
  <2> DEFINE obj == [api[a] EXCEPT !.phase = "Pending"]
  <2>1. PatchStatus(a, obj) /\ api[a].phase = "Skipped"
    BY <1>3, <1>5 DEF Unskip
  <2>2. /\ obj \in Arrival /\ obj.phase = "Pending"
        /\ obj.tests = api[a].tests /\ obj.finalizedAt = api[a].finalizedAt
    BY <1>2 DEF Arrival, Phases, Waiting
  <2> HIDE DEF obj
  <2>3. CASE /\ PhaseOf' = [PhaseOf EXCEPT ![a] = "Pending"]
             /\ TestsOf' = [TestsOf EXCEPT ![a] = api[a].tests]
             /\ FinalizedAtOf' = [FinalizedAtOf EXCEPT ![a] = api[a].finalizedAt]
    <3>1. FinalizedAtOf' = FinalizedAtOf
      BY <2>3, NoStampSeen
    <3>2. Lifecycle!Unskip(a)
      BY <1>1, <2>1, <2>3, <3>1
         DEF Lifecycle!Unskip, Lifecycle!Become, PhaseOf, TestsOf, FinalizedAtOf
    <3> QED BY <3>2 DEF Lifecycle!Next
  <2> QED BY <1>1, <2>1, <2>2, <2>3, PatchSeen
<1>6. CASE Retest(w, a)
  <2> DEFINE obj == [api[a] EXCEPT !.phase = "Pending", !.tests = NoTests]
  <2>1. /\ PatchStatus(a, obj) /\ api[a].phase \in Verdicts
        /\ api[a].finalizedAt # 0
        /\ \E t \in rollouts[a] : t > api[a].finalizedAt + Cooldown
    BY <1>3, <1>6 DEF Retest, ShouldRetestOnRollout
  <2>2. /\ obj \in Arrival /\ obj.phase = "Pending"
        /\ obj.tests = NoTests /\ obj.finalizedAt = api[a].finalizedAt
    BY <1>2, NoTestsType DEF Arrival, Phases, Waiting
  <2> HIDE DEF obj
  <2>3. CASE /\ PhaseOf' = [PhaseOf EXCEPT ![a] = "Pending"]
             /\ TestsOf' = [TestsOf EXCEPT ![a] = NoTests]
             /\ FinalizedAtOf' = [FinalizedAtOf EXCEPT ![a] = api[a].finalizedAt]
    <3>1. FinalizedAtOf' = FinalizedAtOf
      BY <2>3, NoStampSeen
    <3>2. api[a].finalizedAt > 0
      <4>1. api[a].finalizedAt \in Nat
        BY <1>2, ControllerAssumption DEF Arrival, Times
      <4> QED BY <2>1, <4>1
    <3>3. NoTests = Lifecycle!AllOf("none")
      BY DEF NoTests, AllOf, Lifecycle!AllOf
    <3>4. Lifecycle!Reopen(a)
      BY <1>1, <2>1, <2>3, <3>1, <3>2, <3>3
         DEF Lifecycle!Reopen, Lifecycle!Verdicts, Verdicts, Lifecycle!Become, PhaseOf,
             TestsOf, FinalizedAtOf
    <3> QED BY <3>4 DEF Lifecycle!Next
  <2> QED BY <1>1, <2>1, <2>2, <2>3, PatchSeen
<1> QED BY <1>4, <1>5, <1>6

\* Its patches while a dispatch or a poll is under way are Evidence, Start,
\* Progress, Settle, Abort and Expire.
LEMMA LocalPatchRefines ==
  ASSUME TypeOK, TurnInv, NEW w \in Workers,
         \/ PatchEvidence(w) \/ PublishTesting(w) \/ PatchProgress(w)
         \/ RecordVerdict(w) \/ FinalizeCommits(w)
  PROVE  Unseen \/ Lifecycle!Next
<1> DEFINE r == wk[w]
<1>1. r.pc \notin {"idle", "seed", "forensics"} /\ UNCHANGED <<clock, rollouts>>
  BY DEF PatchEvidence, PublishTesting, PatchProgress, RecordVerdict, FinalizeCommits, At, world
<1>0. PICK a \in Arrivals : a = r.arr
  BY <1>1, TurnUnderWay
<1> DEFINE u == api[a]
<1>2. /\ r \in Worker /\ a \in Arrivals /\ Knows(r, u, clock)
      /\ u \in Arrival /\ Consistent(u) /\ r.tests \in Tests
      /\ clock \in Times \ {0}
  BY <1>0, <1>1, TurnUnderWay DEF TypeOK
<1>3. ASSUME NEW obj \in Arrival, UNCHANGED <<api, watch>> \/ PatchStatus(a, obj)
      PROVE  \/ Unseen
             \/ /\ PhaseOf' = [PhaseOf EXCEPT ![a] = obj.phase]
                /\ TestsOf' = [TestsOf EXCEPT ![a] = obj.tests]
                /\ FinalizedAtOf' = [FinalizedAtOf EXCEPT ![a] = obj.finalizedAt]
  BY <1>1, <1>2, <1>3, PatchSeen
<1>4. CASE PatchEvidence(w)
  <2> DEFINE ts  == DispatchEvidence(r.todo)
             obj == [u EXCEPT !.tests = ts]
  <2>1. r.pc = "evidence" /\ PatchStatus(a, obj)
    BY <1>0, <1>4 DEF PatchEvidence, At
  <2>2. u.phase \in Waiting
    BY <1>2, <2>1 DEF Knows
  <2>3. ts \in [Packs -> Lifecycle!Unsettled] /\ ts \in Tests
    BY DEF DispatchEvidence, Lifecycle!Unsettled, Tests, Status, Unsettled
  <2> HIDE DEF ts
  <2>4. /\ obj \in Arrival /\ obj.phase = u.phase
        /\ obj.tests = ts /\ obj.finalizedAt = u.finalizedAt
    BY <1>2, <2>3 DEF Arrival
  <2> HIDE DEF obj
  <2>5. CASE /\ PhaseOf' = [PhaseOf EXCEPT ![a] = u.phase]
             /\ TestsOf' = [TestsOf EXCEPT ![a] = ts]
             /\ FinalizedAtOf' = [FinalizedAtOf EXCEPT ![a] = u.finalizedAt]
    <3>1. FinalizedAtOf' = FinalizedAtOf
      BY <1>2, <2>5, NoStampSeen
    <3>2. Lifecycle!Evidence(a)
      BY <1>1, <1>2, <2>2, <2>3, <2>5, <3>1
         DEF Lifecycle!Evidence, Lifecycle!Waiting, Waiting, Lifecycle!Become, PhaseOf,
             TestsOf, FinalizedAtOf
    <3> QED BY <1>2, <3>2 DEF Lifecycle!Next
  <2> QED BY <1>3, <2>1, <2>4, <2>5
<1>5. CASE PublishTesting(w)
  <2> DEFINE obj == [u EXCEPT !.phase = "Testing", !.tests = AllOf("Running")]
  <2>1. r.pc = "publish" /\ PatchStatus(a, obj)
    BY <1>0, <1>5 DEF PublishTesting, At
  <2>2. u.phase \in Waiting
    BY <1>2, <2>1 DEF Knows
  <2>3. AllOf("Running") \in Tests /\ AllOf("Running") = Lifecycle!AllOf("Running")
    BY DEF AllOf, Lifecycle!AllOf, Tests, Status, Unsettled
  <2>4. /\ obj \in Arrival /\ obj.phase = "Testing"
        /\ obj.tests = AllOf("Running") /\ obj.finalizedAt = u.finalizedAt
    BY <1>2, <2>3 DEF Arrival, Phases
  <2> HIDE DEF obj
  <2>5. CASE /\ PhaseOf' = [PhaseOf EXCEPT ![a] = "Testing"]
             /\ TestsOf' = [TestsOf EXCEPT ![a] = AllOf("Running")]
             /\ FinalizedAtOf' = [FinalizedAtOf EXCEPT ![a] = u.finalizedAt]
    <3>1. FinalizedAtOf' = FinalizedAtOf
      BY <1>2, <2>5, NoStampSeen
    <3>2. Lifecycle!Start(a)
      BY <1>1, <1>2, <2>2, <2>3, <2>5, <3>1
         DEF Lifecycle!Start, Lifecycle!Waiting, Waiting, Lifecycle!Become, PhaseOf, TestsOf,
             FinalizedAtOf
    <3> QED BY <1>2, <3>2 DEF Lifecycle!Next
  <2> QED BY <1>3, <2>1, <2>4, <2>5
<1>6. CASE PatchProgress(w)
  <2> DEFINE obj == [u EXCEPT !.tests = r.tests]
  <2>1. r.pc = "poll" /\ PatchStatus(a, obj)
    BY <1>0, <1>6 DEF PatchProgress, At
  <2>2. /\ u.phase = "Testing" /\ Lifecycle!Extends(u.tests, r.tests)
        /\ r.tests \in [Packs -> {"Running", "Passed", "Failed"}]
    BY <1>2, <2>1 DEF Knows
  <2>3. /\ obj \in Arrival /\ obj.phase = "Testing"
        /\ obj.tests = r.tests /\ obj.finalizedAt = u.finalizedAt
    BY <1>2, <2>2 DEF Arrival
  <2> HIDE DEF obj
  <2>4. CASE /\ PhaseOf' = [PhaseOf EXCEPT ![a] = "Testing"]
             /\ TestsOf' = [TestsOf EXCEPT ![a] = r.tests]
             /\ FinalizedAtOf' = [FinalizedAtOf EXCEPT ![a] = u.finalizedAt]
    <3>1. FinalizedAtOf' = FinalizedAtOf
      BY <1>2, <2>4, NoStampSeen
    <3>2. Lifecycle!Progress(a)
      BY <1>1, <1>2, <2>2, <2>4, <3>1
         DEF Lifecycle!Progress, Lifecycle!Become, PhaseOf, TestsOf, FinalizedAtOf
    <3> QED BY <1>2, <3>2 DEF Lifecycle!Next
  <2> QED BY <1>3, <2>1, <2>3, <2>4
<1>7. CASE RecordVerdict(w)
  <2> DEFINE obj == [u EXCEPT !.phase = r.phase, !.tests = r.tests, !.finalizedAt = clock]
  <2>1. r.pc = "record" /\ PatchStatus(a, obj)
    BY <1>0, <1>7 DEF RecordVerdict, At
  <2>2. /\ u.phase = "Testing" /\ Lifecycle!Extends(u.tests, r.tests)
        /\ r.tests \in [Packs -> {"Passed", "Failed"}]
        /\ r.phase = Lifecycle!Verdict(r.tests)
    BY <1>2, <2>1 DEF Knows
  <2>3. /\ obj \in Arrival /\ obj.phase = r.phase
        /\ obj.tests = r.tests /\ obj.finalizedAt = clock
    BY <1>2 DEF Arrival, Worker
  <2> HIDE DEF obj
  <2>4. CASE /\ PhaseOf' = [PhaseOf EXCEPT ![a] = r.phase]
             /\ TestsOf' = [TestsOf EXCEPT ![a] = r.tests]
             /\ FinalizedAtOf' = [FinalizedAtOf EXCEPT ![a] = clock]
    <3>1. clock \in 1..clock
      BY <1>2 DEF Times
    <3>2. Lifecycle!Stamp(a)
      BY <1>2, <2>4, <3>1, StampSeen
    <3>3. Lifecycle!Settle(a)
      BY <1>1, <1>2, <2>2, <2>4, <3>2
         DEF Lifecycle!Settle, Lifecycle!Become, PhaseOf, TestsOf, FinalizedAtOf
    <3> QED BY <1>2, <3>3 DEF Lifecycle!Next
  <2> QED BY <1>3, <2>1, <2>3, <2>4
<1>8. CASE FinalizeCommits(w)
  <2> DEFINE obj == [u EXCEPT !.phase = r.phase, !.tests = r.tests, !.finalizedAt = r.stamp]
  <2>1. r.pc = "commit" /\ PatchStatus(a, obj)
    BY <1>0, <1>8 DEF FinalizeCommits, At
  <2>2. r.stamp \in 1..clock /\ Ending(r, u)
    BY <1>2, <2>1 DEF Knows
  <2>3. /\ obj \in Arrival /\ obj.phase = r.phase
        /\ obj.tests = r.tests /\ obj.finalizedAt = r.stamp
    BY <1>2 DEF Arrival, Worker
  <2> HIDE DEF obj
  <2>4. CASE /\ PhaseOf' = [PhaseOf EXCEPT ![a] = r.phase]
             /\ TestsOf' = [TestsOf EXCEPT ![a] = r.tests]
             /\ FinalizedAtOf' = [FinalizedAtOf EXCEPT ![a] = r.stamp]
    <3>1. Lifecycle!Stamp(a)
      BY <1>2, <2>2, <2>4, StampSeen
    <3>2. CASE r.phase = "Failed" /\ u.phase \in Waiting /\ r.tests \in [Packs -> {"none", "Failed"}]
      <4>1. Lifecycle!Abort(a)
        BY <1>1, <1>2, <2>4, <3>1, <3>2
           DEF Lifecycle!Abort, Lifecycle!Waiting, Waiting, Lifecycle!Become, PhaseOf,
               TestsOf, FinalizedAtOf
      <4> QED BY <1>2, <4>1 DEF Lifecycle!Next
    <3>3. CASE r.phase = "Timeout" /\ u.phase = "Testing" /\ r.tests = Promoted(u.tests, "Timeout")
      <4>1. u.tests \in Tests /\ \A p \in Packs : u.tests[p] \in {"Running", "Passed", "Failed"}
        BY <1>2, <3>3 DEF Arrival, Consistent
      <4>2. /\ r.tests \in [Packs -> Lifecycle!Settled]
            /\ \A p \in Packs : r.tests[p] = IF u.tests[p] \in Lifecycle!Unsettled
                                             THEN "Timeout" ELSE u.tests[p]
        BY <3>3, <4>1 DEF Promoted, Unsettled, Lifecycle!Settled, Lifecycle!Unsettled
      <4>3. Lifecycle!Expire(a)
        BY <1>1, <1>2, <2>4, <3>1, <3>3, <4>2
           DEF Lifecycle!Expire, Lifecycle!Become, PhaseOf, TestsOf, FinalizedAtOf
      <4> QED BY <1>2, <4>3 DEF Lifecycle!Next
    <3>4. CASE /\ r.phase = "Passed" /\ u.phase = "Testing" /\ ~RealDispatch
               /\ r.tests = Promoted(u.tests, "Passed")
      <4>1. u.tests \in Tests /\ \A p \in Packs : u.tests[p] \in {"Running", "Passed"}
        BY <1>2, <3>4 DEF Arrival, Consistent
      <4>2. r.tests \in [Packs -> {"Passed"}]
        BY <3>4, <4>1 DEF Promoted, Unsettled
      <4>3. Lifecycle!Extends(u.tests, r.tests)
        BY <4>1, <4>2 DEF Lifecycle!Extends, Lifecycle!Unsettled, Lifecycle!Settled
      <4>4. r.tests \in [Packs -> {"Passed", "Failed"}] /\ r.phase = Lifecycle!Verdict(r.tests)
        BY <3>4, <4>2 DEF Lifecycle!Verdict
      <4>5. Lifecycle!Settle(a)
        BY <1>1, <1>2, <2>4, <3>1, <3>4, <4>3, <4>4
           DEF Lifecycle!Settle, Lifecycle!Become, PhaseOf, TestsOf, FinalizedAtOf
      <4> QED BY <1>2, <4>5 DEF Lifecycle!Next
    <3> QED BY <2>2, <3>2, <3>3, <3>4 DEF Ending
  <2> QED BY <1>3, <2>1, <2>3, <2>4
<1> QED BY <1>4, <1>5, <1>6, <1>7, <1>8

\* The note of a forensics Job is no business of the lifecycle's.
LEMMA NoteUnseen ==
  ASSUME TypeOK, NEW w \in Workers, DispatchForensics(w)
  PROVE  Unseen
<1>1. PICK a \in Arrivals : a = wk[w].arr
  BY DEF TypeOK, Worker
<1> DEFINE obj == [api[a] EXCEPT !.forensics = TRUE]
<1>2. (UNCHANGED <<api, watch>> \/ PatchStatus(a, obj)) /\ UNCHANGED <<clock, rollouts>>
  BY <1>1 DEF DispatchForensics, world
<1>5. api[a] \in Arrival
  BY DEF TypeOK
<1>3. /\ obj \in Arrival /\ obj.phase = api[a].phase
      /\ obj.tests = api[a].tests /\ obj.finalizedAt = api[a].finalizedAt
  BY <1>5 DEF Arrival
<1> HIDE DEF obj
<1>4. CASE /\ PhaseOf' = [PhaseOf EXCEPT ![a] = api[a].phase]
           /\ TestsOf' = [TestsOf EXCEPT ![a] = api[a].tests]
           /\ FinalizedAtOf' = [FinalizedAtOf EXCEPT ![a] = api[a].finalizedAt]
  <2>1. FinalizedAtOf' = FinalizedAtOf
    BY <1>4, NoStampSeen
  <2>2. PhaseOf' = PhaseOf /\ TestsOf' = TestsOf
    BY <1>4 DEF PhaseOf, TestsOf
  <2> QED BY <1>2, <2>1, <2>2 DEF Unseen
<1> QED BY <1>2, <1>3, <1>4, PatchSeen

LEMMA UpsertRefines ==
  ASSUME TypeOK, NEW a \in Arrivals, Upsert(a)
  PROVE  Lifecycle!Announce(a)
<1>1. PICK t \in 1..clock, d \in {api[a].declared, TRUE} :
        /\ Write(a, [api[a] EXCEPT !.deployedAt = t, !.declared = d])
        /\ rollouts' = [rollouts EXCEPT ![a] = rollouts[a] \cup {t}]
  BY DEF Upsert
<1>2. api' = [api EXCEPT ![a] = [api[a] EXCEPT !.deployedAt = t, !.declared = d]]
  BY <1>1 DEF Write
<1>3. \A b \in Arrivals : /\ api'[b].phase = api[b].phase /\ api'[b].tests = api[b].tests
                          /\ api'[b].finalizedAt = api[b].finalizedAt
  BY <1>2 DEF TypeOK, Arrival
<1>4. PhaseOf' = PhaseOf /\ TestsOf' = TestsOf /\ FinalizedAtOf' = FinalizedAtOf
  BY <1>3 DEF PhaseOf, TestsOf, FinalizedAtOf
<1>5. UNCHANGED clock
  BY DEF Upsert
<1> QED BY <1>1, <1>4, <1>5 DEF Lifecycle!Announce, PhaseOf, TestsOf, FinalizedAtOf

LEMMA TurnRefines ==
  ASSUME TypeOK, TurnInv, [Next /\ InTurn]_vars
  PROVE  [Lifecycle!Next]_(Lifecycle!vars)
<1>1. ASSUME UNCHANGED <<api, rollouts, clock>> PROVE Unseen
  BY <1>1 DEF Unseen, PhaseOf, TestsOf, FinalizedAtOf
<1>2. CASE UNCHANGED vars
  BY <1>1, <1>2, UnseenStutters DEF vars
<1>3. ASSUME NEW w \in Workers, Work(w), InTurn PROVE Unseen \/ Lifecycle!Next
  <2>1. ASSUME NEW a \in Arrivals,
               \/ LeaveAlone(w, a) \/ SkipReentry(w, a) \/ EnterDispatch(w, a)
               \/ MissTimer(w, a) \/ EndByTimer(w, a) \/ Wait(w, a) \/ StartPoll(w, a)
        PROVE  Unseen
    BY <1>1, <2>1 DEF LeaveAlone, SkipReentry, EnterDispatch, MissTimer, EndByTimer, Wait,
                      StartPoll, world
  <2>2. ASSUME \/ GatePasses(w) \/ GateFails(w) \/ SeedTimer(w)
               \/ AllSettled(w) \/ FinalizeForgets(w)
        PROVE  Unseen
    BY <1>1, <2>2 DEF GatePasses, GateFails, SeedTimer, AllSettled, FinalizeForgets, world
  <2>3. ASSUME NEW p \in Packs,
               \/ DispatchPack(w, p) \/ DispatchFails(w, p)
               \/ DispatchPanics(w, p) \/ DispatchInterrupted(w, p)
               \/ PollPack(w, p)
        PROVE  Unseen
    BY <1>1, <2>3 DEF DispatchPack, DispatchFails, DispatchPanics, DispatchInterrupted,
                      PollPack, Reboot, world
  <2> QED BY <1>3, <2>1, <2>2, <2>3, NoteUnseen, PatchBranchRefines, LocalPatchRefines DEF Work
<1>4. CASE Tick
  <2>1. PhaseOf' = PhaseOf /\ TestsOf' = TestsOf /\ FinalizedAtOf' = FinalizedAtOf
    BY <1>4 DEF Tick, PhaseOf, TestsOf, FinalizedAtOf
  <2>2. Lifecycle!Tick
    BY <1>4, <2>1 DEF Tick, Lifecycle!Tick, PhaseOf, TestsOf, FinalizedAtOf
  <2> QED BY <2>2 DEF Lifecycle!Next
<1>5. ASSUME NEW a \in Arrivals, Upsert(a) PROVE Lifecycle!Next
  BY <1>5, UpsertRefines DEF Lifecycle!Next
<1>6. CASE TickerLists \/ Restart \/ (\E a \in Arrivals : Deliver(a) \/ Age(a)
              \/ \E p \in Packs : Cluster(a, p))
  <2>1. UNCHANGED <<api, rollouts, clock>>
    BY <1>6 DEF TickerLists, Restart, Reboot, Deliver, Age, Cluster
  <2> QED BY <1>1, <2>1, UnseenStutters
<1> QED BY <1>2, <1>3, <1>4, <1>5, <1>6, UnseenStutters DEF Next

\* The refinement: as long as no goroutine acts on an out-of-date copy of an
\* Arrival or while the other one is at it, what is seen of .status is the
\* abstract lifecycle, verdicts, cooldown and all - with both goroutines on a
\* lagging informer, and although patches get lost, requests fail, the process
\* restarts at any moment and the watcher rolls out and declares packs meanwhile.
\* All that breaks the lifecycle is a reconcile out of turn, which nothing in the
\* code prevents.
THEOREM InTurnImplementsLifecycle == InTurnSpec => ImplementsLifecycle
<1>1. Init => Lifecycle!Init
  <2> SUFFICES ASSUME Init PROVE Lifecycle!Init
    OBVIOUS
  <2>1. \A a \in Arrivals : /\ api[a].phase = "New" /\ api[a].tests = NoTests
                            /\ api[a].finalizedAt = 0
    BY DEF Init
  <2>2. NoTests = Lifecycle!AllOf("none")
    BY DEF NoTests, AllOf, Lifecycle!AllOf
  <2> QED BY <2>1, <2>2 DEF Init, Lifecycle!Init
<1>2. TypeOK /\ TurnInv /\ [Next /\ InTurn]_vars => [Lifecycle!Next]_(Lifecycle!vars)
  BY TurnRefines
<1> QED BY <1>1, <1>2, AlwaysTurn, PTL DEF InTurnSpec, ImplementsLifecycle, Lifecycle!Spec

-----------------------------------------------------------------------------
(* As long as the watcher is silent, the re-entry guard does what it is for:   *)
(* whatever both goroutines have queued, lose or crash over, they never        *)
(* dispatch one Arrival together.  An entry that a dispatch has made may be    *)
(* gone too early, but only once the other goroutine has seen the Arrival out  *)
(* of the waiting phases, and then it never sees it waiting again.             *)

\* The watcher has not written yet.
Quiet == budget.upserts = 0

Left(o)     == o.phase \notin Waiting
AllLeft(s)  == \A i \in 1..Len(s) : Left(s[i])
SomeLeft(s) == \E i \in 1..Len(s) : Left(s[i])

\* Copies in the order of the writes: the waiting phases are left for good.
Later(s) == \A i, j \in 1..Len(s) : i < j /\ Left(s[i]) => Left(s[j])

\* What every copy of a says, as nothing is rolled out or declared.
Agreed(a) ==
    {o \in Arrival : /\ o.declared = api[a].declared
                     /\ o.deployedAt = 1
                     /\ o.phase = "Skipped" => ~o.declared}

AgreedCopies ==
    \A a \in Arrivals :
        /\ api[a] \in Agreed(a) /\ store[a] \in Agreed(a)
        /\ watch[a] \in Seq(Agreed(a))
        /\ \A w \in Workers : inbox[w][a] \in Seq(Agreed(a))

\* The API server is ahead of the watch, the watch of the store, and the store
\* of the inboxes.
InOrder ==
    \A a \in Arrivals :
        /\ Later(watch[a])
        /\ SomeLeft(watch[a]) => Left(api[a])
        /\ Left(store[a]) => AllLeft(watch[a]) /\ Left(api[a])
        /\ \A w \in Workers : /\ Later(inbox[w][a])
                              /\ SomeLeft(inbox[w][a]) => Left(store[a])

\* w will not see a waiting again in this process.
Past(w, a) == AllLeft(inbox[w][a]) /\ Left(store[a])

\* On the way of a dispatch, up to its end by finalize.
Holding(r, a) ==
    /\ r.arr = a
    /\ \/ r.pc \in {"gate", "dispatch", "publish", "evidence"}
       \/ r.pc = "finalize" /\ r.phase = "Failed"

\* On the way of a poll that may forget the entry.
Watching(r, a) ==
    /\ r.arr = a
    /\ r.pc \in {"poll", "finalize"}
    /\ ~Holding(r, a)

Ends(r) == r.pc \in {"finalize", "commit", "record"} => r.phase \in Verdicts

Guarded ==
    /\ \A w \in Workers : Ends(wk[w])
    /\ \A a \in Arrivals, v, w \in Workers : Holding(wk[v], a) /\ Holding(wk[w], a) => v = w
    /\ \A a \in Arrivals, v, w \in Workers :
          Holding(wk[v], a) /\ v # w /\ inFlight[a] = "absent" => Past(w, a)
    /\ \A a \in Arrivals, w \in Workers : Watching(wk[w], a) => Past(w, a)

SingleInv == AgreedCopies /\ InOrder /\ Guarded

\* Queues of copies, as they are taken from and added to.
LEMMA QueueTail ==
  ASSUME NEW S, NEW s \in Seq(S), s # <<>>
  PROVE  /\ Tail(s) \in Seq(S) /\ Len(Tail(s)) + 1 = Len(s) /\ Len(s) \in Nat \ {0}
         /\ Head(s) = s[1]
         /\ \A i \in 1..Len(Tail(s)) : Tail(s)[i] = s[i + 1] /\ i + 1 \in 1..Len(s)
OBVIOUS

LEMMA QueueAppend ==
  ASSUME NEW S, NEW s \in Seq(S), NEW o \in S
  PROVE  /\ Append(s, o) \in Seq(S) /\ Len(Append(s, o)) = Len(s) + 1 /\ Len(s) \in Nat
         /\ \A i \in 1..Len(s) : Append(s, o)[i] = s[i]
         /\ Append(s, o)[Len(s) + 1] = o
OBVIOUS

LEMMA TailKeeps ==
  ASSUME NEW s \in Seq(Arrival), s # <<>>
  PROVE  /\ Later(s) => Later(Tail(s))
         /\ AllLeft(s) => AllLeft(Tail(s)) /\ Left(Head(s))
         /\ SomeLeft(Tail(s)) => SomeLeft(s)
         /\ Left(Head(s)) => SomeLeft(s)
         /\ Later(s) /\ Left(Head(s)) => AllLeft(Tail(s))
<1> DEFINE t == Tail(s)
<1>1. /\ Len(t) + 1 = Len(s) /\ Len(s) \in Nat \ {0} /\ Head(s) = s[1] /\ Len(t) \in Nat
      /\ \A i \in 1..Len(t) : t[i] = s[i + 1] /\ i + 1 \in 1..Len(s)
  BY QueueTail
<1>2. 1 \in 1..Len(s)
  BY <1>1
<1> HIDE DEF t
<1>3. Later(s) => Later(t)
  <2> SUFFICES ASSUME Later(s), NEW i \in 1..Len(t), NEW j \in 1..Len(t), i < j, Left(t[i])
               PROVE  Left(t[j])
    BY DEF Later
  <2>1. i + 1 < j + 1
    BY <1>1
  <2> QED BY <1>1, <2>1 DEF Later
<1>4. AllLeft(s) => AllLeft(t) /\ Left(Head(s))
  BY <1>1, <1>2 DEF AllLeft
<1>5. SomeLeft(t) => SomeLeft(s)
  BY <1>1 DEF SomeLeft
<1>6. Left(Head(s)) => SomeLeft(s)
  BY <1>1, <1>2 DEF SomeLeft
<1>7. Later(s) /\ Left(Head(s)) => AllLeft(t)
  <2> SUFFICES ASSUME Later(s), Left(s[1]), NEW i \in 1..Len(t) PROVE Left(t[i])
    BY <1>1 DEF AllLeft
  <2>1. 1 < i + 1
    BY <1>1
  <2> QED BY <1>1, <1>2, <2>1 DEF Later
<1> QED BY <1>3, <1>4, <1>5, <1>6, <1>7 DEF t

LEMMA AppendKeeps ==
  ASSUME NEW s \in Seq(Arrival), NEW o \in Arrival
  PROVE  /\ Later(s) /\ (SomeLeft(s) => Left(o)) => Later(Append(s, o))
         /\ SomeLeft(Append(s, o)) => SomeLeft(s) \/ Left(o)
         /\ AllLeft(s) /\ Left(o) => AllLeft(Append(s, o))
<1> DEFINE t == Append(s, o)
           n == Len(s)
<1>1. /\ Len(t) = n + 1 /\ n \in Nat
      /\ \A i \in 1..n : t[i] = s[i]
      /\ t[n + 1] = o
  BY QueueAppend
<1> HIDE DEF t
<1>2. \A i \in 1..Len(t) : i \in 1..n \/ i = n + 1
  BY <1>1
<1>3. Later(s) /\ (SomeLeft(s) => Left(o)) => Later(t)
  <2> SUFFICES ASSUME Later(s), SomeLeft(s) => Left(o),
                      NEW i \in 1..Len(t), NEW j \in 1..Len(t), i < j, Left(t[i])
               PROVE  Left(t[j])
    BY DEF Later
  <2>1. i \in 1..n
    BY <1>1, <1>2
  <2>2. CASE j \in 1..n
    BY <1>1, <2>1, <2>2 DEF Later
  <2>3. CASE j = n + 1
    BY <1>1, <2>1, <2>3 DEF SomeLeft
  <2> QED BY <1>2, <2>2, <2>3
<1>4. SomeLeft(t) => SomeLeft(s) \/ Left(o)
  BY <1>1, <1>2 DEF SomeLeft
<1>5. AllLeft(s) /\ Left(o) => AllLeft(t)
  BY <1>1, <1>2 DEF AllLeft
<1> QED BY <1>3, <1>4, <1>5 DEF t

LEMMA EmptyQueue == Later(<<>>) /\ AllLeft(<<>>) /\ ~SomeLeft(<<>>)
<1>1. Len(<<>>) = 0 /\ 1..0 = {}
  OBVIOUS
<1> QED BY <1>1 DEF Later, AllLeft, SomeLeft

LEMMA OneInQueue == \A o : /\ Later(<<o>>)
                           /\ AllLeft(<<o>>) <=> Left(o)
                           /\ SomeLeft(<<o>>) <=> Left(o)
<1>1. \A o : Len(<<o>>) = 1 /\ <<o>>[1] = o
  OBVIOUS
<1>2. 1..1 = {1} /\ ~(1 < 1)
  OBVIOUS
<1> QED BY ONLY <1>1, <1>2 DEF Later, AllLeft, SomeLeft

\* Nothing is retested and nothing skipped is taken up again.
LEMMA QuietCopies ==
  ASSUME NEW a \in Arrivals, NEW o \in Agreed(a)
  PROVE  /\ o \in Arrival /\ ~ShouldRetestOnRollout(o)
         /\ ~(o.phase = "Skipped" /\ o.declared)
<1>1. o \in Arrival /\ o.deployedAt = 1 /\ o.finalizedAt \in Nat /\ Cooldown \in Nat
  BY ControllerAssumption DEF Agreed, Arrival, Times
<1>2. ~(o.finalizedAt # 0 /\ 1 > o.finalizedAt + Cooldown)
  BY ONLY <1>1
<1> QED BY <1>1, <1>2 DEF Agreed, ShouldRetestOnRollout

\* A goroutine that takes a copy.
LEMMA SingleTake ==
  ASSUME TypeOK, SingleInv, NEW w \in Workers, NEW a \in Arrivals, Take(w, a)
  PROVE  /\ wk[w].pc = "idle"
         /\ Snapshot(w, a) \in Agreed(a)
         /\ \A v \in Workers, b \in Arrivals :
               inbox'[v][b] = IF v = w /\ b = a THEN Tail(inbox[w][a]) ELSE inbox[v][b]
         /\ inbox[w][a] \in Seq(Arrival) /\ inbox[w][a] # <<>>
         /\ Left(Snapshot(w, a)) => Left(store[a]) /\ AllLeft(Tail(inbox[w][a]))
         /\ ~Left(Snapshot(w, a)) => ~Past(w, a)
<1>1. /\ wk[w].pc = "idle" /\ inbox[w][a] # <<>>
      /\ inbox' = [inbox EXCEPT ![w][a] = Tail(inbox[w][a])]
  BY DEF Take, At
<1>2. /\ inbox \in [Workers -> [Arrivals -> Seq(Arrival)]] /\ inbox[w][a] \in Seq(Arrival)
      /\ inbox[w][a] \in Seq(Agreed(a))
  BY DEF TypeOK, SingleInv, AgreedCopies
<1>3. Head(inbox[w][a]) \in Agreed(a)
  BY <1>1, <1>2
<1>4. \A v \in Workers, b \in Arrivals :
         inbox'[v][b] = IF v = w /\ b = a THEN Tail(inbox[w][a]) ELSE inbox[v][b]
  BY <1>1, <1>2
<1>5. Later(inbox[w][a]) /\ (SomeLeft(inbox[w][a]) => Left(store[a]))
  BY DEF SingleInv, InOrder
<1>6. Left(Head(inbox[w][a])) => Left(store[a]) /\ AllLeft(Tail(inbox[w][a]))
  BY <1>1, <1>2, <1>5, TailKeeps
<1>7. ~Left(Head(inbox[w][a])) => ~Past(w, a)
  BY <1>1, <1>2, TailKeeps DEF Past
<1> QED BY <1>1, <1>2, <1>3, <1>4, <1>6, <1>7 DEF Snapshot

\* The inboxes as the goroutines leave them.
Consumed ==
    \A v \in Workers, b \in Arrivals :
        \/ inbox'[v][b] = inbox[v][b]
        \/ inbox[v][b] # <<>> /\ inbox'[v][b] = Tail(inbox[v][b])

LEMMA TakeConsumes ==
  ASSUME TypeOK, SingleInv, NEW w \in Workers, NEW a \in Arrivals, Take(w, a)
  PROVE  Consumed
BY SingleTake DEF Consumed

LEMMA ConsumedOrder ==
  ASSUME TypeOK, AgreedCopies, InOrder, Consumed, NEW v \in Workers, NEW b \in Arrivals
  PROVE  /\ Later(inbox'[v][b])
         /\ SomeLeft(inbox'[v][b]) => Left(store[b])
         /\ AllLeft(inbox[v][b]) => AllLeft(inbox'[v][b])
         /\ inbox'[v][b] \in Seq(Agreed(b))
<1>1. inbox[v][b] \in Seq(Arrival) /\ inbox[v][b] \in Seq(Agreed(b))
  BY DEF TypeOK, AgreedCopies
<1>2. Later(inbox[v][b]) /\ (SomeLeft(inbox[v][b]) => Left(store[b]))
  BY DEF InOrder
<1>3. CASE inbox'[v][b] = inbox[v][b]
  BY <1>1, <1>2, <1>3
<1>4. CASE inbox[v][b] # <<>> /\ inbox'[v][b] = Tail(inbox[v][b])
  <2>1. Tail(inbox[v][b]) \in Seq(Agreed(b))
    BY <1>1, <1>4
  <2> QED BY <1>1, <1>2, <1>4, <2>1, TailKeeps
<1> QED BY <1>3, <1>4 DEF Consumed

LEMMA PastStays ==
  ASSUME TypeOK, AgreedCopies, InOrder, Consumed, UNCHANGED store
  PROVE  \A v \in Workers, b \in Arrivals : Past(v, b) => Past(v, b)'
BY ConsumedOrder DEF Past

\* A patch that neither declares, nor rolls out, nor returns to a waiting phase.
LEMMA CopiesPatch ==
  ASSUME TypeOK, AgreedCopies, InOrder, Consumed, UNCHANGED store,
         NEW a \in Arrivals, NEW obj \in Agreed(a), Left(api[a]) => Left(obj),
         UNCHANGED <<api, watch>> \/ PatchStatus(a, obj)
  PROVE  AgreedCopies' /\ InOrder'
<1>1. /\ api' = api \/ api' = [api EXCEPT ![a] = obj]
      /\ watch' = watch \/ watch' = [watch EXCEPT ![a] = Append(watch[a], obj)]
      /\ watch' # watch => api' = [api EXCEPT ![a] = obj]
  BY DEF PatchStatus, Write
<1>2. /\ api \in [Arrivals -> Arrival] /\ watch \in [Arrivals -> Seq(Arrival)]
      /\ obj \in Arrival /\ obj.declared = api[a].declared
  BY DEF TypeOK, Agreed
<1>3. \A b \in Arrivals :
         /\ api'[b] = api[b] \/ (b = a /\ api'[b] = obj)
         /\ watch'[b] = watch[b]
               \/ (b = a /\ watch'[b] = Append(watch[b], obj) /\ api'[b] = obj)
  BY <1>1, <1>2
<1>4. ASSUME NEW b \in Arrivals PROVE Agreed(b)' = Agreed(b)
  <2>1. api'[b].declared = api[b].declared
    BY <1>2, <1>3
  <2> QED BY <2>1 DEF Agreed
<1>5. ASSUME NEW b \in Arrivals
      PROVE  /\ api'[b] \in Agreed(b) /\ store[b] \in Agreed(b)
             /\ watch'[b] \in Seq(Agreed(b)) /\ watch[b] \in Seq(Arrival)
             /\ \A w \in Workers : inbox'[w][b] \in Seq(Agreed(b))
  <2>1. watch[b] \in Seq(Agreed(b)) /\ watch[b] \in Seq(Arrival)
    BY <1>2 DEF AgreedCopies
  <2>2. api[b] \in Agreed(b) /\ store[b] \in Agreed(b)
    BY DEF AgreedCopies
  <2>3. watch'[b] \in Seq(Agreed(b))
    <3>1. b = a => Append(watch[b], obj) \in Seq(Agreed(b))
      BY <2>1
    <3> QED BY <1>3, <2>1, <3>1
  <2>4. api'[b] \in Agreed(b)
    BY <1>3, <2>2
  <2> QED BY <2>1, <2>2, <2>3, <2>4, ConsumedOrder
<1>6. ASSUME NEW b \in Arrivals
      PROVE  /\ Later(watch'[b])
             /\ SomeLeft(watch'[b]) => Left(api'[b])
             /\ Left(store[b]) => AllLeft(watch'[b]) /\ Left(api'[b])
  <2>1. /\ Later(watch[b]) /\ (SomeLeft(watch[b]) => Left(api[b]))
        /\ Left(store[b]) => AllLeft(watch[b]) /\ Left(api[b])
    BY DEF InOrder
  <2>2. Left(api[b]) => Left(api'[b])
    BY <1>3
  <2>3. CASE watch'[b] = watch[b]
    BY <2>1, <2>2, <2>3
  <2>4. CASE b = a /\ watch'[b] = Append(watch[b], obj) /\ api'[b] = obj
    BY <1>2, <1>5, <2>1, <2>4, AppendKeeps
  <2> QED BY <1>3, <2>3, <2>4
<1>7. AgreedCopies'
  BY <1>4, <1>5 DEF AgreedCopies
<1>8. InOrder'
  BY <1>6, ConsumedOrder DEF InOrder
<1> QED BY <1>7, <1>8

LEMMA CopiesStay ==
  ASSUME TypeOK, AgreedCopies, InOrder, Consumed, UNCHANGED <<api, watch, store>>
  PROVE  AgreedCopies' /\ InOrder'
<1>1. PICK a \in Arrivals : TRUE
  BY ControllerAssumption
<1>2. api[a] \in Agreed(a)
  BY DEF AgreedCopies
<1> QED BY <1>2, CopiesPatch

\* The informer's step, and the List.
LEMMA CopiesDeliver ==
  ASSUME TypeOK, AgreedCopies, InOrder, NEW a \in Arrivals, Deliver(a)
  PROVE  /\ AgreedCopies' /\ InOrder'
         /\ \A v \in Workers, b \in Arrivals : Past(v, b) => Past(v, b)'
<1> DEFINE h == Head(watch[a])
<1>1. /\ watch[a] # <<>> /\ UNCHANGED api
      /\ watch' = [watch EXCEPT ![a] = Tail(watch[a])]
      /\ store' = [store EXCEPT ![a] = h]
      /\ inbox' = [w \in Workers |->
                      IF w = "handler" THEN [inbox[w] EXCEPT ![a] = Append(inbox[w][a], h)]
                      ELSE inbox[w]]
  BY DEF Deliver
<1>2. /\ watch \in [Arrivals -> Seq(Arrival)] /\ watch[a] \in Seq(Arrival)
      /\ watch[a] \in Seq(Agreed(a)) /\ store \in [Arrivals -> Arrival]
      /\ inbox \in [Workers -> [Arrivals -> Seq(Arrival)]]
  BY DEF TypeOK, AgreedCopies
<1>3. h \in Agreed(a) /\ h \in Arrival /\ Tail(watch[a]) \in Seq(Agreed(a))
  BY <1>1, <1>2
<1>4. \A b \in Arrivals : /\ watch'[b] = IF b = a THEN Tail(watch[a]) ELSE watch[b]
                          /\ store'[b] = IF b = a THEN h ELSE store[b]
  BY <1>1, <1>2
<1>5. \A w \in Workers, b \in Arrivals :
         inbox'[w][b] = inbox[w][b] \/ (b = a /\ inbox'[w][b] = Append(inbox[w][b], h))
  BY <1>1, <1>2
<1> HIDE DEF h
<1>6. ASSUME NEW b \in Arrivals PROVE Agreed(b)' = Agreed(b)
  BY <1>1 DEF Agreed
<1>7. ASSUME NEW w \in Workers, NEW b \in Arrivals
      PROVE  inbox'[w][b] \in Seq(Agreed(b))
  <2>1. inbox[w][b] \in Seq(Agreed(b))
    BY DEF AgreedCopies
  <2>2. b = a => Append(inbox[w][b], h) \in Seq(Agreed(b))
    BY <1>3, <2>1
  <2> QED BY <1>5, <2>1, <2>2
<1>8. \A b \in Arrivals : /\ api[b] \in Agreed(b) /\ store'[b] \in Agreed(b)
                          /\ watch'[b] \in Seq(Agreed(b))
  BY <1>3, <1>4 DEF AgreedCopies
<1>9. AgreedCopies'
  BY <1>1, <1>6, <1>7, <1>8 DEF AgreedCopies
<1>10. /\ Later(watch[a]) /\ (SomeLeft(watch[a]) => Left(api[a]))
       /\ Left(store[a]) => AllLeft(watch[a]) /\ Left(api[a])
  BY DEF InOrder
<1>11. /\ Later(Tail(watch[a])) /\ (SomeLeft(Tail(watch[a])) => Left(api[a]))
       /\ Left(h) => AllLeft(Tail(watch[a])) /\ Left(api[a])
       /\ Left(store[a]) => Left(h)
  BY <1>1, <1>2, <1>10, TailKeeps DEF h
<1>12. ASSUME NEW w \in Workers, NEW b \in Arrivals
       PROVE  /\ Later(inbox'[w][b])
              /\ SomeLeft(inbox'[w][b]) => Left(store'[b])
              /\ Past(w, b) => AllLeft(inbox'[w][b]) /\ Left(store'[b])
  <2>1. /\ Later(inbox[w][b]) /\ (SomeLeft(inbox[w][b]) => Left(store[b]))
        /\ inbox[w][b] \in Seq(Arrival)
    BY DEF InOrder, TypeOK
  <2>2. Left(store[b]) => Left(store'[b])
    BY <1>4, <1>11
  <2>3. CASE inbox'[w][b] = inbox[w][b]
    BY <2>1, <2>2, <2>3 DEF Past
  <2>4. CASE b = a /\ inbox'[w][b] = Append(inbox[w][b], h)
    <3>1. store'[b] = h
      BY <1>4, <2>4
    <3> QED BY <1>3, <2>1, <2>2, <2>4, <3>1, AppendKeeps DEF Past
  <2> QED BY <1>5, <2>3, <2>4
<1>13. ASSUME NEW b \in Arrivals
       PROVE  /\ Later(watch'[b]) /\ (SomeLeft(watch'[b]) => Left(api[b]))
              /\ Left(store'[b]) => AllLeft(watch'[b]) /\ Left(api[b])
  BY <1>4, <1>11 DEF InOrder
<1>14. InOrder'
  BY <1>1, <1>12, <1>13 DEF InOrder
<1>15. \A v \in Workers, b \in Arrivals : Past(v, b) => Past(v, b)'
  BY <1>12 DEF Past
<1> QED BY <1>9, <1>14, <1>15

LEMMA CopiesList ==
  ASSUME TypeOK, AgreedCopies, InOrder, TickerLists
  PROVE  /\ AgreedCopies' /\ InOrder'
         /\ \A v \in Workers, b \in Arrivals : Past(v, b) => Past(v, b)'
<1>1. /\ UNCHANGED <<api, watch, store>>
      /\ inbox' = [inbox EXCEPT !["ticker"] = [a \in Arrivals |-> <<store[a]>>]]
  BY DEF TickerLists
<1>2. inbox \in [Workers -> [Arrivals -> Seq(Arrival)]]
  BY DEF TypeOK
<1>3. \A w \in Workers, b \in Arrivals :
         inbox'[w][b] = inbox[w][b] \/ inbox'[w][b] = <<store[b]>>
  BY <1>1, <1>2
<1>4. ASSUME NEW b \in Arrivals PROVE Agreed(b)' = Agreed(b)
  BY <1>1 DEF Agreed
<1>5. ASSUME NEW w \in Workers, NEW b \in Arrivals
      PROVE  inbox'[w][b] \in Seq(Agreed(b))
  <2>1. inbox[w][b] \in Seq(Agreed(b)) /\ store[b] \in Agreed(b)
    BY DEF AgreedCopies
  <2>2. <<store[b]>> \in Seq(Agreed(b))
    BY <2>1
  <2> QED BY <1>3, <2>1, <2>2
<1>6. AgreedCopies'
  BY <1>1, <1>4, <1>5 DEF AgreedCopies
<1>7. InOrder'
  <2>1. ASSUME NEW w \in Workers, NEW b \in Arrivals
        PROVE  Later(inbox'[w][b]) /\ (SomeLeft(inbox'[w][b]) => Left(store[b]))
    BY <1>3, OneInQueue DEF InOrder
  <2> QED BY <1>1, <2>1 DEF InOrder
<1>8. \A v \in Workers, b \in Arrivals : Past(v, b) => Past(v, b)'
  BY <1>1, <1>3, OneInQueue DEF Past
<1> QED BY <1>6, <1>7, <1>8

\* A new process starts with what the API server has.
LEMMA CopiesListed ==
  ASSUME NEW objs \in [Arrivals -> Arrival], NEW b \in Arrivals, NEW w \in Workers
  PROVE  Listed(objs)[w][b] = <<objs[b]>> \/ Listed(objs)[w][b] = <<>>
BY DEF Listed

LEMMA SingleReboot ==
  ASSUME TypeOK, SingleInv, Reboot
  PROVE  SingleInv'
<1>1. /\ UNCHANGED api /\ store' = api /\ inbox' = Listed(api)
      /\ watch' = [a \in Arrivals |-> <<>>] /\ wk' = [w \in Workers |-> Idle]
      /\ api \in [Arrivals -> Arrival]
  BY DEF Reboot, TypeOK
<1>2. \A b \in Arrivals, w \in Workers : inbox'[w][b] = <<api[b]>> \/ inbox'[w][b] = <<>>
  BY <1>1, CopiesListed
<1>3. ASSUME NEW b \in Arrivals PROVE Agreed(b)' = Agreed(b)
  BY <1>1 DEF Agreed
<1>4. ASSUME NEW b \in Arrivals, NEW w \in Workers
      PROVE  /\ api[b] \in Agreed(b) /\ watch'[b] = <<>> /\ <<>> \in Seq(Agreed(b))
             /\ inbox'[w][b] \in Seq(Agreed(b))
  <2>1. api[b] \in Agreed(b)
    BY DEF SingleInv, AgreedCopies
  <2>2. <<api[b]>> \in Seq(Agreed(b)) /\ <<>> \in Seq(Agreed(b))
    BY <2>1
  <2> QED BY <1>1, <1>2, <2>1, <2>2
<1>5. AgreedCopies'
  <2>1. \A b \in Arrivals : /\ api[b] \in Agreed(b) /\ watch'[b] \in Seq(Agreed(b))
    BY <1>1 DEF SingleInv, AgreedCopies
  <2> QED BY <1>1, <1>3, <1>4, <2>1 DEF AgreedCopies
<1>6. InOrder'
  <2>1. ASSUME NEW w \in Workers, NEW b \in Arrivals
        PROVE  Later(inbox'[w][b]) /\ (SomeLeft(inbox'[w][b]) => Left(api[b]))
    BY <1>2, EmptyQueue, OneInQueue
  <2>2. \A b \in Arrivals : watch'[b] = <<>> /\ store'[b] = api'[b]
    BY <1>1
  <2> QED BY <1>1, <2>1, <2>2, EmptyQueue DEF InOrder
<1>7. \A w \in Workers : wk'[w].pc = "idle"
  BY <1>1 DEF Idle
<1>8. Guarded'
  BY <1>7 DEF Guarded, Ends, Holding, Watching
<1> QED BY <1>5, <1>6, <1>8 DEF SingleInv

\* A step of one goroutine that begins no dispatch and forgets no entry.
LEMMA HandsStep ==
  ASSUME TypeOK, Guarded, NEW w \in Workers, NEW rec, Goto(w, rec),
         \A v \in Workers, b \in Arrivals : Past(v, b) => Past(v, b)',
         \A b \in Arrivals : inFlight'[b] = "absent" => inFlight[b] = "absent",
         \A b \in Arrivals : Holding(rec, b) => Holding(wk[w], b),
         \A b \in Arrivals : Watching(rec, b) => Watching(wk[w], b) \/ Past(w, b)',
         Ends(rec)
  PROVE  Guarded'
<1>1. \A v \in Workers : wk'[v] = IF v = w THEN rec ELSE wk[v]
  BY DEF Goto, TypeOK
<1>2. \A v \in Workers, b \in Arrivals : Holding(wk'[v], b) => Holding(wk[v], b)
  BY <1>1
<1>3. \A v \in Workers : Ends(wk'[v])
  BY <1>1 DEF Guarded
<1>4. \A b \in Arrivals, u, v \in Workers : Holding(wk'[u], b) /\ Holding(wk'[v], b) => u = v
  BY <1>2 DEF Guarded
<1>5. \A b \in Arrivals, u, v \in Workers :
         Holding(wk'[u], b) /\ u # v /\ inFlight'[b] = "absent" => Past(v, b)'
  BY <1>2 DEF Guarded
<1>6. \A b \in Arrivals, v \in Workers : Watching(wk'[v], b) => Past(v, b)'
  BY <1>1 DEF Guarded
<1> QED BY <1>3, <1>4, <1>5, <1>6 DEF Guarded

\* A step of nobody.
LEMMA HandsStay ==
  ASSUME TypeOK, Guarded, UNCHANGED wk,
         \A v \in Workers, b \in Arrivals : Past(v, b) => Past(v, b)',
         \A b \in Arrivals : inFlight'[b] = "absent" => inFlight[b] = "absent"
  PROVE  Guarded'
BY DEF Guarded

\* The in-flight entry of a goes, with the goroutine that held it or with one
\* that is past a.
LEMMA HandsForget ==
  ASSUME TypeOK, SingleInv, NEW w \in Workers, NEW rec, Goto(w, rec),
         UNCHANGED <<store, inbox>>, NEW a \in Arrivals,
         inFlight' = [inFlight EXCEPT ![a] = "absent"],
         Holding(wk[w], a) \/ Past(w, a),
         rec.pc \in {"record", "commit"}, Ends(rec)
  PROVE  Guarded'
<1>1. \A v \in Workers : wk'[v] = IF v = w THEN rec ELSE wk[v]
  BY DEF Goto, TypeOK
<1>2. \A b \in Arrivals : ~Holding(rec, b) /\ ~Watching(rec, b)
  BY DEF Holding, Watching
<1>3. \A v \in Workers, b \in Arrivals : Holding(wk'[v], b) => v # w /\ Holding(wk[v], b)
  BY <1>1, <1>2
<1>4. \A v \in Workers, b \in Arrivals : Past(v, b)' = Past(v, b)
  BY DEF Past
<1>5. \A b \in Arrivals \ {a} : inFlight'[b] = inFlight[b]
  BY DEF TypeOK
<1>6. ASSUME NEW b \in Arrivals, NEW u \in Workers, NEW v \in Workers,
             Holding(wk'[u], b), u # v, inFlight'[b] = "absent"
      PROVE  Past(v, b)'
  <2>1. u # w /\ Holding(wk[u], b)
    BY <1>3, <1>6
  <2>2. CASE b # a
    BY <1>4, <1>5, <1>6, <2>1, <2>2 DEF SingleInv, Guarded
  <2>3. CASE b = a
    <3>1. ~Holding(wk[w], a)
      BY <2>1, <2>3 DEF SingleInv, Guarded
    <3>2. v = w
      BY <1>6, <2>1, ControllerAssumption
    <3> QED BY <1>4, <2>3, <3>1, <3>2
  <2> QED BY <2>2, <2>3
<1>7. \A v \in Workers : Ends(wk'[v])
  BY <1>1 DEF SingleInv, Guarded
<1>8. \A b \in Arrivals, u, v \in Workers : Holding(wk'[u], b) /\ Holding(wk'[v], b) => u = v
  BY <1>3 DEF SingleInv, Guarded
<1>9. \A b \in Arrivals, v \in Workers : Watching(wk'[v], b) => Past(v, b)'
  BY <1>1, <1>2, <1>4 DEF SingleInv, Guarded
<1> QED BY <1>6, <1>7, <1>8, <1>9 DEF Guarded

\* What the API server holds of an Arrival, and what is written there.
LEMMA AgreedWrite ==
  ASSUME SingleInv, NEW a \in Arrivals, NEW obj \in Arrival,
         obj.declared = api[a].declared, obj.deployedAt = api[a].deployedAt,
         obj.phase = "Skipped" => api[a].phase = "Skipped" \/ ~api[a].declared
  PROVE  obj \in Agreed(a)
<1>1. api[a] \in Agreed(a)
  BY DEF SingleInv, AgreedCopies
<1> QED BY <1>1 DEF Agreed

\* The branches that leave the locals and the in-flight map alone.
LEMMA SingleAlone ==
  ASSUME TypeOK, SingleInv, NEW w \in Workers, NEW a \in Arrivals,
         \/ SkipArrival(w, a) \/ Unskip(w, a) \/ Retest(w, a) \/ LeaveAlone(w, a)
         \/ SkipReentry(w, a) \/ Wait(w, a)
  PROVE  SingleInv'
<1>1. Take(w, a) /\ UNCHANGED <<store, inFlight, wk>>
  BY DEF SkipArrival, Unskip, Retest, LeaveAlone, SkipReentry, Wait, Pending, Testing, world
<1>2. Consumed /\ TypeOK /\ AgreedCopies /\ InOrder /\ Guarded
  BY <1>1, TakeConsumes DEF SingleInv
<1>3. Guarded'
  BY <1>1, <1>2, PastStays, HandsStay
<1>4. Snapshot(w, a) \in Agreed(a)
  BY <1>1, SingleTake
<1>5. ~Unskip(w, a) /\ ~Retest(w, a)
  BY <1>4, QuietCopies DEF Unskip, Retest
<1>6. CASE SkipArrival(w, a)
  <2> DEFINE obj == [api[a] EXCEPT !.phase = "Skipped", !.finalizedAt = clock]
  <2>1. PatchStatus(a, obj) /\ ~Snapshot(w, a).declared
    BY <1>6 DEF SkipArrival
  <2>2. api[a] \in Arrival /\ clock \in Times
    BY DEF TypeOK
  <2>3. /\ obj \in Arrival /\ obj.phase = "Skipped"
        /\ obj.declared = api[a].declared /\ obj.deployedAt = api[a].deployedAt
    BY <2>2 DEF Arrival, Phases
  <2>4. ~api[a].declared
    BY <1>4, <2>1 DEF Agreed
  <2>5. Left(obj)
    BY <2>3 DEF Left, Waiting
  <2> HIDE DEF obj
  <2>6. obj \in Agreed(a)
    BY <2>3, <2>4, AgreedWrite
  <2>7. AgreedCopies' /\ InOrder'
    BY <1>1, <1>2, <2>1, <2>5, <2>6, CopiesPatch
  <2> QED BY <1>3, <2>7 DEF SingleInv
<1>7. CASE LeaveAlone(w, a) \/ SkipReentry(w, a) \/ Wait(w, a)
  <2>1. UNCHANGED <<api, watch>>
    BY <1>7 DEF LeaveAlone, SkipReentry, Wait
  <2> QED BY <1>1, <1>2, <1>3, <2>1, CopiesStay DEF SingleInv
<1> QED BY <1>5, <1>6, <1>7

\* The re-entry guard.  Whoever still holds a has its entry in the map, unless
\* this goroutine is past a - but it has just seen it waiting.
LEMMA SingleEnter ==
  ASSUME TypeOK, SingleInv, NEW w \in Workers, NEW a \in Arrivals, EnterDispatch(w, a)
  PROVE  SingleInv'
<1> DEFINE rec == [Idle EXCEPT !.pc = IF RealDispatch THEN "gate" ELSE "publish",
                               !.arr = a, !.tests = Snapshot(w, a).tests,
                               !.todo = IF RealDispatch THEN Packs ELSE {}]
<1>1. /\ Take(w, a) /\ UNCHANGED <<store, api, watch>> /\ Snapshot(w, a).phase \in Waiting
      /\ inFlight[a] = "absent" /\ inFlight' = [inFlight EXCEPT ![a] = "fresh"]
      /\ Goto(w, rec)
  BY DEF EnterDispatch, Pending, world
<1>2. Consumed /\ AgreedCopies /\ InOrder /\ Guarded
  BY <1>1, TakeConsumes DEF SingleInv
<1>3. AgreedCopies' /\ InOrder'
  BY <1>1, <1>2, CopiesStay
<1>4. \A v \in Workers, b \in Arrivals : Past(v, b) => Past(v, b)'
  BY <1>1, <1>2, PastStays
<1>5. wk[w].pc = "idle" /\ ~Past(w, a)
  BY <1>1, SingleTake DEF Left
<1>6. rec.arr = a /\ rec.pc \in {"gate", "publish"}
  BY DEF Idle
<1> HIDE DEF rec
<1>7. \A v \in Workers : wk'[v] = IF v = w THEN rec ELSE wk[v]
  BY <1>1 DEF Goto, TypeOK
<1>8. /\ Holding(rec, a) /\ Ends(rec) /\ \A b \in Arrivals : ~Watching(rec, b)
      /\ \A b \in Arrivals : Holding(rec, b) => b = a
  BY <1>6 DEF Holding, Watching, Ends
<1>9. \A v \in Workers \ {w} : ~Holding(wk[v], a)
  BY <1>1, <1>2, <1>5 DEF Guarded
<1>10. inFlight'[a] = "fresh" /\ \A b \in Arrivals \ {a} : inFlight'[b] = inFlight[b]
  BY <1>1 DEF TypeOK
<1>11. \A v \in Workers : Ends(wk'[v])
  BY <1>2, <1>7, <1>8 DEF Guarded
<1>12. \A b \in Arrivals, u, v \in Workers : Holding(wk'[u], b) /\ Holding(wk'[v], b) => u = v
  BY <1>2, <1>7, <1>8, <1>9 DEF Guarded
<1>13. \A b \in Arrivals, u, v \in Workers :
          Holding(wk'[u], b) /\ u # v /\ inFlight'[b] = "absent" => Past(v, b)'
  BY <1>2, <1>4, <1>7, <1>8, <1>10 DEF Guarded
<1>14. \A b \in Arrivals, v \in Workers : Watching(wk'[v], b) => Past(v, b)'
  BY <1>2, <1>4, <1>7, <1>8 DEF Guarded
<1>15. Guarded'
  BY <1>11, <1>12, <1>13, <1>14 DEF Guarded
<1> QED BY <1>3, <1>15 DEF SingleInv

\* The branches of handleTesting that go on with a Testing copy.
LEMMA SingleTesting ==
  ASSUME TypeOK, SingleInv, NEW w \in Workers, NEW a \in Arrivals,
         MissTimer(w, a) \/ EndByTimer(w, a) \/ StartPoll(w, a)
  PROVE  SingleInv'
<1>1. /\ Take(w, a) /\ UNCHANGED <<store, api, watch, inFlight>>
      /\ Snapshot(w, a).phase = "Testing"
  BY DEF MissTimer, EndByTimer, StartPoll, Testing, world
<1>2. Consumed /\ AgreedCopies /\ InOrder /\ Guarded
  BY <1>1, TakeConsumes DEF SingleInv
<1>3. AgreedCopies' /\ InOrder'
  BY <1>1, <1>2, CopiesStay
<1>4. \A v \in Workers, b \in Arrivals : Past(v, b) => Past(v, b)'
  BY <1>1, <1>2, PastStays
<1>5. Past(w, a)'
  <2>1. Left(Snapshot(w, a))
    BY <1>1 DEF Left, Waiting
  <2> QED BY <1>1, <2>1, SingleTake DEF Past
<1>6. PICK rec : /\ Goto(w, rec) /\ rec.arr = a
                 /\ \/ rec.pc \in {"seed", "poll"}
                    \/ rec.pc = "finalize" /\ rec.phase \in {"Timeout", "Passed"}
  <2>1. CASE MissTimer(w, a)
    <3> DEFINE rec == [Idle EXCEPT !.pc = "seed", !.arr = a]
    <3>1. Goto(w, rec)
      BY <2>1 DEF MissTimer
    <3>2. rec.arr = a /\ rec.pc = "seed"
      BY DEF Idle
    <3> QED BY <3>1, <3>2
  <2>2. CASE EndByTimer(w, a)
    <3> DEFINE ph  == IF inFlight[a] = "overdue" THEN "Timeout" ELSE "Passed"
               rec == [Idle EXCEPT !.pc = "finalize", !.arr = a, !.phase = ph, !.stamp = clock,
                                   !.tests = Promoted(Snapshot(w, a).tests, ph)]
    <3>1. Goto(w, rec)
      BY <2>2 DEF EndByTimer
    <3>2. rec.arr = a /\ rec.pc = "finalize" /\ rec.phase \in {"Timeout", "Passed"}
      BY DEF Idle
    <3> QED BY <3>1, <3>2
  <2>3. CASE StartPoll(w, a)
    <3> DEFINE rec == [Idle EXCEPT !.pc = "poll", !.arr = a, !.tests = Snapshot(w, a).tests,
                                   !.todo = Open(Snapshot(w, a).tests)]
    <3>1. Goto(w, rec)
      BY <2>3 DEF StartPoll
    <3>2. rec.arr = a /\ rec.pc = "poll"
      BY DEF Idle
    <3> QED BY <3>1, <3>2
  <2> QED BY <2>1, <2>2, <2>3
<1>7. /\ \A b \in Arrivals : ~Holding(rec, b) /\ (Watching(rec, b) => b = a)
      /\ Ends(rec)
  BY <1>6 DEF Holding, Watching, Ends, Verdicts
<1>8. Guarded'
  BY <1>1, <1>2, <1>4, <1>5, <1>6, <1>7, HandsStep
<1> QED BY <1>3, <1>8 DEF SingleInv

\* A step inside a reconcile that writes nothing and forgets no entry.
LEMMA SingleInside ==
  ASSUME TypeOK, SingleInv, NEW w \in Workers, NEW rec, Goto(w, rec),
         UNCHANGED <<api, watch, store, inbox>>,
         inFlight' = inFlight \/ \E b \in Arrivals : inFlight' = [inFlight EXCEPT ![b] = "fresh"],
         \A b \in Arrivals : Holding(rec, b) => Holding(wk[w], b),
         \A b \in Arrivals : Watching(rec, b) => Watching(wk[w], b),
         Ends(rec)
  PROVE  SingleInv'
<1>1. Consumed /\ AgreedCopies /\ InOrder /\ Guarded
  BY DEF Consumed, SingleInv
<1>2. AgreedCopies' /\ InOrder'
  BY <1>1, CopiesStay
<1>3. \A v \in Workers, b \in Arrivals : Past(v, b) => Past(v, b)'
  BY <1>1, PastStays
<1>4. \A b \in Arrivals : inFlight'[b] = "absent" => inFlight[b] = "absent"
  BY DEF TypeOK
<1>5. Guarded'
  BY <1>1, <1>3, <1>4, HandsStep
<1> QED BY <1>2, <1>5 DEF SingleInv

\* The dispatch up to its patch, the seeding of an entry, and the poll.
LEMMA SingleUnderWay ==
  ASSUME TypeOK, SingleInv, NEW w \in Workers,
         \/ GatePasses(w) \/ GateFails(w) \/ SeedTimer(w)
         \/ \E p \in Packs : DispatchPack(w, p) \/ DispatchFails(w, p) \/ PollPack(w, p)
  PROVE  SingleInv'
<1> DEFINE r == wk[w]
<1>1. r \in Worker /\ r.arr \in Arrivals
  BY DEF TypeOK, Worker
<1>2. /\ UNCHANGED <<api, watch, store, inbox>>
      /\ inFlight' = inFlight \/ (SeedTimer(w) /\ inFlight' = [inFlight EXCEPT ![r.arr] = "fresh"])
  BY DEF GatePasses, GateFails, SeedTimer, DispatchPack, DispatchFails, PollPack, world
<1>3. ASSUME NEW rec, Goto(w, rec),
             \/ rec.pc = "idle"
             \/ /\ rec.arr = r.arr
                /\ \/ /\ r.pc \in {"gate", "dispatch"}
                      /\ \/ rec.pc \in {"dispatch", "publish", "evidence"}
                         \/ rec.pc = "finalize" /\ rec.phase = "Failed"
                   \/ r.pc = "poll" /\ rec.pc = "poll"
      PROVE  SingleInv'
  <2>1. \A b \in Arrivals : Holding(rec, b) => Holding(r, b)
    BY <1>3 DEF Holding
  <2>2. \A b \in Arrivals : Watching(rec, b) => Watching(r, b)
    BY <1>3 DEF Watching, Holding
  <2>3. Ends(rec)
    BY <1>3 DEF Ends, Verdicts
  <2>4. inFlight' = inFlight \/ \E b \in Arrivals : inFlight' = [inFlight EXCEPT ![b] = "fresh"]
    BY <1>1, <1>2
  <2> QED BY <1>2, <1>3, <2>1, <2>2, <2>3, <2>4, SingleInside
<1>4. CASE GatePasses(w)
  <2> DEFINE rec == [r EXCEPT !.pc = "dispatch"]
  <2>1. Goto(w, rec) /\ r.pc = "gate"
    BY <1>4 DEF GatePasses, At, Jump
  <2>2. rec.arr = r.arr /\ rec.pc = "dispatch"
    BY <1>1 DEF Worker
  <2> HIDE DEF rec
  <2> QED BY <1>3, <2>1, <2>2
<1>5. CASE GateFails(w)
  <2> DEFINE rec == [r EXCEPT !.pc = "finalize", !.tests = Promoted(r.tests, "Failed"),
                              !.todo = {}, !.phase = "Failed", !.stamp = clock]
  <2>1. Goto(w, rec) /\ r.pc = "gate"
    BY <1>5 DEF GateFails, At, StartFinalize
  <2>2. rec.arr = r.arr /\ rec.pc = "finalize" /\ rec.phase = "Failed"
    BY <1>1 DEF Worker
  <2> HIDE DEF rec
  <2> QED BY <1>3, <2>1, <2>2
<1>6. CASE SeedTimer(w)
  <2>1. Goto(w, Idle) /\ Idle.pc = "idle"
    BY <1>6 DEF SeedTimer, Idle
  <2> QED BY <1>3, <2>1
<1>7. ASSUME NEW p \in Packs, DispatchPack(w, p) PROVE SingleInv'
  <2> DEFINE rec == [r EXCEPT !.todo = r.todo \ {p},
                              !.pc = IF r.todo = {p} THEN "publish" ELSE r.pc]
  <2>1. Goto(w, rec) /\ r.pc = "dispatch"
    BY <1>7 DEF DispatchPack, At
  <2>2. rec.arr = r.arr /\ rec.pc \in {"dispatch", "publish"}
    BY <1>1, <2>1 DEF Worker
  <2> HIDE DEF rec
  <2> QED BY <1>3, <2>1, <2>2
<1>8. ASSUME NEW p \in Packs, DispatchFails(w, p) PROVE SingleInv'
  <2> DEFINE rec == [r EXCEPT !.pc = "evidence"]
  <2>1. Goto(w, rec) /\ r.pc = "dispatch"
    BY <1>8 DEF DispatchFails, At, Jump
  <2>2. rec.arr = r.arr /\ rec.pc = "evidence"
    BY <1>1 DEF Worker
  <2> HIDE DEF rec
  <2> QED BY <1>3, <2>1, <2>2
<1>9. ASSUME NEW p \in Packs, PollPack(w, p) PROVE SingleInv'
  <2>1. r.pc = "poll"
    BY <1>9 DEF PollPack, At
  <2> DEFINE one == [r EXCEPT !.todo = r.todo \ {p},
                              !.tests[p] = Polled(r.tests[p], jobs[r.arr][p])]
             two == [r EXCEPT !.todo = r.todo \ {p}]
  <2>2. Goto(w, one) \/ Goto(w, two)
    BY <1>9 DEF PollPack
  <2>3. one.arr = r.arr /\ one.pc = "poll" /\ two.arr = r.arr /\ two.pc = "poll"
    BY <1>1, <2>1 DEF Worker
  <2> HIDE DEF one, two
  <2> QED BY <1>3, <2>1, <2>2, <2>3
<1> QED BY <1>4, <1>5, <1>6, <1>7, <1>8, <1>9

\* A patch of the Arrival in hand.
LEMMA SinglePatch ==
  ASSUME TypeOK, SingleInv, NEW w \in Workers, NEW rec, Goto(w, rec),
         NEW obj \in Arrival,
         UNCHANGED <<api, watch>> \/ PatchStatus(wk[w].arr, obj),
         obj.declared = api[wk[w].arr].declared, obj.deployedAt = api[wk[w].arr].deployedAt,
         obj.phase = api[wk[w].arr].phase \/ obj.phase \in Verdicts \cup {"Testing"},
         UNCHANGED <<store, inbox, inFlight>>,
         \/ rec.pc \in {"idle", "forensics"}
         \/ /\ wk[w].pc = "evidence" /\ rec.arr = wk[w].arr
            /\ rec.pc = "finalize" /\ rec.phase = "Failed"
  PROVE  SingleInv'
<1> DEFINE r == wk[w]
<1>0. PICK a \in Arrivals : a = r.arr
  BY DEF TypeOK, Worker
<1>1. Consumed /\ AgreedCopies /\ InOrder /\ Guarded
  BY DEF Consumed, SingleInv
<1>2. obj \in Agreed(a)
  <2>1. obj.phase = "Skipped" => api[a].phase = "Skipped"
    BY <1>0 DEF Verdicts
  <2> QED BY <1>0, <2>1, AgreedWrite
<1>3. Left(api[a]) => Left(obj)
  BY <1>0 DEF Left, Waiting, Verdicts
<1>4. UNCHANGED <<api, watch>> \/ PatchStatus(a, obj)
  BY <1>0
<1>5. AgreedCopies' /\ InOrder'
  BY <1>1, <1>2, <1>3, <1>4, CopiesPatch
<1>6. /\ \A b \in Arrivals : Holding(rec, b) => Holding(r, b)
      /\ \A b \in Arrivals : ~Watching(rec, b)
      /\ Ends(rec)
  BY DEF Holding, Watching, Ends, Verdicts
<1>7. Guarded'
  BY <1>1, <1>6, PastStays, HandsStep
<1> QED BY <1>5, <1>7 DEF SingleInv

LEMMA SinglePatches ==
  ASSUME TypeOK, SingleInv, NEW w \in Workers,
         \/ PatchEvidence(w) \/ PublishTesting(w) \/ PatchProgress(w)
         \/ RecordVerdict(w) \/ DispatchForensics(w) \/ FinalizeCommits(w)
  PROVE  SingleInv'
<1> DEFINE r == wk[w]
           u == api[r.arr]
<1>1. r \in Worker /\ r.arr \in Arrivals /\ r.tests \in Tests /\ r.stamp \in Times
  BY DEF TypeOK, Worker
<1>2. u \in Arrival /\ clock \in Times
  BY <1>1 DEF TypeOK
<1>3. UNCHANGED <<store, inbox, inFlight>>
  BY DEF PatchEvidence, PublishTesting, PatchProgress, RecordVerdict, DispatchForensics,
         FinalizeCommits, world
<1>4. Idle.pc = "idle"
  BY DEF Idle
<1>5. CASE PatchEvidence(w)
  <2> DEFINE ts  == DispatchEvidence(r.todo)
             obj == [u EXCEPT !.tests = ts]
             rec == [r EXCEPT !.pc = "finalize", !.tests = Promoted(r.tests, "Failed"),
                              !.todo = {}, !.phase = "Failed", !.stamp = clock]
  <2>1. PatchStatus(r.arr, obj) /\ Goto(w, rec) /\ r.pc = "evidence"
    BY <1>5 DEF PatchEvidence, At, StartFinalize
  <2>2. ts \in Tests
    BY DEF DispatchEvidence, Tests, Status, Unsettled
  <2> HIDE DEF ts
  <2>3. /\ obj \in Arrival /\ obj.declared = u.declared
        /\ obj.deployedAt = u.deployedAt /\ obj.phase = u.phase
    BY <1>2, <2>2 DEF Arrival
  <2>4. rec.arr = r.arr /\ rec.pc = "finalize" /\ rec.phase = "Failed"
    BY <1>1 DEF Worker
  <2> HIDE DEF obj, rec
  <2> QED BY <1>3, <2>1, <2>3, <2>4, SinglePatch
<1>6. CASE PublishTesting(w)
  <2> DEFINE obj == [u EXCEPT !.phase = "Testing", !.tests = AllOf("Running")]
  <2>1. PatchStatus(r.arr, obj) /\ Goto(w, Idle)
    BY <1>6 DEF PublishTesting
  <2>2. AllOf("Running") \in Tests
    BY DEF AllOf, Tests, Status, Unsettled
  <2>3. /\ obj \in Arrival /\ obj.declared = u.declared
        /\ obj.deployedAt = u.deployedAt /\ obj.phase = "Testing"
    BY <1>2, <2>2 DEF Arrival, Phases
  <2> HIDE DEF obj
  <2> QED BY <1>3, <1>4, <2>1, <2>3, SinglePatch
<1>7. CASE PatchProgress(w)
  <2> DEFINE obj == [u EXCEPT !.tests = r.tests]
  <2>1. PatchStatus(r.arr, obj) /\ Goto(w, Idle)
    BY <1>7 DEF PatchProgress
  <2>2. /\ obj \in Arrival /\ obj.declared = u.declared
        /\ obj.deployedAt = u.deployedAt /\ obj.phase = u.phase
    BY <1>1, <1>2 DEF Arrival
  <2> HIDE DEF obj
  <2> QED BY <1>3, <1>4, <2>1, <2>2, SinglePatch
<1>8. CASE RecordVerdict(w)
  <2> DEFINE obj == [u EXCEPT !.phase = r.phase, !.tests = r.tests, !.finalizedAt = clock]
             rec == IF ForensicsOn THEN [Idle EXCEPT !.pc = "forensics", !.arr = r.arr]
                    ELSE Idle
  <2>1. PatchStatus(r.arr, obj) /\ Goto(w, rec) /\ r.pc = "record"
    BY <1>8 DEF RecordVerdict, At
  <2>2. r.phase \in Verdicts
    BY <2>1 DEF SingleInv, Guarded, Ends
  <2>3. /\ obj \in Arrival /\ obj.declared = u.declared
        /\ obj.deployedAt = u.deployedAt /\ obj.phase = r.phase
    BY <1>1, <1>2, <2>2 DEF Arrival, Phases
  <2>4. rec.pc \in {"idle", "forensics"}
    BY DEF Idle
  <2> HIDE DEF obj, rec
  <2> QED BY <1>3, <2>1, <2>2, <2>3, <2>4, SinglePatch
<1>9. CASE DispatchForensics(w)
  <2> DEFINE obj == [u EXCEPT !.forensics = TRUE]
  <2>1. (UNCHANGED <<api, watch>> \/ PatchStatus(r.arr, obj)) /\ Goto(w, Idle)
    BY <1>9 DEF DispatchForensics
  <2>2. /\ obj \in Arrival /\ obj.declared = u.declared
        /\ obj.deployedAt = u.deployedAt /\ obj.phase = u.phase
    BY <1>2 DEF Arrival
  <2> HIDE DEF obj
  <2> QED BY <1>3, <1>4, <2>1, <2>2, SinglePatch
<1>10. CASE FinalizeCommits(w)
  <2> DEFINE obj == [u EXCEPT !.phase = r.phase, !.tests = r.tests, !.finalizedAt = r.stamp]
  <2>1. PatchStatus(r.arr, obj) /\ Goto(w, Idle) /\ r.pc = "commit"
    BY <1>10 DEF FinalizeCommits, At
  <2>2. r.phase \in Verdicts
    BY <2>1 DEF SingleInv, Guarded, Ends
  <2>3. /\ obj \in Arrival /\ obj.declared = u.declared
        /\ obj.deployedAt = u.deployedAt /\ obj.phase = r.phase
    BY <1>1, <1>2, <2>2 DEF Arrival, Phases
  <2> HIDE DEF obj
  <2> QED BY <1>3, <1>4, <2>1, <2>2, <2>3, SinglePatch
<1> QED BY <1>5, <1>6, <1>7, <1>8, <1>9, <1>10

\* The entry goes: with the dispatch whose end it is, or with a poll.
LEMMA SingleForgets ==
  ASSUME TypeOK, SingleInv, NEW w \in Workers, AllSettled(w) \/ FinalizeForgets(w)
  PROVE  SingleInv'
<1> DEFINE r == wk[w]
<1>0. PICK a \in Arrivals : a = r.arr
  BY DEF TypeOK, Worker
<1>1. r \in Worker
  BY DEF TypeOK
<1>2. /\ UNCHANGED <<api, watch, store, inbox>>
      /\ inFlight' = [inFlight EXCEPT ![a] = "absent"]
      /\ r.pc \in {"poll", "finalize"}
  BY <1>0 DEF AllSettled, FinalizeForgets, At, world
<1>3. Consumed /\ AgreedCopies /\ InOrder /\ Guarded
  BY <1>2 DEF Consumed, SingleInv
<1>4. AgreedCopies' /\ InOrder'
  BY <1>2, <1>3, CopiesStay
<1>5. Holding(r, a) \/ Past(w, a)
  BY <1>0, <1>2, <1>3 DEF Guarded, Watching
<1>6. PICK rec : /\ Goto(w, rec) /\ rec.pc \in {"record", "commit"} /\ Ends(rec)
  <2>1. CASE AllSettled(w)
    <3> DEFINE ph  == IF \E p \in Packs : r.tests[p] = "Failed" THEN "Failed" ELSE "Passed"
               rec == [r EXCEPT !.pc = "record", !.phase = ph]
    <3>1. Goto(w, rec)
      BY <2>1 DEF AllSettled
    <3>2. ph \in Verdicts
      BY DEF Verdicts
    <3> HIDE DEF ph
    <3>3. rec.pc = "record" /\ Ends(rec)
      BY <1>1, <3>2 DEF Worker, Ends
    <3> QED BY <3>1, <3>3
  <2>2. CASE FinalizeForgets(w)
    <3> DEFINE rec == [r EXCEPT !.pc = "commit"]
    <3>1. Goto(w, rec) /\ r.pc = "finalize"
      BY <2>2 DEF FinalizeForgets, Jump, At
    <3>2. r.phase \in Verdicts
      BY <1>3, <3>1 DEF Guarded, Ends
    <3>3. rec.pc = "commit" /\ Ends(rec)
      BY <1>1, <3>2 DEF Worker, Ends
    <3> QED BY <3>1, <3>3
  <2> QED BY <2>1, <2>2
<1>7. Guarded'
  BY <1>2, <1>5, <1>6, HandsForget
<1> QED BY <1>4, <1>7 DEF SingleInv

\* Around the goroutines.
LEMMA SingleSurrounding ==
  ASSUME TypeOK, SingleInv, Quiet',
         \/ UNCHANGED vars \/ TickerLists \/ Restart \/ Tick
         \/ \E a \in Arrivals : Deliver(a) \/ Age(a) \/ Upsert(a)
         \/ \E a \in Arrivals, p \in Packs : Cluster(a, p)
  PROVE  SingleInv'
<1>1. AgreedCopies /\ InOrder /\ Guarded
  BY DEF SingleInv
<1>2. CASE TickerLists
  <2>1. UNCHANGED <<wk, inFlight>>
    BY <1>2 DEF TickerLists
  <2> QED BY <1>1, <1>2, <2>1, CopiesList, HandsStay DEF SingleInv
<1>3. ASSUME NEW a \in Arrivals, Deliver(a) PROVE SingleInv'
  <2>1. UNCHANGED <<wk, inFlight>>
    BY <1>3 DEF Deliver
  <2> QED BY <1>1, <1>3, <2>1, CopiesDeliver, HandsStay DEF SingleInv
<1>4. CASE Restart
  BY <1>4, SingleReboot DEF Restart
<1>5. \A a \in Arrivals : ~Upsert(a)
  <2>1. ASSUME NEW a \in Arrivals, Upsert(a) PROVE FALSE
    <3>1. budget' = [budget EXCEPT !["upserts"] = budget.upserts + 1] /\ budget \in Budget
      BY <2>1 DEF Upsert, Spend, TypeOK
    <3>2. budget'.upserts = budget.upserts + 1 /\ budget.upserts \in Nat
      BY <3>1, ControllerAssumption DEF Budget
    <3> QED BY <3>2 DEF Quiet
  <2> QED BY <2>1
<1>6. CASE UNCHANGED vars \/ Tick \/ (\E a \in Arrivals : Age(a))
             \/ \E a \in Arrivals, p \in Packs : Cluster(a, p)
  <2>1. UNCHANGED <<api, watch, store, inbox, wk>>
    BY <1>6 DEF vars, Tick, Age, Cluster
  <2>2. \A b \in Arrivals : inFlight'[b] = "absent" => inFlight[b] = "absent"
    <3>1. CASE UNCHANGED inFlight
      BY <3>1
    <3>2. ASSUME NEW a \in Arrivals, Age(a)
          PROVE  \A b \in Arrivals : inFlight'[b] = "absent" => inFlight[b] = "absent"
      <4>1. inFlight' = [inFlight EXCEPT ![a] = "due"] \/ inFlight' = [inFlight EXCEPT ![a] = "overdue"]
        BY <3>2 DEF Age
      <4> QED BY <4>1 DEF TypeOK
    <3> QED BY <1>6, <3>1, <3>2 DEF vars, Tick, Cluster
  <2>3. Consumed
    BY <2>1 DEF Consumed
  <2>4. AgreedCopies' /\ InOrder'
    BY <1>1, <2>1, <2>3, CopiesStay
  <2>5. Guarded'
    BY <1>1, <2>1, <2>2, <2>3, PastStays, HandsStay
  <2> QED BY <2>4, <2>5 DEF SingleInv
<1> QED BY <1>2, <1>3, <1>4, <1>5, <1>6

\* What the watcher has spent is not given back.
LEMMA QuietBefore == TypeOK /\ [Next]_vars /\ Quiet' => Quiet
<1> SUFFICES ASSUME TypeOK, [Next]_vars, Quiet' PROVE Quiet
  OBVIOUS
<1>1. ASSUME NEW kind \in {"lost", "errors", "restarts", "upserts"}, Spend(kind) PROVE Quiet
  <2>1. budget \in Budget /\ budget' = [budget EXCEPT ![kind] = budget[kind] + 1]
    BY <1>1 DEF Spend, TypeOK
  <2>2. /\ budget'.upserts = IF kind = "upserts" THEN budget.upserts + 1 ELSE budget.upserts
        /\ budget.upserts \in Nat
    BY <1>1, <2>1, ControllerAssumption DEF Budget
  <2> QED BY <2>2 DEF Quiet
<1>2. ASSUME UNCHANGED budget PROVE Quiet
  BY <1>2 DEF Quiet
<1>3. ASSUME NEW a \in Arrivals, NEW obj, PatchStatus(a, obj) PROVE Quiet
  BY <1>1, <1>2, <1>3 DEF PatchStatus
<1>4. ASSUME NEW w \in Workers, Work(w) PROVE Quiet
  <2>1. wk[w].arr \in Arrivals
    BY DEF TypeOK, Worker
  <2>2. ASSUME NEW a \in Arrivals,
               \/ SkipArrival(w, a) \/ Unskip(w, a) \/ Retest(w, a) \/ LeaveAlone(w, a)
               \/ SkipReentry(w, a) \/ EnterDispatch(w, a)
               \/ MissTimer(w, a) \/ EndByTimer(w, a) \/ Wait(w, a) \/ StartPoll(w, a)
        PROVE  Quiet
    <3>1. ASSUME SkipArrival(w, a) \/ Unskip(w, a) \/ Retest(w, a) PROVE Quiet
      BY <1>3, <3>1 DEF SkipArrival, Unskip, Retest
    <3> QED BY <1>2, <2>2, <3>1 DEF LeaveAlone, SkipReentry, EnterDispatch, MissTimer,
                                    EndByTimer, Wait, StartPoll
  <2>3. ASSUME \/ PatchEvidence(w) \/ PublishTesting(w) \/ PatchProgress(w)
               \/ RecordVerdict(w) \/ FinalizeCommits(w)
        PROVE  Quiet
    BY <1>3, <2>1, <2>3 DEF PatchEvidence, PublishTesting, PatchProgress, RecordVerdict,
                            FinalizeCommits
  <2>4. ASSUME DispatchForensics(w) PROVE Quiet
    BY <1>1, <1>3, <2>1, <2>4 DEF DispatchForensics
  <2>5. ASSUME GatePasses(w) \/ SeedTimer(w) \/ AllSettled(w) \/ FinalizeForgets(w) PROVE Quiet
    BY <1>2, <2>5 DEF GatePasses, SeedTimer, AllSettled, FinalizeForgets
  <2>6. ASSUME NEW p \in Packs, DispatchPack(w, p) PROVE Quiet
    BY <1>2, <2>6 DEF DispatchPack
  <2>7. ASSUME NEW p \in Packs, \/ DispatchFails(w, p) \/ DispatchPanics(w, p)
                                \/ DispatchInterrupted(w, p) \/ PollPack(w, p)
        PROVE  Quiet
    BY <1>1, <1>2, <2>7 DEF DispatchFails, DispatchPanics, DispatchInterrupted, PollPack
  <2>8. ASSUME GateFails(w) PROVE Quiet
    BY <1>1, <2>8 DEF GateFails
  <2> QED BY <1>4, <2>2, <2>3, <2>4, <2>5, <2>6, <2>7, <2>8 DEF Work
<1>5. ASSUME NEW a \in Arrivals, Upsert(a) PROVE Quiet
  BY <1>1, <1>5 DEF Upsert
<1>6. ASSUME Restart PROVE Quiet
  BY <1>1, <1>6 DEF Restart
<1>7. ASSUME \/ UNCHANGED vars \/ TickerLists \/ Tick \/ \E a \in Arrivals : Deliver(a) \/ Age(a)
             \/ \E a \in Arrivals, p \in Packs : Cluster(a, p)
      PROVE  Quiet
  BY <1>2, <1>7 DEF vars, TickerLists, Tick, Deliver, Age, Cluster
<1> QED BY <1>4, <1>5, <1>6, <1>7 DEF Next

LEMMA NextSingle == TypeOK /\ SingleInv /\ [Next]_vars /\ Quiet' => SingleInv'
<1> SUFFICES ASSUME TypeOK, SingleInv, [Next]_vars, Quiet' PROVE SingleInv'
  OBVIOUS
<1>1. ASSUME NEW w \in Workers, Work(w) PROVE SingleInv'
  <2>1. ASSUME NEW a \in Arrivals,
               \/ SkipArrival(w, a) \/ Unskip(w, a) \/ Retest(w, a) \/ LeaveAlone(w, a)
               \/ SkipReentry(w, a) \/ EnterDispatch(w, a)
               \/ MissTimer(w, a) \/ EndByTimer(w, a) \/ Wait(w, a) \/ StartPoll(w, a)
        PROVE  SingleInv'
    BY <2>1, SingleAlone, SingleEnter, SingleTesting
  <2>2. ASSUME NEW p \in Packs, DispatchPanics(w, p) \/ DispatchInterrupted(w, p)
        PROVE  SingleInv'
    BY <2>2, SingleReboot DEF DispatchPanics, DispatchInterrupted
  <2> QED BY <1>1, <2>1, <2>2, SingleUnderWay, SinglePatches, SingleForgets DEF Work
<1> QED BY <1>1, SingleSurrounding DEF Next

LEMMA InitSingle == Init => SingleInv
<1> SUFFICES ASSUME Init PROVE SingleInv
  OBVIOUS
<1>1. /\ store = api /\ watch = [a \in Arrivals |-> <<>>] /\ inbox = Listed(api)
      /\ wk = [w \in Workers |-> Idle]
  BY DEF Init
<1>2. TypeOK
  BY InitType
<1>3. \A a \in Arrivals : api[a] \in Agreed(a)
  <2>1. \A a \in Arrivals : api[a].deployedAt = 1 /\ api[a].phase = "New"
    BY DEF Init
  <2> QED BY <1>2, <2>1 DEF Agreed, TypeOK
<1>4. \A b \in Arrivals, w \in Workers : inbox[w][b] = <<api[b]>> \/ inbox[w][b] = <<>>
  BY <1>1, <1>2, CopiesListed DEF TypeOK
<1>5. ASSUME NEW b \in Arrivals
      PROVE  watch[b] \in Seq(Agreed(b)) /\ \A w \in Workers : inbox[w][b] \in Seq(Agreed(b))
  <2>1. <<api[b]>> \in Seq(Agreed(b)) /\ <<>> \in Seq(Agreed(b))
    BY <1>3
  <2> QED BY <1>1, <1>4, <2>1
<1>6. AgreedCopies
  BY <1>1, <1>3, <1>5 DEF AgreedCopies
<1>7. InOrder
  <2>1. ASSUME NEW w \in Workers, NEW b \in Arrivals
        PROVE  Later(inbox[w][b]) /\ (SomeLeft(inbox[w][b]) => Left(api[b]))
    BY <1>4, EmptyQueue, OneInQueue
  <2>2. \A b \in Arrivals : watch[b] = <<>> /\ store[b] = api[b]
    BY <1>1
  <2> QED BY <2>1, <2>2, EmptyQueue DEF InOrder
<1>8. \A w \in Workers : wk[w].pc = "idle"
  BY <1>1 DEF Idle
<1>9. Guarded
  BY <1>8 DEF Guarded, Ends, Holding, Watching
<1> QED BY <1>6, <1>7, <1>9 DEF SingleInv

\* Until the watcher writes for the first time, one Arrival is never dispatched
\* by both goroutines at once: for any staleness of the informer's copies, any lost
\* patches, failed requests, panics and restarts, stub or real.
THEOREM OneDispatcher == Spec => [](Quiet => SingleDispatcher)
<1>1. Init => TypeOK /\ (Quiet => SingleInv)
  BY InitType, InitSingle
<1>2. (TypeOK /\ (Quiet => SingleInv)) /\ [Next]_vars => (TypeOK /\ (Quiet => SingleInv))'
  BY NextTypes, QuietBefore, NextSingle
<1>3. SingleInv => SingleDispatcher
  BY DEF SingleInv, Guarded, Holding, Dispatching, SingleDispatcher
<1> QED BY <1>1, <1>2, <1>3, PTL DEF Spec
=============================================================================
