--------------------------- MODULE DispatchProof ---------------------------
(***************************************************************************)
(* For every number of polls, errors and deaths: the dispatcher's requests   *)
(* behind one Job name implement the one-step contract that the controller's *)
(* model relies on, and keep what the runs check besides it.                 *)
(***************************************************************************)
EXTENDS Dispatch, TLAPS

USE DispatchAssumption DEF DispatchAssumption

\* Steps of the call that know the Job as it was read.
Deciding == pc \in {"delete", "poll", "look", "clear", "repoll"}

\* What the requests of a call know of the Job, and the contract's view of it.
\* Until the call has read the Job the two are the same.  From then on the view
\* has the state of the Job while there is one; its deletion mark is behind by
\* the call's own Delete at most; and what was read of a verdict still holds.
Views ==
    /\ ~Replacing => contract = job
    /\ Replacing /\ Exists => contract.st = job.st /\ (contract.del => job.del)
    /\ Deciding => /\ existing.st = "passed" => contract.st = "passed"
                   /\ existing.del => contract.del

Progress ==
    /\ pc # "idle" => answer = "none"
    /\ pc \in {"recreate", "repoll"} => ~Exists
    /\ pc \in {"poll", "look", "clear"} /\ Exists => job.del
    /\ pc = "clear" => /\ job.st # "active"
                       /\ wedge = "stalled" => Exists

NoGhost == job.st = "none" => job = NoJob

IInv == TypeOK /\ NoGhost /\ Progress /\ Views /\ SuitesNotOrphaned

-----------------------------------------------------------------------------
LEMMA SlotRecords ==
    /\ NoJob \in Slot /\ FreshJob \in Slot
    /\ \A s \in Slot : /\ Deleting(s) \in Slot
                       /\ Deleting(s).st = s.st /\ Deleting(s).del
    /\ \A s, t \in Slot : s.st = t.st /\ s.del = t.del => s = t
<1>1. NoJob \in Slot /\ FreshJob \in Slot
  BY DEF Slot, NoJob, FreshJob
<1>2. \A s \in Slot : Deleting(s) \in Slot /\ Deleting(s).st = s.st /\ Deleting(s).del
  BY DEF Slot, Deleting
<1>3. \A s, t \in Slot : s.st = t.st /\ s.del = t.del => s = t
  BY DEF Slot
<1>. QED  BY <1>1, <1>2, <1>3

LEMMA InitInv == Init => IInv
<1>. SUFFICES ASSUME Init PROVE IInv
  OBVIOUS
<1>1. job \in Slot /\ (job.st = "none" => ~job.del)
  BY DEF Init
<1>2. NoGhost
  BY <1>1 DEF NoGhost, NoJob, Slot
<1>3. TypeOK
  <2>1. budget \in [errors : 0..MaxErrors, deaths : 0..MaxDeaths]
    BY DEF Init
  <2>2. existing \in Slot
    BY SlotRecords DEF Init
  <2>3. 0 \in 0..MaxPolls
    OBVIOUS
  <2>4. contract \in Slot /\ orphaned \in BOOLEAN
    BY <1>1 DEF Init
  <2>. QED  BY <1>1, <2>1, <2>2, <2>3, <2>4 DEF Init, TypeOK, Pcs
<1>4. Progress /\ Views /\ SuitesNotOrphaned
  BY DEF Init, Progress, Views, SuitesNotOrphaned, Deciding, Replacing
<1>. QED  BY <1>2, <1>3, <1>4 DEF IInv

\* What every end of a call has in common.
LEMMA AnsweredInv ==
    ASSUME IInv, NEW a \in {"ok", "failed", "panicked", "died"}, Answered(a),
           job' \in Slot, job'.st = "none" => job' = NoJob,
           wedge' \in Wedges, UNCHANGED orphaned,
           budget' \in [errors : 0..MaxErrors, deaths : 0..MaxDeaths]
    PROVE  IInv'
BY SlotRecords DEF IInv, TypeOK, NoGhost, Progress, Views, SuitesNotOrphaned, Deciding,
       Replacing, Exists, Answered, Pcs

LEMMA SpendType ==
    ASSUME TypeOK, Spend \/ UNCHANGED budget
    PROVE  budget' \in [errors : 0..MaxErrors, deaths : 0..MaxDeaths]
BY DEF TypeOK, Spend

LEMMA GivenUpInv ==
    ASSUME IInv, Same, CannotReplace, Spend \/ UNCHANGED budget
    PROVE  IInv'
<1>1. PICK a \in {"ok", "failed", "panicked", "died"} : Answered(a)
  BY DEF CannotReplace
<1>. QED  BY <1>1, SpendType, AnsweredInv DEF Same, IInv, TypeOK, NoGhost

LEMMA AnsweredSame ==
    ASSUME IInv, Same, NEW a \in {"ok", "failed", "panicked", "died"}, Answered(a),
           Spend \/ UNCHANGED budget
    PROVE  IInv'
BY SpendType, AnsweredInv DEF Same, IInv, TypeOK, NoGhost

LEMMA CreatedInv ==
    ASSUME IInv, Creates, Answered("ok"), UNCHANGED budget
    PROVE  IInv'
<1>1. job' \in Slot /\ (job'.st = "none" => job' = NoJob)
  BY SlotRecords DEF Creates, FreshJob
<1>. QED  BY <1>1, SpendType, AnsweredInv DEF IInv, Creates


LEMMA CallInv == ASSUME IInv, Call PROVE IInv'
<1>1. CASE Create
  <2>1. CASE Exists /\ Step("create", "read") /\ Same /\ GoOn /\ UNCHANGED <<existing, polls>>
    BY <2>1 DEF IInv, TypeOK, NoGhost, Progress, Views, SuitesNotOrphaned, Deciding,
                Replacing, Exists, Step, Same, GoOn, Pcs
  <2>. QED  BY <1>1, <2>1, CreatedInv, AnsweredSame DEF Create
<1>2. CASE Read
  <2>1. CASE ~Exists /\ Step("read", "recreate") /\ Same /\ GoOn /\ UNCHANGED <<existing, polls>>
    BY <2>1 DEF IInv, TypeOK, NoGhost, Progress, Views, SuitesNotOrphaned, Deciding,
                Replacing, Exists, Step, Same, GoOn, Pcs
  <2>2. CASE Exists /\ Step("read", "delete") /\ existing' = job /\ Same /\ GoOn /\ UNCHANGED polls
    BY <2>2 DEF IInv, TypeOK, NoGhost, Progress, Views, SuitesNotOrphaned, Deciding,
                Replacing, Exists, Step, Same, GoOn, Pcs
  <2>. QED  BY <1>2, <2>1, <2>2, AnsweredSame DEF Read
<1>3. CASE Recreate
  BY <1>3, CreatedInv, AnsweredSame DEF Recreate
<1>4. CASE Delete
  <2>1. CASE /\ Step("delete", "poll")
             /\ job' = IF Exists THEN Deleting(job) ELSE job
             /\ polls' = 0
             /\ GoOn /\ UNCHANGED <<wedge, orphaned, existing>>
    <3>1. job' \in Slot /\ (job' # NoJob => job'.st = job.st /\ job'.del)
      BY <2>1, SlotRecords DEF Exists, IInv, TypeOK
    <3>2. NoGhost' /\ (Exists' => Exists)
      BY <2>1, <3>1, SlotRecords DEF Exists, IInv, TypeOK, NoGhost, NoJob
    <3>. QED  BY <2>1, <3>1, <3>2 DEF IInv, TypeOK, Progress, Views,
                SuitesNotOrphaned, Deciding, Replacing, Exists, Step, GoOn, Pcs
  <2>. QED  BY <1>4, <2>1, GivenUpInv DEF Delete
<1>5. CASE Poll
  <2>1. CASE /\ ~Exists /\ Step("poll", "recreate") /\ Same
             /\ GoOn /\ UNCHANGED <<existing, polls>>
    BY <2>1 DEF IInv, TypeOK, NoGhost, Progress, Views, SuitesNotOrphaned, Deciding,
                Replacing, Exists, Step, Same, GoOn, Pcs
  <2>2. CASE /\ polls < MaxPolls /\ Step("poll", "poll") /\ polls' = polls + 1
             /\ Same /\ GoOn /\ UNCHANGED existing
    <3>1. polls' \in 0..MaxPolls
      BY <2>2 DEF IInv, TypeOK
    <3>. QED  BY <2>2, <3>1 DEF IInv, TypeOK, NoGhost, Progress, Views,
                SuitesNotOrphaned, Deciding, Replacing, Exists, Step, Same, GoOn, Pcs
  <2>3. CASE Step("poll", "look") /\ Same /\ GoOn /\ UNCHANGED <<existing, polls>>
    BY <2>3 DEF IInv, TypeOK, NoGhost, Progress, Views, SuitesNotOrphaned, Deciding,
                Replacing, Exists, Step, Same, GoOn, Pcs
  <2>. QED  BY <1>5, <2>1, <2>2, <2>3, GivenUpInv DEF Poll
<1>6. CASE Look
  <2>1. CASE /\ ~Exists /\ Step("look", "recreate") /\ Same
             /\ GoOn /\ UNCHANGED <<existing, polls>>
    BY <2>1 DEF IInv, TypeOK, NoGhost, Progress, Views, SuitesNotOrphaned, Deciding,
                Replacing, Exists, Step, Same, GoOn, Pcs
  <2>2. CASE /\ Exists /\ job.st # "active" /\ job.del /\ Step("look", "clear") /\ Same
             /\ GoOn /\ UNCHANGED <<existing, polls>>
    BY <2>2 DEF IInv, TypeOK, NoGhost, Progress, Views, SuitesNotOrphaned, Deciding,
                Replacing, Exists, Step, Same, GoOn, Pcs
  <2>. QED  BY <1>6, <2>1, <2>2, GivenUpInv DEF Look
<1>7. CASE Clear
  <2>1. CASE /\ Exists /\ Step("clear", "repoll")
             /\ job' = IF job.del THEN NoJob ELSE job
             /\ orphaned' = (orphaned \/ (job.del /\ job.st = "active"))
             /\ polls' = 0
             /\ GoOn /\ UNCHANGED <<wedge, existing>>
    <3>1. job' = NoJob
      BY <2>1 DEF IInv, Progress, Step
    <3>2. ~orphaned'
      BY <2>1 DEF IInv, Progress, Step, SuitesNotOrphaned
    <3>. QED  BY <2>1, <3>1, <3>2, SlotRecords DEF IInv, TypeOK, NoGhost, Progress,
                Views, SuitesNotOrphaned, Deciding, Replacing, Exists, Step, GoOn, Pcs
  <2>. QED  BY <1>7, <2>1, GivenUpInv DEF Clear
<1>8. CASE Repoll
  <2>1. CASE /\ ~Exists /\ Step("repoll", "recreate") /\ Same
             /\ GoOn /\ UNCHANGED <<existing, polls>>
    BY <2>1 DEF IInv, TypeOK, NoGhost, Progress, Views, SuitesNotOrphaned, Deciding,
                Replacing, Exists, Step, Same, GoOn, Pcs
  <2>. QED  BY <1>8, <2>1, GivenUpInv DEF Repoll
<1>. QED  BY <1>1, <1>2, <1>3, <1>4, <1>5, <1>6, <1>7, <1>8 DEF Call

-----------------------------------------------------------------------------
\* The cluster moves the Job and, while a call replaces it, the contract's view.
LEMMA ChangesInv ==
    ASSUME IInv, NEW st \in {"active", "passed", "failed"},
           Becomes([job EXCEPT !.st = st]),
           job.st \in {"starting", "active"}, st = "active" => job = FreshJob
    PROVE  IInv'
<1>1. /\ job' \in Slot /\ job'.st = st /\ job'.del = job.del
      /\ Exists /\ Exists' /\ UNCHANGED <<wedge, pc, existing, polls, answer, budget, orphaned>>
  BY DEF Becomes, IInv, TypeOK, Slot, Exists, NoJob
<1>2. /\ ~Replacing => contract' = job'
      /\ Replacing => contract' \in Slot /\ contract'.st = st /\ contract'.del = contract.del
  BY <1>1 DEF Becomes, IInv, TypeOK, Slot, Exists
<1>3. TypeOK' /\ NoGhost' /\ SuitesNotOrphaned'
  BY <1>1, <1>2 DEF IInv, TypeOK, NoGhost, SuitesNotOrphaned
<1>4. Progress'
  <2>1. pc = "clear" => job.del
    BY <1>1 DEF IInv, Progress
  <2>2. st = "active" => ~job.del
    BY DEF FreshJob
  <2>. QED  BY <1>1, <2>1, <2>2 DEF IInv, Progress, Exists
<1>5. Views'
  <2>1. Replacing' <=> Replacing
    BY <1>1 DEF Replacing
  <2>2. Deciding' => Deciding /\ Replacing
    BY <1>1 DEF Deciding, Replacing
  <2>. QED  BY <1>1, <1>2, <2>1, <2>2 DEF IInv, Views
<1>. QED  BY <1>3, <1>4, <1>5 DEF IInv

LEMMA CollectedInv == ASSUME IInv, Collected PROVE IInv'
<1>1. /\ job' = NoJob /\ wedge = "free"
      /\ contract' = (IF ~Replacing THEN NoJob ELSE contract)
      /\ UNCHANGED <<wedge, pc, existing, polls, answer, budget, orphaned>>
  BY DEF Collected, Becomes
<1>2. TypeOK' /\ NoGhost' /\ SuitesNotOrphaned'
  BY <1>1, SlotRecords DEF IInv, TypeOK, NoGhost, SuitesNotOrphaned
<1>3. Progress'
  BY <1>1 DEF IInv, Progress, Exists, NoJob
<1>4. Views'
  BY <1>1 DEF IInv, Views, Exists, Replacing, Deciding
<1>. QED  BY <1>2, <1>3, <1>4 DEF IInv

LEMMA ExpiresInv == ASSUME IInv, Expires PROVE IInv'
<1>1. /\ job' = Deleting(job) /\ contract' = Deleting(contract)
      /\ job \in Slot /\ contract \in Slot /\ job.st \in {"passed", "failed"}
      /\ UNCHANGED <<wedge, pc, existing, polls, answer, budget, orphaned>>
  BY DEF Expires, IInv, TypeOK
<1>2. /\ job' \in Slot /\ job'.st = job.st /\ job'.del
      /\ contract' \in Slot /\ contract'.st = contract.st /\ contract'.del
  BY <1>1, SlotRecords
<1>3. TypeOK' /\ NoGhost' /\ SuitesNotOrphaned'
  BY <1>1, <1>2 DEF IInv, TypeOK, NoGhost, SuitesNotOrphaned
<1>4. Exists /\ Exists'
  BY <1>1, <1>2 DEF Exists, NoJob
<1>5. Progress'
  BY <1>1, <1>2, <1>4 DEF IInv, Progress
<1>6. Views'
  <2>1. (Replacing' <=> Replacing) /\ (Deciding' <=> Deciding)
    BY <1>1 DEF Replacing, Deciding
  <2>2. ~Replacing => contract' = job'
    BY <1>1 DEF IInv, Views
  <2>. QED  BY <1>1, <1>2, <1>4, <2>1, <2>2 DEF IInv, Views
<1>. QED  BY <1>3, <1>5, <1>6 DEF IInv

LEMMA ClusterInv == ASSUME IInv, Cluster PROVE IInv'
<1>1. CASE PodStarts
  BY <1>1, ChangesInv DEF PodStarts, FreshJob
<1>2. CASE SuitePasses
  BY <1>2, ChangesInv DEF SuitePasses
<1>3. CASE SuiteFails
  BY <1>3, ChangesInv DEF SuiteFails
<1>. QED  BY <1>1, <1>2, <1>3, CollectedInv, ExpiresInv DEF Cluster

LEMMA NextInv == ASSUME IInv, [Next]_vars PROVE IInv'
<1>1. CASE Begin
  BY <1>1 DEF Begin, Step, Same, IInv, TypeOK, NoGhost, Progress, Views,
              SuitesNotOrphaned, Deciding, Replacing, Exists, Pcs
<1>2. CASE Die
  <2>1. budget' \in [errors : 0..MaxErrors, deaths : 0..MaxDeaths]
    BY <1>2 DEF Die, IInv, TypeOK
  <2>. QED  BY <1>2, <2>1, AnsweredInv DEF Die, Same, IInv, TypeOK, NoGhost
<1>3. CASE UNCHANGED vars
  BY <1>3 DEF vars, IInv, TypeOK, NoGhost, Progress, Views, SuitesNotOrphaned, Deciding,
              Replacing, Exists
<1>. QED  BY <1>1, <1>2, <1>3, CallInv, ClusterInv DEF Next

LEMMA Invariance == Spec => []IInv
BY InitInv, NextInv, PTL DEF Spec

\* Type correctness of the dispatcher's model.
THEOREM DispatchTypes == Spec => []TypeOK
<1>1. IInv => TypeOK
  BY DEF IInv
<1>. QED  BY <1>1, Invariance, PTL

\* clearWedgedFinalizers never takes a Job away from over a running Pod, however
\* the Job controller and the garbage collector move between its Get and Patch.
THEOREM NoSuiteOrphaned == Spec => []SuitesNotOrphaned
<1>1. IInv => SuitesNotOrphaned
  BY DEF IInv
<1>. QED  BY <1>1, Invariance, PTL

-----------------------------------------------------------------------------
(* The contract.                                                             *)

\* However far a call has come, it leaves the Job as a failed dispatch may.
LEMMA WhatIsLeft == ASSUME IInv, pc # "idle" PROVE job \in DispatchFailed(contract)
<1>1. CASE ~Exists
  BY <1>1 DEF Exists, DispatchFailed
<1>2. CASE Exists /\ ~Replacing
  BY <1>2 DEF IInv, Views, DispatchFailed
<1>3. CASE Exists /\ Replacing
  <2>1. /\ job \in Slot /\ contract \in Slot /\ job.st # "none"
        /\ contract.st = job.st /\ (contract.del => job.del)
    BY <1>3 DEF IInv, TypeOK, NoGhost, Views, Exists
  <2>2. contract # NoJob
    BY <2>1 DEF NoJob
  <2>3. CASE job.del
    BY <2>1, <2>2, <2>3, SlotRecords DEF DispatchFailed
  <2>4. CASE ~job.del
    <3>1. job.del = contract.del
      BY <2>1, <2>4 DEF Slot
    <3>2. job = contract
      BY <2>1, <3>1, SlotRecords
    <3>. QED  BY <3>2 DEF DispatchFailed
  <2>. QED  BY <2>3, <2>4
<1>. QED  BY <1>1, <1>2, <1>3

\* What the call knew when it found a success on its way out still holds.
LEMMA SuccessKnown ==
    ASSUME IInv, Deciding, existing.st = "passed"
    PROVE  /\ contract.st = "passed"
           /\ Exists => job.st = "passed"
           /\ existing.del => contract.del /\ job \in {contract, NoJob}
<1>1. Replacing
  BY DEF Deciding, Replacing
<1>2. contract.st = "passed" /\ (Exists => job.st = "passed")
  BY <1>1 DEF IInv, Views
<1>3. ASSUME existing.del PROVE contract.del /\ job \in {contract, NoJob}
  <2>1. contract.del
    BY <1>3 DEF IInv, Views
  <2>2. ASSUME Exists PROVE job = contract
    BY <1>1, <2>1, <2>2, SlotRecords DEF IInv, TypeOK, Views
  <2>. QED  BY <2>1, <2>2 DEF Exists
<1>. QED  BY <1>2, <1>3

\* The contract has its own copies of JobSlot's operators.
LEMMA SameSlot ==
    /\ Contract!NoJob = NoJob /\ Contract!FreshJob = FreshJob
    /\ \A s : /\ Contract!Deleting(s) = Deleting(s)
              /\ Contract!Running(s) = Running(s)
              /\ Contract!Dispatched(s) = Dispatched(s)
              /\ Contract!DispatchFailed(s) = DispatchFailed(s)
              /\ Contract!Panicked(s) = Panicked(s)
BY DEF Contract!NoJob, NoJob, Contract!FreshJob, FreshJob, Contract!Deleting, Deleting,
       Contract!Running, Running, Contract!Dispatched, Dispatched,
       Contract!DispatchFailed, DispatchFailed, Contract!Panicked, Panicked

LEMMA EndKeeps ==
    ASSUME IInv, pc # "idle", NEW a, Answered(a),
           \/ a = "ok"       /\ job' \in Dispatched(contract)
           \/ a \in {"failed", "died"} /\ job' \in DispatchFailed(contract)
           \/ a = "panicked" /\ job' \in Panicked(contract)
    PROVE  Contract!Answer
BY SameSlot DEF IInv, Progress, Answered, Contract!Answer

LEMMA FailedKeeps ==
    ASSUME IInv, pc # "idle", Same, NEW a \in {"failed", "died"}, Answered(a)
    PROVE  Contract!Answer
BY WhatIsLeft, EndKeeps DEF Same

LEMMA GivenUpKeeps ==
    ASSUME IInv, Deciding, Same, CannotReplace
    PROVE  Contract!Answer
<1>1. pc # "idle" /\ job' = job
  BY DEF Deciding, Same
<1>2. CASE existing.st # "passed"
  BY <1>1, <1>2, FailedKeeps DEF CannotReplace
<1>3. CASE existing.st = "passed" /\ existing.del
  <2>1. contract.st = "passed" /\ contract.del /\ job \in {contract, NoJob}
    BY <1>3, SuccessKnown
  <2>2. job' \in Dispatched(contract)
    BY <1>1, <2>1 DEF Dispatched
  <2>. QED  BY <1>1, <1>3, <2>2, EndKeeps DEF CannotReplace
<1>4. CASE existing.st = "passed" /\ ~existing.del
  <2>1. contract.st = "passed" /\ contract # NoJob
    BY <1>4, SuccessKnown DEF NoJob
  <2>2. job' \in Panicked(contract)
    BY <1>1, <2>1, WhatIsLeft DEF Panicked, DispatchFailed
  <2>. QED  BY <1>1, <1>4, <2>2, EndKeeps DEF CannotReplace
<1>. QED  BY <1>2, <1>3, <1>4

LEMMA CreatedKeeps ==
    ASSUME IInv, pc # "idle", Creates, Answered("ok")
    PROVE  Contract!Answer
BY EndKeeps DEF Creates, Dispatched

LEMMA CallKeeps == ASSUME IInv, Call PROVE [Contract!Answer]_<<contract, answer>>
<1>1. CASE Create
  BY <1>1, CreatedKeeps, FailedKeeps DEF Create, GoOn
<1>2. CASE Read
  <2>1. CASE Adopts(job) /\ Same /\ Answered("ok")
    <3>1. contract = job /\ job' = job
      BY <1>2, <2>1 DEF IInv, Views, Replacing, Read, Same
    <3>2. job' \in Dispatched(contract)
      BY <2>1, <3>1 DEF Dispatched, Adopts
    <3>. QED  BY <1>2, <2>1, <3>2, EndKeeps DEF Read
  <2>. QED  BY <1>2, <2>1, FailedKeeps DEF Read, GoOn
<1>3. CASE Recreate
  BY <1>3, CreatedKeeps, FailedKeeps DEF Recreate
<1>4. CASE Delete
  BY <1>4, GivenUpKeeps DEF Delete, GoOn, Deciding
<1>5. CASE Poll
  BY <1>5, GivenUpKeeps DEF Poll, GoOn, Deciding
<1>6. CASE Look
  BY <1>6, GivenUpKeeps DEF Look, GoOn, Deciding
<1>7. CASE Clear
  BY <1>7, GivenUpKeeps DEF Clear, GoOn, Deciding
<1>8. CASE Repoll
  BY <1>8, GivenUpKeeps DEF Repoll, GoOn, Deciding
<1>. QED  BY <1>1, <1>2, <1>3, <1>4, <1>5, <1>6, <1>7, <1>8 DEF Call

\* What the contract's slot is while the Job is in a state.
LEMMA SlotFollows ==
    ASSUME IInv, Exists
    PROVE  contract.st = job.st /\ (contract.del => job.del) /\ contract \in Slot
BY DEF IInv, TypeOK, Views

LEMMA ClusterKeeps == ASSUME IInv, Cluster PROVE [Contract!Lives]_<<contract, answer>>
<1>1. CASE PodStarts
  <2>1. Exists /\ job = FreshJob
    BY <1>1 DEF PodStarts, Exists, NoJob, FreshJob
  <2>2. contract.st = "starting" /\ contract.del = FALSE /\ contract \in Slot
    BY <2>1, SlotFollows DEF FreshJob, Slot
  <2>3. contract = FreshJob
    BY <2>1, <2>2, SlotRecords DEF FreshJob
  <2>4. contract' = [FreshJob EXCEPT !.st = "active"] /\ answer' = answer
    BY <1>1, <2>1, <2>3 DEF PodStarts, Becomes, FreshJob, NoJob
  <2>. QED  BY <2>3, <2>4, SameSlot DEF Contract!Lives
<1>2. CASE SuitePasses \/ SuiteFails
  <2>1. Exists /\ answer' = answer
    BY <1>2 DEF SuitePasses, SuiteFails, Becomes, Exists, NoJob
  <2>2. PICK st \in {"passed", "failed"} :
           /\ Becomes([job EXCEPT !.st = st])
           /\ job.st \in {"starting", "active"} /\ (st = "passed" => job.st = "active")
    BY <1>2 DEF SuitePasses, SuiteFails
  <2>3. [job EXCEPT !.st = st].st = st
    BY DEF IInv, TypeOK, Slot
  <2>4. contract' = [contract EXCEPT !.st = st]
    <3>1. CASE ~Replacing
      BY <2>2, <3>1 DEF Becomes, IInv, Views
    <3>2. CASE Replacing
      BY <2>2, <2>3, <3>2 DEF Becomes, NoJob
    <3>. QED  BY <3>1, <3>2
  <2>. QED  BY <2>1, <2>2, <2>4, SlotFollows DEF Contract!Lives
<1>3. CASE Expires
  <2>1. Exists /\ answer' = answer /\ contract' = Deleting(contract)
        /\ job.st \in {"passed", "failed"}
    BY <1>3 DEF Expires, Exists, NoJob
  <2>. QED  BY <2>1, SlotFollows, SameSlot DEF Contract!Lives
<1>4. CASE Collected
  BY <1>4, SameSlot DEF Collected, Becomes, IInv, Views, Contract!Lives
<1>. QED  BY <1>1, <1>2, <1>3, <1>4 DEF Cluster

LEMMA StepKeeps ==
    ASSUME IInv, [Next]_vars
    PROVE  [Contract!Next]_<<contract, answer>>
<1>1. CASE Begin
  BY <1>1 DEF Begin, Contract!Next, Contract!Call
<1>2. CASE Die
  BY <1>2, FailedKeeps DEF Die, Contract!Next
<1>3. CASE UNCHANGED vars
  BY <1>3 DEF vars
<1>. QED  BY <1>1, <1>2, <1>3, CallKeeps, ClusterKeeps DEF Next, Contract!Next

\* The refinement: whatever the cluster does between the requests of a call,
\* seen from outside each call is one of the steps that JobSlot names and that
\* the controller's model takes.
THEOREM DispatchImplementsContract == Spec => KeepsContract
<1>1. Init => Contract!Init
  BY SameSlot, SlotRecords DEF Init, Contract!Init, Contract!Slot, Slot, NoJob, Deleting
<1>. QED  BY <1>1, Invariance, StepKeeps, PTL DEF Spec, KeepsContract, Contract!Spec

-----------------------------------------------------------------------------
(* How calls end.                                                            *)

LEMMA SpendCounts == ASSUME TypeOK, Spend PROVE budget'.errors > 0
BY DEF TypeOK, Spend

\* An adopted success that is still there got there by a refused or failed request.
LEMMA OkHasReason ==
    ASSUME IInv, Deciding, Same, CannotReplace, answer' = "ok",
           Exists => job.st = "active" \/ ~job.del
    PROVE  job' = NoJob
<1>1. existing.st = "passed" /\ existing.del
  BY DEF CannotReplace, Answered
<1>2. contract.st = "passed" /\ contract.del /\ job \in {contract, NoJob}
  BY <1>1, SuccessKnown
<1>. QED  BY <1>2 DEF Same, Exists

\* A verdict that is on record is taken for this run's only where the API server
\* refused to remove it, or a request failed.
THEOREM FreshVerdicts == Spec => VerdictsAreFresh
<1>1. ASSUME IInv, Next, answer = "none", answer' = "ok", job'.st \in {"passed", "failed"}
      PROVE  wedge = "immutable" \/ budget'.errors > 0
  <2>1. TypeOK /\ NoJob.st = "none" /\ FreshJob.st = "starting"
    BY <1>1 DEF IInv, NoJob, FreshJob
  <2>2. ~Creates
    BY <1>1, <2>1 DEF Creates
  <2>3. CASE Create \/ Recreate
    BY <1>1, <2>2, <2>3 DEF Create, Recreate, GoOn, Answered
  <2>4. CASE Read
    BY <1>1, <2>4 DEF Read, GoOn, Answered, Same, Adopts, Running
  <2>5. CASE Delete \/ Poll \/ Repoll
    BY <1>1, <2>1, <2>5, SpendCounts DEF Delete, Poll, Repoll, GoOn
  <2>6. CASE Look
    BY <1>1, <2>1, <2>6, SpendCounts, OkHasReason DEF Look, GoOn, Deciding
  <2>7. CASE Clear
    BY <1>1, <2>1, <2>7, SpendCounts, OkHasReason DEF Clear, GoOn, Deciding
  <2>8. CASE Begin \/ Die \/ Cluster
    BY <1>1, <2>8 DEF Begin, Die, Answered, Cluster, PodStarts, SuitePasses, SuiteFails,
                      Expires, Collected, Becomes
  <2>. QED  BY <1>1, <2>3, <2>4, <2>5, <2>6, <2>7, <2>8 DEF Next, Call
<1>. QED  BY <1>1, Invariance, PTL DEF Spec, VerdictsAreFresh, vars

\* Where no request fails, a call on a Job whose deletion has stalled fails only
\* over a Pod that still runs: the finalizers are cleared and the Job replaced.
THEOREM StallsFailNothing == Spec => StallFailsNothing
<1>1. ASSUME IInv, Next, Fails, wedge = "stalled" PROVE job.st = "active"
  <2>1. TypeOK /\ ~(budget'.errors > 0)
    BY <1>1 DEF IInv, Fails
  <2>2. ~Spend
    BY <2>1, SpendCounts
  <2>3. CASE Call
    <3>1. CASE Create \/ Read \/ Recreate \/ Delete \/ Poll \/ Repoll
      BY <1>1, <2>2, <3>1 DEF Create, Read, Recreate, Delete, Poll, Repoll, GoOn, Answered, Fails
    <3>2. CASE Look
      BY <1>1, <2>2, <3>2 DEF Look, GoOn, Fails, IInv, Progress
    <3>3. CASE Clear
      BY <1>1, <2>2, <3>3 DEF Clear, GoOn, Fails, IInv, Progress
    <3>. QED  BY <2>3, <3>1, <3>2, <3>3 DEF Call
  <2>4. CASE Begin \/ Die \/ Cluster
    BY <1>1, <2>4 DEF Begin, Die, Answered, Cluster, PodStarts, SuitePasses, SuiteFails,
                      Expires, Collected, Becomes, Fails
  <2>. QED  BY <1>1, <2>3, <2>4 DEF Next
<1>2. ASSUME UNCHANGED vars, Fails PROVE FALSE
  BY <1>2 DEF vars, Fails
<1>. QED  BY <1>1, <1>2, Invariance, PTL DEF Spec, StallFailsNothing
=============================================================================
