----------------------------- MODULE Forensics -----------------------------
(***************************************************************************)
(* The forensics run behind every recorded verdict: maybeDispatchForensics  *)
(* with findPreviousVersion, and the forensics dispatcher's requests (Create, *)
(* delete-and-wait, Create again).  Both goroutines of the controller may   *)
(* record the same verdict, so two calls may contend for one Job name.      *)
(***************************************************************************)
EXTENDS Integers

CONSTANTS
    Workers,      \* the reconciling goroutines
    MaxVersions,  \* bound of a model: versions of the service
    JobName,      \* jobNameFor: the Job name of a version's Arrival
    MaxPolls,     \* polls that fit into the 30 s budget
    MaxVerdicts,  \* bounds of a model: verdicts recorded,
    MaxErrors     \* and failed requests, crashes included

Versions == 1..MaxVersions

ASSUME ForensicsAssumption ==
    /\ MaxVersions \in Nat \ {0} /\ MaxPolls \in Nat
    /\ MaxVerdicts \in Nat /\ MaxErrors \in Nat
    /\ DOMAIN JobName = Versions

VARIABLES
    released,     \* Arrivals of versions 1..released exist, created in this order
    phase,        \* per version: "open", or "verdict" (Passed, Failed, Timeout)
    finalizedAt,  \* per version; 0 if absent
    clock,        \* the time of the last verdict
    cycle,        \* history: test cycles of a version that ended in a verdict
    noted,        \* status.forensics.jobName is set
    jobs,         \* per Job name
    ran,          \* history: the last cycle a completed forensics run was for
    wk,           \* what each worker does
    errors,       \* failed requests so far
    failed        \* history: a call of this cycle failed or died

vars == <<released, phase, finalizedAt, clock, cycle, noted, jobs, ran, wk,
          errors, failed>>

Names == {JobName[v] : v \in Versions}

\* No version, no Arrival, no previous version.
None == 0

NoJob == [of |-> None, cycle |-> 0, prev |-> None, done |-> FALSE, del |-> FALSE]
Job   == [of : Versions, cycle : 1..MaxVerdicts, prev : Versions \cup {None},
          done : BOOLEAN, del : BOOLEAN]

Pcs  == {"idle", "list", "create", "delete", "poll", "recreate", "note"}
Idle == [pc |-> "idle", v |-> None, prev |-> None, polls |-> 0]

TypeOK ==
    /\ released \in 0..MaxVersions
    /\ phase \in [Versions -> {"open", "verdict"}]
    /\ finalizedAt \in [Versions -> 0..MaxVerdicts]
    /\ clock \in 0..MaxVerdicts
    /\ cycle \in [Versions -> 0..MaxVerdicts]
    /\ noted \in [Versions -> BOOLEAN]
    /\ jobs \in [Names -> Job \cup {NoJob}]
    /\ ran \in [Versions -> 0..MaxVerdicts]
    /\ wk \in [Workers -> [pc : Pcs, v : 0..MaxVersions, prev : 0..MaxVersions,
                           polls : 0..MaxPolls]]
    /\ errors \in 0..MaxErrors
    /\ failed \in [Versions -> BOOLEAN]

Init ==
    /\ released = 0
    /\ phase = [v \in Versions |-> "open"]
    /\ finalizedAt = [v \in Versions |-> 0]
    /\ clock = 0
    /\ cycle = [v \in Versions |-> 0]
    /\ noted = [v \in Versions |-> FALSE]
    /\ jobs = [n \in Names |-> NoJob]
    /\ ran = [v \in Versions |-> 0]
    /\ wk = [w \in Workers |-> Idle]
    /\ errors = 0
    /\ failed = [v \in Versions |-> FALSE]

-----------------------------------------------------------------------------
(* The Arrivals, as far as forensics looks at them.                          *)

arrivals == <<released, phase, finalizedAt, clock, cycle>>

Calling(v) == \E w \in Workers : wk[w].pc # "idle" /\ wk[w].v = v

Release ==
    /\ released < MaxVersions
    /\ released' = released + 1
    /\ UNCHANGED <<phase, finalizedAt, clock, cycle, noted, jobs, ran, wk, errors,
                   failed>>

\* handleTesting records a verdict and goes on to forensics.  With a snapshot
\* taken before the other goroutine's verdict it records that one again.
Verdict(w, v) ==
    /\ wk[w] = Idle
    /\ v <= released
    /\ clock < MaxVerdicts
    /\ clock' = clock + 1
    /\ phase' = [phase EXCEPT ![v] = "verdict"]
    /\ finalizedAt' = [finalizedAt EXCEPT ![v] = clock + 1]
    /\ IF phase[v] = "open"
       THEN cycle' = [cycle EXCEPT ![v] = @ + 1] /\ failed' = [failed EXCEPT ![v] = FALSE]
       ELSE UNCHANGED <<cycle, failed>>
    /\ wk' = [wk EXCEPT ![w] = [Idle EXCEPT !.pc = "list", !.v = v]]
    /\ UNCHANGED <<released, noted, jobs, ran, errors>>

\* A rollout past the cooldown.  The code does not look whether a call of the
\* last cycle is still under way: that none is, is an assumption on time (the
\* cooldown is 5 minutes, the call's own wait 30 s), and makes the cycle that a
\* Job is labelled with the one it was dispatched for.
Retest(v) ==
    /\ phase[v] = "verdict"
    /\ ~Calling(v)
    /\ phase' = [phase EXCEPT ![v] = "open"]
    /\ UNCHANGED <<released, finalizedAt, clock, cycle, noted, jobs, ran, wk, errors,
                   failed>>

-----------------------------------------------------------------------------
(* The call.                                                                 *)

At(w, pc)   == wk[w].pc = pc
Goto(w, pc) == wk' = [wk EXCEPT ![w].pc = pc, ![w].polls = 0]
Name(w)     == JobName[wk[w].v]
Exists(w)   == jobs[Name(w)] # NoJob

\* An error is logged; the verdict stays as it is.
Fail(w) ==
    /\ wk' = [wk EXCEPT ![w] = Idle]
    /\ failed' = [failed EXCEPT ![wk[w].v] = TRUE]
    /\ UNCHANGED jobs

RequestFails(w) == errors < MaxErrors /\ errors' = errors + 1 /\ Fail(w)

\* Mutant: the cutoff at the creation of the current Arrival is gone.
AnyOther(v) == {u \in 1..released : u # v /\ phase[u] = "verdict"}

\* Arrivals that findPreviousVersion considers for v: created earlier, with a
\* verdict now.
Candidates(v) == {u \in 1..released : u < v /\ phase[u] = "verdict"}

\* The candidate with the latest finalizedAt.
Previous(v) ==
    IF Candidates(v) = {} THEN None
    ELSE CHOOSE u \in Candidates(v) :
            \A t \in Candidates(v) : finalizedAt[t] <= finalizedAt[u]

\* A List that fails compares with nothing.
FindPrevious(w) ==
    /\ At(w, "list")
    /\ \/ /\ wk' = [wk EXCEPT ![w].pc = "create", ![w].prev = Previous(wk[w].v)]
          /\ UNCHANGED errors
       \/ /\ errors < MaxErrors /\ errors' = errors + 1
          /\ Goto(w, "create")
    /\ UNCHANGED <<arrivals, noted, jobs, ran, failed>>

Creates(w) ==
    /\ jobs' = [jobs EXCEPT ![Name(w)] =
                  [NoJob EXCEPT !.of = wk[w].v, !.cycle = cycle[wk[w].v],
                                !.prev = wk[w].prev]]
    /\ Goto(w, "note")
    /\ UNCHANGED <<errors, failed>>

\* Mutant: a Job of this name is this run's.
CreateOrReuse(w) ==
    /\ At(w, "create")
    /\ \/ ~Exists(w) /\ Creates(w)
       \/ Exists(w) /\ Goto(w, "note") /\ UNCHANGED <<jobs, errors, failed>>
       \/ RequestFails(w)
    /\ UNCHANGED <<arrivals, noted, ran>>

Create(w) ==
    /\ At(w, "create")
    /\ \/ ~Exists(w) /\ Creates(w)
       \/ Exists(w) /\ Goto(w, "delete") /\ UNCHANGED <<jobs, errors, failed>>
       \/ RequestFails(w)
    /\ UNCHANGED <<arrivals, noted, ran>>

\* NotFound counts as done.
Delete(w) ==
    /\ At(w, "delete")
    /\ \/ /\ jobs' = IF Exists(w) THEN [jobs EXCEPT ![Name(w)].del = TRUE] ELSE jobs
          /\ Goto(w, "poll")
          /\ UNCHANGED <<errors, failed>>
       \/ RequestFails(w)
    /\ UNCHANGED <<arrivals, noted, ran>>

\* Mutants: one poll too many; no deadline.
PollOverrun(w) ==
    /\ At(w, "poll")
    /\ \/ ~Exists(w) /\ Goto(w, "recreate") /\ UNCHANGED <<jobs, errors, failed>>
       \/ /\ Exists(w) /\ wk[w].polls <= MaxPolls
          /\ wk' = [wk EXCEPT ![w].polls = @ + 1]
          /\ UNCHANGED <<jobs, errors, failed>>
       \/ wk[w].polls >= MaxPolls /\ Fail(w) /\ UNCHANGED errors
       \/ RequestFails(w)
    /\ UNCHANGED <<arrivals, noted, ran>>

PollForEver(w) ==
    /\ At(w, "poll")
    /\ \/ ~Exists(w) /\ Goto(w, "recreate") /\ UNCHANGED <<jobs, errors, failed>>
       \/ RequestFails(w)
    /\ UNCHANGED <<arrivals, noted, ran>>

Poll(w) ==
    /\ At(w, "poll")
    /\ \/ ~Exists(w) /\ Goto(w, "recreate") /\ UNCHANGED <<jobs, errors, failed>>
       \/ /\ Exists(w) /\ wk[w].polls < MaxPolls
          /\ wk' = [wk EXCEPT ![w].polls = @ + 1]
          /\ UNCHANGED <<jobs, errors, failed>>
       \/ wk[w].polls = MaxPolls /\ Fail(w) /\ UNCHANGED errors
       \/ RequestFails(w)
    /\ UNCHANGED <<arrivals, noted, ran>>

\* AlreadyExists is an error here.
Recreate(w) ==
    /\ At(w, "recreate")
    /\ \/ ~Exists(w) /\ Creates(w)
       \/ Exists(w) /\ Fail(w) /\ UNCHANGED errors
       \/ RequestFails(w)
    /\ UNCHANGED <<arrivals, noted, ran>>

\* patchStatus of forensics.jobName; a lost patch is logged.
Note(w) ==
    /\ At(w, "note")
    /\ \/ noted' = [noted EXCEPT ![wk[w].v] = TRUE] /\ UNCHANGED errors
       \/ errors < MaxErrors /\ errors' = errors + 1 /\ UNCHANGED noted
    /\ wk' = [wk EXCEPT ![w] = Idle]
    /\ UNCHANGED <<arrivals, jobs, ran, failed>>

Call(w) == \/ FindPrevious(w) \/ Create(w) \/ Delete(w) \/ Poll(w)
           \/ Recreate(w) \/ Note(w)

\* The process ends.
Die ==
    /\ errors < MaxErrors
    /\ errors' = errors + 1
    /\ failed' = [v \in Versions |-> failed[v] \/ Calling(v)]
    /\ wk' = [w \in Workers |-> Idle]
    /\ UNCHANGED <<arrivals, noted, jobs, ran>>

-----------------------------------------------------------------------------
(* The cluster.                                                              *)

ClusterOnly == UNCHANGED <<arrivals, noted, wk, errors, failed>>

RunEnds(n) ==
    /\ jobs[n] # NoJob /\ ~jobs[n].done /\ ~jobs[n].del
    /\ jobs' = [jobs EXCEPT ![n].done = TRUE]
    /\ ran' = [ran EXCEPT ![jobs[n].of] = jobs[n].cycle]
    /\ ClusterOnly

\* ttlSecondsAfterFinished.
Expires(n) ==
    /\ jobs[n].done /\ ~jobs[n].del
    /\ jobs' = [jobs EXCEPT ![n].del = TRUE]
    /\ UNCHANGED ran
    /\ ClusterOnly

Collected(n) ==
    /\ jobs[n].del
    /\ jobs' = [jobs EXCEPT ![n] = NoJob]
    /\ UNCHANGED ran
    /\ ClusterOnly

Next ==
    \/ Release \/ Die
    \/ \E v \in Versions : Retest(v) \/ \E w \in Workers : Verdict(w, v)
    \/ \E w \in Workers : Call(w)
    \/ \E n \in Names : RunEnds(n) \/ Expires(n) \/ Collected(n)

Spec == Init /\ [][Next]_vars

\* A call that has begun goes on; nothing is assumed of the cluster.
FairSpec == Spec /\ \A w \in Workers : WF_vars(Call(w))
-----------------------------------------------------------------------------
(* Correctness.                                                              *)

\* "the new Arrival's forensics run actually fires against the fresh
\* test-execution window": a cycle whose calls all went well - two of them may
\* have deleted each other's Job - has had its run, or its Job is there.
ForensicsFires ==
    \A v \in Versions :
        phase[v] = "verdict" /\ ~failed[v] /\ ~Calling(v) =>
            \/ ran[v] = cycle[v]
            \/ LET job == jobs[JobName[v]]
               IN  job.of = v /\ job.cycle = cycle[v] /\ ~job.del

\* A version is never compared with one that came after it, also when it is
\* tested again after a rollback from that one.
ComparesBackwards == \A n \in Names : jobs[n] # NoJob => jobs[n].prev < jobs[n].of

\* A call returns, so that the goroutine goes on to other Arrivals.
CallsReturn == \A w \in Workers : ~At(w, "idle") ~> At(w, "idle")

\* "must compare against its TRUE chronological predecessor": the last earlier
\* version with a verdict.
ComparesWithPredecessor ==
    [][\A w \in Workers : At(w, "list") /\ wk'[w].pc = "create" /\ errors' = errors =>
          \A u \in Candidates(wk[w].v) : u <= wk'[w].prev]_vars

\* "Record jobName on the arrival so kubectl observers can find the Job": the
\* Job of the noted name is the Arrival's own.
NotedJobIsOwn ==
    \A v \in Versions :
        noted[v] /\ ~Calling(v) => jobs[JobName[v]].of \in {v, None}
=============================================================================
