----------------------------- MODULE Leadership -----------------------------
(***************************************************************************)
(* The replicas of the observer (cmd/server/main.go, internal/leader): each *)
(* is a candidate for one Lease, and only the leader starts the watcher and *)
(* the controller.  The elector renews the Lease, gives up when it cannot   *)
(* for RenewDeadline, releases it, and returns; the process then exits so   *)
(* that Kubernetes restarts it.  The liveness probe asks the elector's      *)
(* watchdog, for an elector that hangs.                                     *)
(*                                                                          *)
(* Time is counted from the last renewals, in units of a model, up to where *)
(* more of it makes no difference.                                          *)
(***************************************************************************)
EXTENDS Integers

CONSTANTS
    Replicas,      \* the Pods; a restarted container keeps its identity
    NoReplica,     \* nobody
    LeaseDuration, \* 15s
    RenewDeadline, \* 10s
    RetryPeriod,   \* 2s
    MaxStall,      \* how late an answer or a goroutine may be
    Tolerance,     \* 20s, of the LeaderHealthzAdaptor
    MaxFailures    \* bound of a model: outages, hangs, deaths, failed starts

\* A leader has stopped before its Lease is free to take.
Patience == RetryPeriod + RenewDeadline + MaxStall

ASSUME LeadershipAssumption ==
    /\ NoReplica \notin Replicas
    /\ {LeaseDuration, RenewDeadline, RetryPeriod, MaxStall, Tolerance,
        MaxFailures} \subseteq Nat
    /\ RenewDeadline > 0
    /\ Patience < LeaseDuration

VARIABLES
    holder,   \* holderIdentity of the Lease
    age,      \* how long ago it was renewed
    pc,       \* where each replica's process is
    since,    \* how long ago its elector last renewed the Lease
    hung,     \* its elector hangs
    work,     \* what its leader callback has started
    failures  \* how many failures there were

vars == <<holder, age, pc, since, hung, work, failures>>

-----------------------------------------------------------------------------
\* The watchdog's limit, one past which a leader is unhealthy.
Limit == LeaseDuration + Tolerance

\* "ending": RunOrDie has returned.
Pcs == {"down", "standby", "leading", "releasing", "ending"}

\* The callback has nothing, is about to start, has the watcher alone and goes
\* on to the controller, has both, or has returned early, with the watcher
\* running or without.
Works == {"none", "starting", "watching", "observing", "watcher only", "idle"}

TypeOK ==
    /\ holder \in Replicas \cup {NoReplica}
    /\ age \in 0..LeaseDuration
    /\ pc \in [Replicas -> Pcs]
    /\ since \in [Replicas -> 0..(Limit + 1)]
    /\ hung \in [Replicas -> BOOLEAN]
    /\ work \in [Replicas -> Works]
    /\ failures \in 0..MaxFailures

Init ==
    /\ holder = NoReplica
    /\ age = 0
    /\ pc = [p \in Replicas |-> "standby"]
    /\ since = [p \in Replicas |-> 0]
    /\ hung = [p \in Replicas |-> FALSE]
    /\ work = [p \in Replicas |-> "none"]
    /\ failures = 0

Fail == failures < MaxFailures /\ failures' = failures + 1

Move(p, to) == pc' = [pc EXCEPT ![p] = to]

\* The process is gone, and all it had started with it.
Gone(p) ==
    /\ Move(p, "down")
    /\ since' = [since EXCEPT ![p] = 0]
    /\ hung' = [hung EXCEPT ![p] = FALSE]
    /\ work' = [work EXCEPT ![p] = "none"]

-----------------------------------------------------------------------------
(* The elector.                                                              *)

\* The kubelet starts the container, run() starts the elector.
Boot(p) ==
    /\ pc[p] = "down"
    /\ Move(p, "standby")
    /\ UNCHANGED <<holder, age, since, hung, work, failures>>

Take(p) ==
    /\ holder' = p
    /\ age' = 0
    /\ Move(p, "leading")
    /\ since' = [since EXCEPT ![p] = 0]
    /\ work' = [work EXCEPT ![p] = "starting"]
    /\ UNCHANGED <<hung, failures>>

\* Mutant: a Lease is taken as soon as its holder may have stopped renewing.
AcquireEarly(p) ==
    /\ pc[p] = "standby"
    /\ holder \in {NoReplica, p} \/ age >= RenewDeadline
    /\ Take(p)

\* A free Lease, one's own of before the restart, or one that was not renewed
\* for its duration.
Acquire(p) ==
    /\ pc[p] = "standby"
    /\ holder \in {NoReplica, p} \/ age >= LeaseDuration
    /\ Take(p)

\* The update carries the resourceVersion: it fails when another has taken it.
Renew(p) ==
    /\ pc[p] = "leading" /\ ~hung[p]
    /\ holder = p
    /\ since[p] > 0
    /\ age' = 0
    /\ since' = [since EXCEPT ![p] = 0]
    /\ UNCHANGED <<holder, pc, hung, work, failures>>

\* No renewal for RenewDeadline.
GiveUp(p) ==
    /\ pc[p] = "leading" /\ ~hung[p]
    /\ since[p] >= RenewDeadline
    /\ Fail
    /\ Move(p, "releasing")
    /\ UNCHANGED <<holder, age, since, hung, work>>

\* ReleaseOnCancel, if the API server can be reached; the context of the
\* callback is cancelled only after it.
Release(p) ==
    /\ pc[p] = "releasing"
    /\ holder' \in {holder, IF holder = p THEN NoReplica ELSE holder}
    /\ Move(p, "ending")
    /\ UNCHANGED <<age, since, hung, work, failures>>

\* Mutant: the process stays when leadership has ended ("hung for weeks").
Linger(p) ==
    /\ pc[p] = "ending"
    /\ work[p] # "none"
    /\ work' = [work EXCEPT ![p] = "none"]
    /\ UNCHANGED <<holder, age, pc, since, hung, failures>>

\* The elector has returned although nobody asked it to: os.Exit(1).
Exit(p) ==
    /\ pc[p] = "ending"
    /\ Gone(p)
    /\ UNCHANGED <<holder, age, failures>>

-----------------------------------------------------------------------------
(* The leader's callback.                                                    *)

\* watcher.New, then `go w.Run`.
StartWatcher(p) ==
    /\ pc[p] \in {"leading", "releasing"}
    /\ work[p] = "starting"
    /\ \/ work' = [work EXCEPT ![p] = "watching"] /\ UNCHANGED failures
       \/ work' = [work EXCEPT ![p] = "idle"] /\ Fail
    /\ UNCHANGED <<holder, age, pc, since, hung>>

\* controller.New, then ctrl.Run.
StartController(p) ==
    /\ pc[p] \in {"leading", "releasing"}
    /\ work[p] = "watching"
    /\ \/ work' = [work EXCEPT ![p] = "observing"] /\ UNCHANGED failures
       \/ work' = [work EXCEPT ![p] = "watcher only"] /\ Fail
    /\ UNCHANGED <<holder, age, pc, since, hung>>

-----------------------------------------------------------------------------
(* What happens to a process.                                                *)

\* A crash; or a SIGTERM, after which run() returns while the elector may just
\* have the time to release the Lease.
Die(p) ==
    /\ pc[p] # "down"
    /\ Fail
    /\ Gone(p)
    /\ holder' \in {holder, IF holder = p THEN NoReplica ELSE holder}
    /\ UNCHANGED age

\* The elector's goroutine gets stuck; what the callback started goes on.
Hang(p) ==
    /\ pc[p] = "leading" /\ ~hung[p]
    /\ Fail
    /\ hung' = [hung EXCEPT ![p] = TRUE]
    /\ UNCHANGED <<holder, age, pc, since, work>>

\* Mutant: the watchdog measures against the renew deadline.
UnhealthyEarly(p) == pc[p] = "leading" /\ since[p] > RenewDeadline

\* What /health/live reports: a leader that has not renewed for the duration of
\* the Lease and the tolerance.
Unhealthy(p) == pc[p] = "leading" /\ since[p] > Limit

\* The kubelet restarts an unhealthy container.
Restart(p) ==
    /\ Unhealthy(p)
    /\ Gone(p)
    /\ UNCHANGED <<holder, age, failures>>

\* Mutant: time is not capped.
OlderForever(n, most) == n + 1

Older(n, most) == IF n < most THEN n + 1 ELSE n

\* An elector that does not hang acts in time: it renews, unless a failure is
\* to come, and gives up when its patience is over.
Tick ==
    /\ \A p \in Replicas :
          pc[p] = "leading" /\ ~hung[p] =>
              since[p] < IF failures < MaxFailures THEN Patience ELSE RenewDeadline
    /\ age' = Older(age, LeaseDuration)
    /\ since' = [p \in Replicas |-> IF pc[p] = "leading" THEN Older(since[p], Limit + 1)
                                    ELSE since[p]]
    /\ UNCHANGED <<holder, pc, hung, work, failures>>

Next ==
    \/ \E p \in Replicas :
          \/ Boot(p) \/ Acquire(p) \/ Renew(p) \/ GiveUp(p) \/ Release(p) \/ Exit(p)
          \/ StartWatcher(p) \/ StartController(p)
          \/ Die(p) \/ Hang(p) \/ Restart(p)
    \/ Tick

Spec == Init /\ [][Next]_vars

\* The kubelet restarts what is down or unhealthy, goroutines go on, time passes.
FairSpec ==
    /\ Spec
    /\ \A p \in Replicas :
          /\ WF_vars(Boot(p)) /\ WF_vars(Acquire(p)) /\ WF_vars(Renew(p))
          /\ WF_vars(Release(p)) /\ WF_vars(Exit(p)) /\ WF_vars(Restart(p))
          /\ WF_vars(StartWatcher(p)) /\ WF_vars(StartController(p))
    /\ WF_vars(Tick)

-----------------------------------------------------------------------------
(* Correctness.                                                              *)

Leads(p) == pc[p] = "leading" /\ ~hung[p]

\* "Watcher + controller run only on the leader pod": two replicas never lead
\* at once, whatever the API server and the Pods do, as long as electors do not
\* hang.
SoleLeader == \A p, q \in Replicas : Leads(p) /\ Leads(q) => p = q

\* The liveness probe restarts hung leaders only: an outage of the API server
\* does not make it restart the replicas in turn.
OnlyHungRestart == \A p \in Replicas : Unhealthy(p) => hung[p]

\* The argument for both: who leads is the holder, and has been renewing.
LeaseInv ==
    \A p \in Replicas : Leads(p) => holder = p /\ age = since[p] /\ since[p] <= Patience

\* Somebody observes again after every failure, or a leader is there whose start
\* failed.
Observed == \E p \in Replicas : work[p] = "observing"
Stranded == \E p \in Replicas : work[p] \in {"idle", "watcher only"}

SomebodyObserves == ~Observed ~> Observed \/ Stranded

-----------------------------------------------------------------------------
(* What comments say and the code does not keep.                             *)

\* The process must not linger "dispatching nothing, while a static
\* /health/live stays green": nor does it when a start fails.
NobodyStranded == ~Observed ~> Observed

\* "running them concurrently across replicas produces a race": what the leader
\* started does not run beside the next leader's.
SoleObserver == \A p, q \in Replicas : work[p] = "observing" /\ work[q] = "observing" => p = q
=============================================================================
