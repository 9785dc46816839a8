------------------------------- MODULE Rollout -------------------------------
(***************************************************************************)
(* The gate in front of every dispatch: waitForDeploymentRollout polls the  *)
(* service's Deployment until isDeploymentRolledOut, while Kubernetes       *)
(* replaces Pods and the user upgrades and scales.                          *)
(*                                                                          *)
(* The gate reads numbers that are two reports away from the Pods the tests *)
(* will meet: the ReplicaSet controller counts the Pods that are not being  *)
(* deleted into each ReplicaSet's status, and the Deployment controller     *)
(* sums those, and the sizes it gave the ReplicaSets, into the              *)
(* Deployment's.  The ReplicaSets of all earlier templates are one here.    *)
(* Not covered: a return to an earlier template (its ReplicaSet would be    *)
(* taken up again with the Pods it has), and the Recreate strategy.         *)
(***************************************************************************)
EXTENDS Integers

CONSTANTS
    MinReplicas,     \* the least spec.replicas a user sets
    MaxReplicas,     \* the largest
    MaxSurge,        \* Pods a rolling update may have beyond them
    MaxUnavailable,  \* and may lack
    MaxGen,          \* bounds of a model: values of metadata.generation,
    MaxPolls         \* polls that fit into the gate's timeout

ASSUME RolloutAssumption ==
    /\ {MinReplicas, MaxReplicas, MaxSurge, MaxUnavailable, MaxGen, MaxPolls} \subseteq Nat
    /\ MinReplicas <= MaxReplicas
    /\ MaxGen >= 1

VARIABLES
    exists,  \* there is a Deployment of the service's name
    spec,    \* generation, template version and replicas of the Deployment
    sets,    \* its ReplicaSets: the sizes they are given, the Pods they report
    pods,    \* Pods of earlier templates and of the newest, available and not,
             \* and whether deleted ones still drain
    peak,    \* history: the most Pods of the newest template there were at once
    status,  \* the Deployment's status
    gate,    \* "off", "polling", "open" (nil) or "shut" (an error)
    polls,   \* polls so far
    target   \* the version of the Arrival the gate works for

vars == <<exists, spec, sets, pods, peak, status, gate, polls, target>>

\* sized is the desired-replicas annotation: the size last spread over the sets.
ReplicaSets == [oldWant : Nat, oldAvail : Nat,
                newWant : Nat, newPods : Nat, newAvail : Nat, sized : Nat]
Counts == [old : Nat, oldReady : Nat, new : Nat, newReady : Nat, draining : BOOLEAN]

TypeOK ==
    /\ exists \in BOOLEAN
    /\ spec \in [gen : 1..MaxGen, ver : Nat, replicas : Nat]
    /\ sets \in ReplicaSets
    /\ pods \in Counts
    /\ pods.oldReady <= pods.old /\ pods.newReady <= pods.new
    /\ peak \in Nat
    /\ status \in [observed : Nat, updated : Nat, available : Nat, unavailable : Nat]
    /\ gate \in {"off", "polling", "open", "shut"}
    /\ polls \in 0..MaxPolls
    /\ target \in Nat

\* A first version, created but not started.
Init ==
    /\ exists \in BOOLEAN
    /\ spec \in [gen : {1}, ver : {1}, replicas : MinReplicas..MaxReplicas]
    /\ sets = [oldWant |-> 0, oldAvail |-> 0,
               newWant |-> 0, newPods |-> 0, newAvail |-> 0, sized |-> spec.replicas]
    /\ pods = [old |-> 0, oldReady |-> 0, new |-> 0, newReady |-> 0, draining |-> FALSE]
    /\ peak = 0
    /\ status = [observed |-> 0, updated |-> 0, available |-> 0, unavailable |-> 0]
    /\ gate = "off"
    /\ polls = 0
    /\ target = 1

-----------------------------------------------------------------------------
(* The gate.                                                                 *)

\* isDeploymentRolledOut takes spec.replicas = 0 for a missing field.
Wanted(sp) == IF sp.replicas = 0 THEN 1 ELSE sp.replicas

\* Mutant: the status may belong to an earlier spec.
RolledOutUnobserved(sp, st) ==
    st.updated = Wanted(sp) /\ st.available = Wanted(sp) /\ st.unavailable = 0

\* Mutant: the observed generation must have overtaken the spec's.
RolledOutLate(sp, st) == st.observed > sp.gen /\ RolledOutUnobserved(sp, st)

\* isDeploymentRolledOut.
RolledOut(sp, st) ==
    /\ st.observed >= sp.gen
    /\ st.updated = Wanted(sp)
    /\ st.available = Wanted(sp)
    /\ st.unavailable = 0

\* handlePending starts the gate for an Arrival of the version deployed now.
Enter ==
    /\ gate # "polling"
    /\ gate' = "polling"
    /\ polls' = 0
    /\ target' = spec.ver
    /\ UNCHANGED <<exists, spec, sets, pods, peak, status>>

\* Mutant: a poll after the deadline is one more chance.
PollOnce ==
    /\ gate = "polling"
    /\ \/ (exists => RolledOut(spec, status)) /\ gate' = "open" /\ UNCHANGED polls
       \/ /\ exists /\ ~RolledOut(spec, status)
          /\ polls' = polls + 1
          /\ UNCHANGED gate
       \/ gate' = "shut" /\ UNCHANGED polls
    /\ UNCHANGED <<exists, spec, sets, pods, peak, status, target>>

\* One turn of the loop.  No Deployment, no gate; one that cannot be read, or
\* the deadline, shuts it.
Poll ==
    /\ gate = "polling"
    /\ \/ (exists => RolledOut(spec, status)) /\ gate' = "open" /\ UNCHANGED polls
       \/ /\ exists /\ ~RolledOut(spec, status) /\ polls < MaxPolls
          /\ polls' = polls + 1
          /\ UNCHANGED gate
       \/ gate' = "shut" /\ UNCHANGED polls
    /\ UNCHANGED <<exists, spec, sets, pods, peak, status, target>>
-----------------------------------------------------------------------------
(* The users, and the controllers of the Deployment and of its ReplicaSets.  *)

Gate == <<gate, polls, target>>
Size == sets.oldWant + sets.newWant
Lesser(m, n) == IF m <= n THEN m ELSE n

\* A new template: what served until now is old, and its ReplicaSet is empty.
Upgrade ==
    /\ spec.gen < MaxGen
    /\ spec' = [spec EXCEPT !.gen = @ + 1, !.ver = @ + 1]
    /\ sets' = [oldWant |-> Size, oldAvail |-> sets.oldAvail + sets.newAvail,
                newWant |-> 0, newPods |-> 0, newAvail |-> 0, sized |-> sets.sized]
    /\ pods' = [old |-> pods.old + pods.new, oldReady |-> pods.oldReady + pods.newReady,
                new |-> 0, newReady |-> 0, draining |-> pods.draining]
    /\ peak' = 0
    /\ UNCHANGED <<exists, status, Gate>>

Scale ==
    /\ spec.gen < MaxGen
    /\ \E n \in MinReplicas..MaxReplicas \ {spec.replicas} :
          spec' = [spec EXCEPT !.gen = @ + 1, !.replicas = n]
    /\ UNCHANGED <<exists, sets, pods, peak, status, Gate>>

SetsChange(s) == sets' = s /\ UNCHANGED <<exists, spec, pods, peak, status, Gate>>

\* The Deployment controller spreads a new size over the ReplicaSets in use,
\* in proportion: here, in any way that keeps to the limit.
Resize ==
    /\ sets.sized # spec.replicas
    /\ \E o, n \in 0..(spec.replicas + MaxSurge) :
          /\ o + n <= spec.replicas + MaxSurge
          /\ sets.oldWant = 0 => o = 0
          /\ SetsChange([sets EXCEPT !.oldWant = o, !.newWant = n, !.sized = spec.replicas])

\* A rolling update: the new ReplicaSet grows as far as the surge allows, or
\* shrinks to its size; the old ones shrink while enough Pods stay available,
\* those it counts on in the new one as last reported.
ResizeNew ==
    /\ sets.sized = spec.replicas
    /\ LET room == spec.replicas + MaxSurge - Size
       IN  \/ /\ sets.newWant < spec.replicas /\ room > 0
              /\ SetsChange([sets EXCEPT !.newWant = Lesser(spec.replicas, @ + room)])
           \/ /\ sets.newWant > spec.replicas
              /\ SetsChange([sets EXCEPT !.newWant = spec.replicas])

ShrinkOld ==
    /\ sets.sized = spec.replicas
    /\ \E k \in 1..sets.oldWant :
          /\ k <= sets.oldWant + sets.newAvail - (spec.replicas - MaxUnavailable)
          /\ SetsChange([sets EXCEPT !.oldWant = @ - k])

\* The ReplicaSet controllers count; a Pod that is being deleted is in no count.
ReportOld == SetsChange([sets EXCEPT !.oldAvail = pods.oldReady])
ReportNew == SetsChange([sets EXCEPT !.newPods = pods.new, !.newAvail = pods.newReady])

PodsChange(p) ==
    /\ pods' = p
    /\ peak' = IF p.new > peak THEN p.new ELSE peak
    /\ UNCHANGED <<exists, spec, sets, status, Gate>>

PodStarts ==
    \/ pods.new < sets.newWant /\ PodsChange([pods EXCEPT !.new = @ + 1])
    \/ pods.old < sets.oldWant /\ PodsChange([pods EXCEPT !.old = @ + 1])

PodReady ==
    \/ pods.newReady < pods.new /\ PodsChange([pods EXCEPT !.newReady = @ + 1])
    \/ pods.oldReady < pods.old /\ PodsChange([pods EXCEPT !.oldReady = @ + 1])

PodUnready ==
    \/ pods.newReady > 0 /\ PodsChange([pods EXCEPT !.newReady = @ - 1])
    \/ pods.oldReady > 0 /\ PodsChange([pods EXCEPT !.oldReady = @ - 1])

\* A Pod is deleted, one too many for its ReplicaSet or evicted, and drains.
OldPodGoes ==
    \E r \in {pods.oldReady, pods.oldReady - 1} :
        /\ 0 <= r /\ r <= pods.old - 1
        /\ PodsChange([pods EXCEPT !.old = @ - 1, !.oldReady = r, !.draining = TRUE])

NewPodGoes ==
    \E r \in {pods.newReady, pods.newReady - 1} :
        /\ 0 <= r /\ r <= pods.new - 1
        /\ PodsChange([pods EXCEPT !.new = @ - 1, !.newReady = r, !.draining = TRUE])

Drained == pods.draining /\ PodsChange([pods EXCEPT !.draining = FALSE])

\* The Deployment controller writes the status.  What it lacks of the sizes it
\* gave is unavailable, so Pods beyond those sizes make up for missing ones.
Counted ==
    LET available == sets.oldAvail + sets.newAvail
    IN  [observed    |-> spec.gen,
         updated     |-> sets.newPods,
         available   |-> available,
         unavailable |-> IF Size > available THEN Size - available ELSE 0]

Sync ==
    /\ status' = Counted
    /\ UNCHANGED <<exists, spec, sets, pods, peak, Gate>>

Deployment ==
    /\ exists
    /\ \/ Upgrade \/ Scale \/ Resize \/ ResizeNew \/ ShrinkOld
       \/ ReportOld \/ ReportNew \/ Sync
       \/ PodStarts \/ PodReady \/ PodUnready \/ OldPodGoes \/ NewPodGoes \/ Drained

Next == Enter \/ Poll \/ Deployment

Spec == Init /\ [][Next]_vars
-----------------------------------------------------------------------------
(* Correctness.                                                              *)

Opens == exists /\ gate = "polling" /\ gate' = "open"

\* "controller saw the spec", "all new pods exist": when the gate opens, as many
\* Pods of the newest template as the spec asks for have existed at once since
\* the latest upgrade.  Numbers left over from before it, in either status,
\* never open the gate.
OpensOnceNewPodsExist == [][Opens => peak >= Wanted(spec)]_vars

\* No report is behind: the numbers the gate reads are those of the Pods now.
Reported ==
    /\ status = Counted
    /\ sets.newPods = pods.new /\ sets.newAvail = pods.newReady
    /\ sets.oldAvail = pods.oldReady

\* "only new-version pods serving": when the gate opens, and even if no report
\* is behind, no Pod of an earlier template is available any more.
OpensOnNewPodsOnly == [][Opens /\ Reported => pods.oldReady = 0]_vars

\* The case the gate was built for: no Pod that was deleted still drains.
OpensOnceDrained == [][Opens => ~pods.draining]_vars

\* A Deployment that has settled opens the gate: it "mirrors kubectl rollout
\* status semantics".
Settled ==
    /\ Reported
    /\ sets.oldWant = 0 /\ pods.old = 0
    /\ {sets.newWant, pods.new, pods.newReady} = {spec.replicas}

SettledIsRolledOut == Settled => RolledOut(spec, status)

\* "only new-version pods serving": the tests of an Arrival meet its version.
OpensOnTargetVersion == [][Opens => target = spec.ver]_vars
=============================================================================
