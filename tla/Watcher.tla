------------------------------ MODULE Watcher ------------------------------
(***************************************************************************)
(* How Arrivals come to be (internal/watcher): an informer reports every    *)
(* ReplicaSet it has not seen, and one handler turns the reports, in turn,  *)
(* into creations and patches of Arrivals.  One service; its Deployment is  *)
(* upgraded, restarted and rolled back between any two of the handler's     *)
(* requests.                                                                *)
(***************************************************************************)
EXTENDS Integers, Sequences

CONSTANTS
    Versions,    \* what the chart releases
    Slug,        \* sanitizeForDNS: the name of a version's Arrival
    Values,      \* what services[service] may hold
    Unset,       \* nothing: no entry, no Arrival, no version
    FullLabels,  \* whether the chart puts its labels on the Pod template too
    StartSizes,  \* spec.replicas, 0 or more, a ReplicaSet may be created with
    Rollbacks,   \* whether users roll back
    MaxSets,     \* bounds of a model: ReplicaSets,
    MaxErrors,   \* failed requests,
    MaxStarts    \* and restarts of the observer

ASSUME WatcherAssumption ==
    /\ Slug \in [Versions -> STRING]
    /\ Unset \notin Versions \cup Values
    /\ Unset \notin [version : Versions, replicaSet : Nat, config : Values \cup {Unset}]
    /\ FullLabels \subseteq BOOLEAN
    /\ StartSizes \subseteq {0, 1} /\ 1 \in StartSizes
    /\ Rollbacks \in BOOLEAN
    /\ {MaxSets, MaxErrors, MaxStarts} \subseteq Nat /\ MaxSets > 0

VARIABLES
    helm,      \* the Deployment is managed by Helm
    dep,       \* its version, and the ReplicaSet of its template
    sets,      \* the ReplicaSets in the order of their creation
    seen,      \* those in the informer's store
    queue,     \* Add events: ReplicaSets as they were when reported
    pc,        \* the handler's next request
    ev,        \* local: the event in hand
    ver,       \* local: the version read for it
    services,  \* the observer's configuration of the service
    arrivals,  \* the Arrivals, by their names
    budget     \* failed requests and restarts so far

cluster == <<helm, dep, sets>>
handler == <<pc, ev, ver>>
vars == <<helm, dep, sets, seen, queue, pc, ev, ver, services, arrivals, budget>>

Slugs == {Slug[v] : v \in Versions}

\* A ReplicaSet is named by its number, which orders the creationTimestamps.
ReplicaSet == [id : 1..MaxSets, ver : Versions, full : BOOLEAN, want : {0, 1}]
Arrival    == [version : Versions, replicaSet : 1..MaxSets, config : Values \cup {Unset}]

NoEvent == [id |-> 0]

TypeOK ==
    /\ helm \in BOOLEAN
    /\ dep \in [ver : Versions, rs : 1..MaxSets]
    /\ Len(sets) <= MaxSets
    /\ \A i \in DOMAIN sets : sets[i] \in ReplicaSet /\ sets[i].id = i
    /\ seen \subseteq DOMAIN sets
    /\ Len(queue) <= MaxSets
    /\ \A k \in DOMAIN queue : queue[k] \in ReplicaSet /\ queue[k].id \in seen
    /\ pc \in {"idle", "managedBy", "version", "create", "patch"}
    /\ ev \in ReplicaSet \cup {NoEvent} /\ (ev = NoEvent <=> pc = "idle")
    /\ ver \in Versions \cup {Unset} /\ (pc \in {"create", "patch"} => ver # Unset)
    /\ services \in Values \cup {Unset}
    /\ arrivals \in [Slugs -> Arrival \cup {Unset}]
    /\ budget \in [errors : 0..MaxErrors, starts : 0..MaxStarts]

Init ==
    /\ helm \in BOOLEAN
    /\ dep \in [ver : Versions, rs : {1}]
    /\ sets = <<>>
    /\ seen = {}
    /\ queue = <<>>
    /\ pc = "idle"
    /\ ev = NoEvent
    /\ ver = Unset
    /\ services \in Values \cup {Unset}
    /\ arrivals = [s \in Slugs |-> Unset]
    /\ budget = [errors |-> 0, starts |-> 0]

-----------------------------------------------------------------------------
(* The Deployment and its controller.                                        *)

ClusterOnly == UNCHANGED <<helm, seen, queue, handler, services, arrivals, budget>>

\* An upgrade, or a rolling restart when the version stays: a template that no
\* ReplicaSet has yet.
Release(v) ==
    /\ Len(sets) < MaxSets
    /\ dep' = [ver |-> v, rs |-> Len(sets) + 1]
    /\ UNCHANGED sets
    /\ ClusterOnly

\* A template that an earlier ReplicaSet has.
RollBack(i) ==
    /\ Rollbacks
    /\ i # dep.rs
    /\ dep' = [ver |-> sets[i].ver, rs |-> i]
    /\ UNCHANGED sets
    /\ ClusterOnly

\* Created with no replica only while others use up the replicas and the surge.
MakeSet ==
    /\ dep.rs = Len(sets) + 1
    /\ \E full \in FullLabels, n \in StartSizes :
          /\ n = 0 => \E i \in DOMAIN sets : sets[i].want = 1
          /\ sets' = Append(sets, [id |-> dep.rs, ver |-> dep.ver, full |-> full, want |-> n])
    /\ UNCHANGED dep
    /\ ClusterOnly

\* The rolling update: the template's own ReplicaSet up, the others down.
ScaleSet(i) ==
    /\ sets' = [sets EXCEPT ![i].want = IF i = dep.rs THEN 1 ELSE 0]
    /\ sets' # sets
    /\ UNCHANGED dep
    /\ ClusterOnly

-----------------------------------------------------------------------------
(* The observer.                                                             *)

\* Mutant: updates are handled like additions.
NoticeAgain(i) ==
    /\ seen' = seen \cup {i}
    /\ queue' = Append(queue, sets[i])
    /\ UNCHANGED <<cluster, handler, services, arrivals, budget>>

\* The informer's watch, or its list, which has any order: what is not in the
\* store yet is an Add.  Updates and deletions have no handler.
Notice(i) ==
    /\ i \notin seen
    /\ seen' = seen \cup {i}
    /\ queue' = Append(queue, sets[i])
    /\ UNCHANGED <<cluster, handler, services, arrivals, budget>>

Take ==
    /\ pc = "idle" /\ queue # <<>>
    /\ pc' = "managedBy"
    /\ ev' = Head(queue)
    /\ queue' = Tail(queue)
    /\ UNCHANGED <<cluster, seen, ver, services, arrivals, budget>>

Done == pc' = "idle" /\ ev' = NoEvent /\ ver' = Unset

Spend == /\ budget.errors < MaxErrors
         /\ budget' = [budget EXCEPT !.errors = @ + 1]

HandlerOnly == UNCHANGED <<cluster, seen, queue, services>>

\* Mutants: the Deployment is asked first; the ReplicaSet alone is asked.
AlwaysAsk(full, onSet, onDep, read) ==
    \/ read = onDep /\ UNCHANGED budget
    \/ read = Unset /\ Spend

SetOnly(full, onSet, onDep, read) ==
    /\ read = (IF full THEN onSet ELSE Unset)
    /\ UNCHANGED budget

\* A label as labelOrDeployment reads it: the ReplicaSet's, else the
\* Deployment's as it is NOW, else nothing.
LabelOrDeployment(full, onSet, onDep, read) ==
    \/ full /\ read = onSet /\ UNCHANGED budget
    \/ ~full /\ read = onDep /\ UNCHANGED budget
    \/ ~full /\ read = Unset /\ Spend

ReadManagedBy ==
    /\ pc = "managedBy"
    /\ \E m \in {helm, Unset} :
          /\ LabelOrDeployment(ev.full, helm, helm, m)
          /\ IF m = TRUE THEN pc' = "version" /\ UNCHANGED <<ev, ver>> ELSE Done
    /\ HandlerOnly /\ UNCHANGED arrivals

\* Mutant: only the ReplicaSet the Deployment asks for now is recorded.
ReadCurrentVersion ==
    /\ pc = "version"
    /\ \E v \in Versions \cup {Unset} :
          /\ LabelOrDeployment(ev.full, ev.ver, dep.ver, v)
          /\ IF v # Unset /\ ev.want # 0 /\ dep.rs = ev.id
             THEN pc' = "create" /\ ver' = v /\ UNCHANGED ev
             ELSE Done
    /\ HandlerOnly /\ UNCHANGED arrivals

\* The name is on the template of every chart.  A ReplicaSet scaled to zero
\* is passed over.
ReadVersion ==
    /\ pc = "version"
    /\ \E v \in Versions \cup {Unset} :
          /\ LabelOrDeployment(ev.full, ev.ver, dep.ver, v)
          /\ IF v # Unset /\ ev.want # 0
             THEN pc' = "create" /\ ver' = v /\ UNCHANGED ev
             ELSE Done
    /\ HandlerOnly /\ UNCHANGED arrivals

Known == arrivals[Slug[ver]] # Unset

Create ==
    /\ pc = "create"
    /\ HandlerOnly
    /\ \/ /\ ~Known
          /\ arrivals' = [arrivals EXCEPT ![Slug[ver]] =
                            [version |-> ver, replicaSet |-> ev.id, config |-> services]]
          /\ Done /\ UNCHANGED budget
       \/ Known /\ pc' = "patch" /\ UNCHANGED <<ev, ver, arrivals, budget>>
       \/ Spend /\ Done /\ UNCHANGED arrivals

\* A merge patch: what the configuration leaves out stays, and so do the
\* version and the status.
Patch ==
    /\ pc = "patch"
    /\ HandlerOnly /\ Done
    /\ \/ /\ arrivals' = [arrivals EXCEPT
                            ![Slug[ver]].replicaSet = ev.id,
                            ![Slug[ver]].config = IF services = Unset THEN @ ELSE services]
          /\ UNCHANGED budget
       \/ Spend /\ UNCHANGED arrivals

\* A new process or a new leader: an empty store, and the configuration of
\* the day.
Restart ==
    /\ budget.starts < MaxStarts
    /\ budget' = [budget EXCEPT !.starts = @ + 1]
    /\ seen' = {} /\ queue' = <<>> /\ Done
    /\ services' \in Values \cup {Unset}
    /\ UNCHANGED <<cluster, arrivals>>

Handle == Take \/ ReadManagedBy \/ ReadVersion \/ Create \/ Patch

Next ==
    \/ \E v \in Versions : Release(v)
    \/ MakeSet
    \/ \E i \in DOMAIN sets : RollBack(i) \/ ScaleSet(i) \/ Notice(i)
    \/ Handle
    \/ Restart

Spec == Init /\ [][Next]_vars

\* The informer reports what it has not reported, the handler goes on, and the
\* Deployment controller scales up what the Deployment asks for.
FairSpec ==
    /\ Spec
    /\ WF_vars(Handle)
    /\ WF_vars(\E i \in DOMAIN sets : Notice(i))
    /\ WF_vars(\E i \in DOMAIN sets : i = dep.rs /\ ScaleSet(i))
-----------------------------------------------------------------------------
(* Correctness.                                                              *)

\* An Arrival names a ReplicaSet of its own version, so that its deployedAt is
\* when that version came: a failed read is "just a missed Arrival, never a
\* wrong one".
NamesItsOwn ==
    \A s \in Slugs : arrivals[s] # Unset =>
        sets[arrivals[s].replicaSet].ver = arrivals[s].version

\* Nothing but an empty ReplicaSet or a failed request is passed over: when the
\* handler is through with a labelled ReplicaSet that has replicas, its
\* version's Arrival is there, whatever happened to the Deployment meanwhile.
Through == ev # NoEvent /\ ev' = NoEvent /\ budget' = budget

NoticedArrives ==
    [][Through /\ helm /\ ev.full /\ ev.want # 0
         => arrivals'[Slug[ev.ver]] # Unset]_vars

\* The version that serves gets its Arrival, as long as no request fails.
Unrecorded(v) == /\ helm /\ dep.ver = v /\ dep.rs <= Len(sets)
                 /\ budget.errors = 0
                 /\ arrivals[Slug[v]] = Unset

ServingVersionArrives == \A v \in Versions : Unrecorded(v) ~> ~Unrecorded(v)

\* "a rolling restart of the same version refreshes the timestamp": the
\* deployedAt of an Arrival, by which retests are decided, never goes back.
DeployedAtAdvances ==
    [][\A s \in Slugs : arrivals[s] # Unset =>
          arrivals'[s].replicaSet >= arrivals[s].replicaSet]_vars

\* "Spec is rewritten on every observation so chart-side services map edits
\* propagate": an Arrival just recorded or patched has the configuration of
\* the day.
EditsPropagate ==
    [][\A s \in Slugs : arrivals'[s] # arrivals[s] => arrivals'[s].config = services]_vars
=============================================================================
