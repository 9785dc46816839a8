---------------------------- MODULE RolloutProof ----------------------------
(***************************************************************************)
(* The gate's model is well typed, the gate never opens on numbers left     *)
(* over from before an upgrade, and it does open on a settled Deployment:   *)
(* for any replica counts, surge, lag of either report and number of        *)
(* upgrades.                                                                *)
(***************************************************************************)
EXTENDS Rollout, TLAPS

\* TypeOK bounds the replicas by zero only; the users keep to their range.
TInv ==
    /\ TypeOK
    /\ spec.replicas \in MinReplicas..MaxReplicas

\* A status of the current generation was summed after the upgrade, from reports
\* that began at zero with it: neither can name more new Pods than there were.
ReportsInv ==
    /\ status.observed <= spec.gen
    /\ pods.new <= peak
    /\ sets.newPods <= peak
    /\ status.observed = spec.gen => status.updated <= peak

LEMMA Bounds ==
  /\ MinReplicas \in Nat /\ MaxReplicas \in Nat /\ MaxSurge \in Nat /\ MaxUnavailable \in Nat
  /\ MaxGen \in Nat /\ MaxGen >= 1 /\ MaxPolls \in Nat
BY RolloutAssumption

LEMMA InitInv == Init => TInv /\ ReportsInv
<1> SUFFICES ASSUME Init PROVE TInv /\ ReportsInv
  OBVIOUS
<1>1. /\ spec \in [gen : 1..MaxGen, ver : Nat, replicas : Nat]
      /\ spec.replicas \in MinReplicas..MaxReplicas /\ spec.gen = 1
  BY Bounds DEF Init
<1>2. pods \in Counts /\ pods.oldReady <= pods.old /\ pods.newReady <= pods.new /\ pods.new = 0
  BY DEF Init, Counts
<1>3. sets \in ReplicaSets /\ sets.newPods = 0
  BY <1>1 DEF Init, ReplicaSets
<1>4. /\ status \in [observed : Nat, updated : Nat, available : Nat, unavailable : Nat]
      /\ status.observed = 0
  BY DEF Init
<1>5. peak = 0 /\ 0 \in 0..MaxPolls
  BY Bounds DEF Init
<1>6. TInv
  BY <1>1, <1>2, <1>3, <1>4, <1>5 DEF Init, TInv, TypeOK
<1>7. ReportsInv
  BY <1>1, <1>2, <1>3, <1>4, <1>5 DEF ReportsInv
<1> QED BY <1>6, <1>7

-----------------------------------------------------------------------------
(* One lemma per kind of step.                                               *)

\* The spec changes: the generation grows, so the status is of an earlier one.
LEMMA SpecSteps ==
  ASSUME TInv, ReportsInv, Upgrade \/ Scale
  PROVE  TInv' /\ ReportsInv'
<1>1. /\ spec \in [gen : 1..MaxGen, ver : Nat, replicas : Nat]
      /\ spec.replicas \in MinReplicas..MaxReplicas
      /\ spec.gen \in Nat
  BY Bounds DEF TInv, TypeOK
<1>2. spec.gen < MaxGen /\ UNCHANGED <<exists, status, gate, polls, target>>
  BY DEF Upgrade, Scale, Gate
<1>3. spec.gen + 1 \in 1..MaxGen /\ spec.ver + 1 \in Nat
  BY <1>1, <1>2, Bounds
<1>4. /\ status \in [observed : Nat, updated : Nat, available : Nat, unavailable : Nat]
      /\ status.observed <= spec.gen
  BY DEF TInv, TypeOK, ReportsInv
<1>5. CASE Upgrade
  <2>1. spec' = [[spec EXCEPT !.gen = spec.gen + 1] EXCEPT !.ver = spec.ver + 1]
    BY <1>1, <1>5 DEF Upgrade
  <2>2. /\ spec' \in [gen : 1..MaxGen, ver : Nat, replicas : Nat]
        /\ spec'.replicas = spec.replicas /\ spec'.gen = spec.gen + 1
    BY <1>1, <1>3, <2>1
  <2>3. pods' \in Counts /\ pods'.oldReady <= pods'.old /\ pods'.newReady <= pods'.new
           /\ pods'.new = 0
    BY <1>5 DEF Upgrade, Counts, TInv, TypeOK
  <2>4. sets' \in ReplicaSets /\ sets'.newPods = 0
    <3>1. sets \in ReplicaSets
      BY DEF TInv, TypeOK
    <3> QED BY <1>5, <3>1 DEF Upgrade, Size, ReplicaSets
  <2>5. peak' = 0
    BY <1>5 DEF Upgrade
  <2>6. TInv'
    BY <1>1, <1>2, <2>2, <2>3, <2>4, <2>5 DEF TInv, TypeOK
  <2>7. ReportsInv'
    BY <1>1, <1>2, <1>4, <2>2, <2>3, <2>4, <2>5 DEF ReportsInv
  <2> QED BY <2>6, <2>7
<1>6. CASE Scale
  <2>1. PICK n \in MinReplicas..MaxReplicas :
          spec' = [spec EXCEPT !.gen = @ + 1, !.replicas = n]
    BY <1>6 DEF Scale
  <2>2. n \in Nat
    BY Bounds
  <2>3. spec' = [[spec EXCEPT !.gen = spec.gen + 1] EXCEPT !.replicas = n]
    BY <1>1, <2>1
  <2>4. /\ spec' \in [gen : 1..MaxGen, ver : Nat, replicas : Nat]
        /\ spec'.replicas = n /\ spec'.gen = spec.gen + 1
    BY <1>1, <1>3, <2>2, <2>3
  <2>5. UNCHANGED <<sets, pods, peak>>
    BY <1>6 DEF Scale
  <2>6. TInv'
    BY <1>2, <2>1, <2>4, <2>5 DEF TInv, TypeOK
  <2>7. ReportsInv'
    BY <1>1, <1>2, <1>4, <2>4, <2>5 DEF ReportsInv
  <2> QED BY <2>6, <2>7
<1> QED BY <1>5, <1>6

\* The ReplicaSets are given sizes, or report their Pods.
LEMMA SetsSteps ==
  ASSUME TInv, ReportsInv,
         Resize \/ ResizeNew \/ ShrinkOld \/ ReportOld \/ ReportNew
  PROVE  TInv' /\ ReportsInv'
<1>1. /\ sets \in ReplicaSets /\ pods \in Counts /\ peak \in Nat
      /\ spec.replicas \in Nat /\ pods.new <= peak /\ sets.newPods <= peak
  BY DEF TInv, TypeOK, ReportsInv
<1>2. UNCHANGED <<exists, spec, pods, peak, status, gate, polls, target>>
  BY DEF Resize, ResizeNew, ShrinkOld, ReportOld, ReportNew, SetsChange, Gate
<1>3. sets' \in ReplicaSets /\ sets'.newPods \in {sets.newPods, pods.new}
  <2>1. CASE Resize
    <3>1. PICK o \in 0..(spec.replicas + MaxSurge), n \in 0..(spec.replicas + MaxSurge) :
            sets' = [sets EXCEPT !.oldWant = o, !.newWant = n, !.sized = spec.replicas]
      BY <2>1 DEF Resize, SetsChange
    <3>2. o \in Nat /\ n \in Nat
      BY <1>1, Bounds
    <3> QED BY <1>1, <3>1, <3>2 DEF ReplicaSets
  <2>2. CASE ResizeNew
    <3> DEFINE room == spec.replicas + MaxSurge - Size
    <3>1. CASE sets' = [sets EXCEPT !.newWant = spec.replicas]
      BY <1>1, <3>1 DEF ReplicaSets
    <3>2. CASE /\ room > 0
               /\ sets' = [sets EXCEPT !.newWant = Lesser(spec.replicas, @ + room)]
      <4>1. room \in Int /\ sets.newWant \in Nat
        BY <1>1, Bounds DEF Size, ReplicaSets
      <4>2. Lesser(spec.replicas, sets.newWant + room) \in Nat
        BY <1>1, <3>2, <4>1 DEF Lesser
      <4> HIDE DEF room
      <4>3. sets' = [sets EXCEPT !.newWant = Lesser(spec.replicas, sets.newWant + room)]
        BY <1>1, <3>2 DEF ReplicaSets
      <4> QED BY <1>1, <4>2, <4>3 DEF ReplicaSets
    <3> QED BY <2>2, <3>1, <3>2 DEF ResizeNew, SetsChange
  <2>3. CASE ShrinkOld
    <3>1. PICK k \in 1..sets.oldWant : sets' = [sets EXCEPT !.oldWant = @ - k]
      BY <2>3 DEF ShrinkOld, SetsChange
    <3>2. sets.oldWant - k \in Nat
      BY <1>1 DEF ReplicaSets
    <3>3. sets' = [sets EXCEPT !.oldWant = sets.oldWant - k]
      BY <1>1, <3>1 DEF ReplicaSets
    <3> QED BY <1>1, <3>2, <3>3 DEF ReplicaSets
  <2>4. CASE ReportOld
    BY <1>1, <2>4 DEF ReportOld, SetsChange, ReplicaSets, Counts
  <2>5. CASE ReportNew
    BY <1>1, <2>5 DEF ReportNew, SetsChange, ReplicaSets, Counts
  <2> QED BY <2>1, <2>2, <2>3, <2>4, <2>5
<1>4. TInv'
  BY <1>2, <1>3 DEF TInv, TypeOK
<1>5. ReportsInv'
  BY <1>1, <1>2, <1>3 DEF ReportsInv
<1> QED BY <1>4, <1>5

\* A step of the Pods is a change of their counts that keeps the available ones
\* among them, and the peak above the new ones.
LEMMA PodSteps ==
  ASSUME TInv, ReportsInv,
         PodStarts \/ PodReady \/ PodUnready \/ OldPodGoes \/ NewPodGoes \/ Drained
  PROVE  TInv' /\ ReportsInv'
<1>1. /\ pods \in Counts /\ pods.oldReady <= pods.old /\ pods.newReady <= pods.new
      /\ sets \in ReplicaSets /\ spec.gen \in Nat
      /\ status \in [observed : Nat, updated : Nat, available : Nat, unavailable : Nat]
      /\ peak \in Nat /\ sets.newPods <= peak
      /\ status.observed <= spec.gen
      /\ (status.observed = spec.gen => status.updated <= peak)
  BY Bounds DEF TInv, TypeOK, ReportsInv
<1>2. /\ UNCHANGED <<exists, spec, sets, status, gate, polls, target>>
      /\ peak' = IF pods'.new > peak THEN pods'.new ELSE peak
  BY DEF PodStarts, PodReady, PodUnready, OldPodGoes, NewPodGoes, Drained, PodsChange, Gate
<1> DEFINE Sound(p) == p \in Counts /\ p.oldReady <= p.old /\ p.newReady <= p.new
<1>3. Sound(pods')
  <2>1. CASE PodStarts
    BY <1>1, <2>1 DEF PodStarts, PodsChange, Counts
  <2>2. CASE PodReady
    BY <1>1, <2>2 DEF PodReady, PodsChange, Counts
  <2>3. CASE PodUnready
    BY <1>1, <2>3 DEF PodUnready, PodsChange, Counts
  <2>4. CASE OldPodGoes
    <3>1. PICK r \in {pods.oldReady, pods.oldReady - 1} :
            /\ 0 <= r /\ r <= pods.old - 1
            /\ PodsChange([pods EXCEPT !.old = @ - 1, !.oldReady = r, !.draining = TRUE])
      BY <2>4 DEF OldPodGoes
    <3>2. r \in Nat /\ pods.old - 1 \in Nat
      BY <1>1, <3>1 DEF Counts
    <3>3. pods' = [[[pods EXCEPT !.old = pods.old - 1] EXCEPT !.oldReady = r]
                     EXCEPT !.draining = TRUE]
      BY <1>1, <3>1 DEF PodsChange, Counts
    <3> QED BY <1>1, <3>1, <3>2, <3>3 DEF Counts
  <2>5. CASE NewPodGoes
    <3>1. PICK r \in {pods.newReady, pods.newReady - 1} :
            /\ 0 <= r /\ r <= pods.new - 1
            /\ PodsChange([pods EXCEPT !.new = @ - 1, !.newReady = r, !.draining = TRUE])
      BY <2>5 DEF NewPodGoes
    <3>2. r \in Nat /\ pods.new - 1 \in Nat
      BY <1>1, <3>1 DEF Counts
    <3>3. pods' = [[[pods EXCEPT !.new = pods.new - 1] EXCEPT !.newReady = r]
                     EXCEPT !.draining = TRUE]
      BY <1>1, <3>1 DEF PodsChange, Counts
    <3> QED BY <1>1, <3>1, <3>2, <3>3 DEF Counts
  <2>6. CASE Drained
    BY <1>1, <2>6 DEF Drained, PodsChange, Counts
  <2> QED BY <2>1, <2>2, <2>3, <2>4, <2>5, <2>6
<1>4. peak' \in Nat /\ peak <= peak' /\ pods'.new <= peak' /\ pods'.new \in Nat
  <2>1. pods'.new \in Nat
    BY <1>3 DEF Counts
  <2> QED BY <1>1, <1>2, <2>1
<1>5. TInv'
  BY <1>2, <1>3, <1>4 DEF TInv, TypeOK
<1>6. ReportsInv'
  BY <1>1, <1>2, <1>4 DEF ReportsInv, ReplicaSets
<1> QED BY <1>5, <1>6

\* The status is summed from the reports.
LEMMA SyncStep ==
  ASSUME TInv, ReportsInv, Sync
  PROVE  TInv' /\ ReportsInv'
<1>1. /\ sets \in ReplicaSets /\ spec.gen \in Nat /\ sets.newPods <= peak /\ pods.new <= peak
  BY Bounds DEF TInv, TypeOK, ReportsInv
<1>2. UNCHANGED <<exists, spec, sets, pods, peak, gate, polls, target>>
  BY DEF Sync, Gate
<1>3. /\ Size \in Nat /\ sets.oldAvail + sets.newAvail \in Nat /\ sets.newPods \in Nat
  BY <1>1 DEF Size, ReplicaSets
<1>4. /\ status' \in [observed : Nat, updated : Nat, available : Nat, unavailable : Nat]
      /\ status'.observed = spec.gen /\ status'.updated = sets.newPods
  BY <1>1, <1>3 DEF Sync, Counted
<1>5. TInv'
  BY <1>2, <1>4 DEF TInv, TypeOK
<1>6. ReportsInv'
  BY <1>1, <1>2, <1>4 DEF ReportsInv
<1> QED BY <1>5, <1>6

LEMMA NextInv == TInv /\ ReportsInv /\ [Next]_vars => TInv' /\ ReportsInv'
<1> SUFFICES ASSUME TInv, ReportsInv, [Next]_vars PROVE TInv' /\ ReportsInv'
  OBVIOUS
<1>1. CASE Enter
  <2>1. 0 \in 0..MaxPolls
    BY Bounds
  <2> QED BY <1>1, <2>1 DEF Enter, TInv, TypeOK, ReportsInv
<1>2. CASE Poll
  <2>1. polls \in 0..MaxPolls /\ MaxPolls \in Nat
    BY Bounds DEF TInv, TypeOK
  <2>2. polls' \in 0..MaxPolls /\ gate' \in {"off", "polling", "open", "shut"}
    BY <1>2, <2>1 DEF Poll, TInv, TypeOK
  <2> QED BY <1>2, <2>2 DEF Poll, TInv, TypeOK, ReportsInv
<1>3. CASE UNCHANGED vars
  BY <1>3 DEF vars, TInv, TypeOK, ReportsInv
<1> QED BY <1>1, <1>2, <1>3, SpecSteps, SetsSteps, PodSteps, SyncStep DEF Next, Deployment

LEMMA Invariance == Spec => [](TInv /\ ReportsInv)
BY InitInv, NextInv, PTL DEF Spec

-----------------------------------------------------------------------------
(* What the gate answers for.                                                *)

\* Type correctness: counts and reports stay natural, the available Pods among
\* the Pods, and the polls within the deadline.
THEOREM RolloutTypes == Spec => []TypeOK
<1>1. TInv => TypeOK
  BY DEF TInv
<1> QED BY <1>1, Invariance, PTL

\* When the gate lets a dispatch pass for an existing Deployment, as many Pods of
\* its newest template as it asks for have existed at once since the upgrade:
\* isDeploymentRolledOut never opens on the numbers of the template before,
\* however far either report is behind.
THEOREM OpensOnNewTemplate == Spec => OpensOnceNewPodsExist
<1>1. TInv /\ ReportsInv /\ [Next]_vars => [Opens => peak >= Wanted(spec)]_vars
  <2> SUFFICES ASSUME TInv, ReportsInv, Next, Opens
               PROVE  peak >= Wanted(spec)
    OBVIOUS
  <2>1. exists /\ gate = "polling" /\ gate' = "open"
    BY DEF Opens
  <2>2. RolledOut(spec, status)
    BY <2>1 DEF Next, Enter, Poll, Deployment, Upgrade, Scale, Resize, ResizeNew, ShrinkOld,
                ReportOld, ReportNew, SetsChange, PodStarts, PodReady, PodUnready, OldPodGoes,
                NewPodGoes, Drained, PodsChange, Sync, Gate
  <2>3. /\ status.observed \in Nat /\ status.updated \in Nat /\ spec.gen \in Nat /\ peak \in Nat
        /\ status.observed <= spec.gen
        /\ (status.observed = spec.gen => status.updated <= peak)
    BY Bounds DEF TInv, TypeOK, ReportsInv
  <2>4. status.observed >= spec.gen /\ status.updated = Wanted(spec)
    BY <2>2 DEF RolledOut
  <2> QED BY <2>3, <2>4
<1> QED BY <1>1, Invariance, PTL DEF Spec, OpensOnceNewPodsExist

\* A settled Deployment opens the gate, as long as nobody scales it to zero.
THEOREM SettledOpens ==
  ASSUME MinReplicas > 0
  PROVE  Spec => []SettledIsRolledOut
<1>1. ASSUME TInv PROVE SettledIsRolledOut
  <2>1. /\ spec.replicas \in MinReplicas..MaxReplicas /\ spec.gen \in Nat
        /\ pods \in Counts /\ pods.oldReady <= pods.old
    BY <1>1, Bounds DEF TInv, TypeOK
  <2>2. spec.replicas \in Nat /\ spec.replicas # 0
    BY <2>1, Bounds
  <2> SUFFICES ASSUME Settled PROVE RolledOut(spec, status)
    BY DEF SettledIsRolledOut
  <2>3. /\ pods.new = spec.replicas /\ pods.newReady = spec.replicas
        /\ sets.newWant = spec.replicas /\ sets.oldWant = 0 /\ pods.old = 0
        /\ status = Counted /\ sets.newPods = spec.replicas
        /\ sets.newAvail = spec.replicas /\ sets.oldAvail = pods.oldReady
    BY DEF Settled, Reported
  <2>4. sets.oldAvail = 0
    BY <2>1, <2>3 DEF Counts
  <2>5. Size = spec.replicas /\ sets.oldAvail + sets.newAvail = spec.replicas
    BY <2>2, <2>3, <2>4 DEF Size
  <2>6. /\ status.observed = spec.gen
        /\ status.updated = spec.replicas
        /\ status.available = spec.replicas
        /\ status.unavailable = 0
    BY <2>2, <2>3, <2>5 DEF Counted
  <2> QED BY <2>1, <2>2, <2>6 DEF RolledOut, Wanted
<1>2. TInv => SettledIsRolledOut
  BY <1>1
<1> QED BY <1>2, Invariance, PTL
=============================================================================
