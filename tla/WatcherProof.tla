---------------------------- MODULE WatcherProof ----------------------------
(***************************************************************************)
(* When every chart puts its labels on the Pod template and no two versions *)
(* share a name, no Arrival names a ReplicaSet of another version: for any  *)
(* number of versions, ReplicaSets, failed requests and restarts, and any   *)
(* interleaving of the Deployment with the handler's requests.  And, for    *)
(* any chart and any names: what is handled becomes an Arrival, and the     *)
(* types, with the bound of the queue.                                      *)
(***************************************************************************)
EXTENDS Watcher, SequenceTheorems, FiniteSetTheorems, TLAPS

Honest ==
    /\ FullLabels \subseteq {TRUE}
    /\ \A u, v \in Versions : Slug[u] = Slug[v] => u = v

SetRec     == [id : Nat, ver : Versions, full : BOOLEAN, want : {0, 1}]
ArrivalRec == [version : Versions, replicaSet : Nat, config : Values \cup {Unset}]

\* The ReplicaSets, in the order of their creation.
SetsInv ==
    /\ sets \in Seq(SetRec)
    /\ \A i \in 1..Len(sets) : sets[i].id = i /\ sets[i].full = TRUE
    /\ dep.ver \in Versions

\* A report outlives the numbers of replicas it carries, not what it is used
\* for: the ReplicaSet's identity and version.
OfASet(e) ==
    /\ e \in SetRec
    /\ e.full = TRUE
    /\ e.id \in 1..Len(sets)
    /\ sets[e.id].ver = e.ver

QueueInv == queue \in Seq(SetRec) /\ \A k \in 1..Len(queue) : OfASet(queue[k])

HandInv ==
    /\ pc \in {"idle", "managedBy", "version", "create", "patch"}
    /\ pc # "idle" => OfASet(ev)
    /\ pc \in {"create", "patch"} => ver = ev.ver
    /\ pc = "patch" => arrivals[Slug[ver]] # Unset

OwnSet(s) ==
    arrivals[s] # Unset =>
        /\ arrivals[s].replicaSet \in 1..Len(sets)
        /\ sets[arrivals[s].replicaSet].ver = arrivals[s].version
        /\ Slug[arrivals[s].version] = s

ArrivalsInv ==
    /\ services \in Values \cup {Unset}
    /\ arrivals \in [Slugs -> ArrivalRec \cup {Unset}]
    /\ \A s \in Slugs : OwnSet(s)

WInv == SetsInv /\ QueueInv /\ HandInv /\ ArrivalsInv
IInv == Honest => WInv

LEMMA InitInv == Init => IInv
<1> SUFFICES ASSUME Init PROVE WInv
  BY DEF IInv
<1>1. SetsInv /\ QueueInv
  BY DEF Init, SetsInv, QueueInv
<1>2. HandInv
  BY DEF Init, HandInv
<1>3. ArrivalsInv
  BY DEF Init, ArrivalsInv, OwnSet
<1> QED BY <1>1, <1>2, <1>3 DEF WInv

\* What was said of reports and Arrivals stays true as long as every
\* ReplicaSet keeps its version.
Keeps == /\ Len(sets') >= Len(sets)
         /\ \A i \in 1..Len(sets) : sets'[i].ver = sets[i].ver

LEMMA ClusterInv ==
  ASSUME WInv, SetsInv', Keeps, UNCHANGED <<queue, pc, ev, ver, services, arrivals>>
  PROVE  WInv'
<1>1. Len(sets) \in Nat /\ Len(sets') \in Nat
  BY LenProperties DEF WInv, SetsInv
<1>2. ASSUME NEW e, OfASet(e)
      PROVE  e \in SetRec /\ e.full = TRUE /\ e.id \in 1..Len(sets') /\ sets'[e.id].ver = e.ver
  BY <1>1, <1>2 DEF OfASet, Keeps
<1>3. QueueInv'
  BY <1>2 DEF WInv, QueueInv, OfASet
<1>4. HandInv'
  BY <1>2 DEF WInv, HandInv, OfASet
<1>5. ArrivalsInv'
  <2>1. ASSUME NEW s \in Slugs PROVE OwnSet(s)'
    BY <1>1 DEF WInv, ArrivalsInv, OwnSet, Keeps
  <2> QED BY <2>1 DEF WInv, ArrivalsInv
<1> QED BY <1>3, <1>4, <1>5 DEF WInv

LEMMA DeploymentInv ==
  ASSUME Honest, WInv,
         \/ \E v \in Versions : Release(v)
         \/ MakeSet
         \/ \E i \in DOMAIN sets : RollBack(i) \/ ScaleSet(i)
  PROVE  WInv'
<1>1. sets \in Seq(SetRec) /\ Len(sets) \in Nat /\ DOMAIN sets = 1..Len(sets)
  BY LenProperties DEF WInv, SetsInv
<1>2. UNCHANGED <<queue, pc, ev, ver, services, arrivals>>
  BY DEF Release, MakeSet, RollBack, ScaleSet, ClusterOnly, handler
<1>3. SetsInv' /\ Keeps
  <2>1. ASSUME NEW v \in Versions, Release(v) PROVE SetsInv' /\ Keeps
    BY <2>1, <1>1 DEF Release, WInv, SetsInv, Keeps
  <2>2. CASE MakeSet
    <3>1. PICK full \in FullLabels, n \in StartSizes :
            sets' = Append(sets, [id |-> dep.rs, ver |-> dep.ver, full |-> full, want |-> n])
      BY <2>2 DEF MakeSet
    <3>2. dep.rs = Len(sets) + 1 /\ dep' = dep
      BY <2>2 DEF MakeSet
    <3>3. n \in {0, 1} /\ full = TRUE
      BY WatcherAssumption DEF Honest
    <3> DEFINE new == [id |-> dep.rs, ver |-> dep.ver, full |-> full, want |-> n]
    <3>4. new \in SetRec
      BY <1>1, <3>2, <3>3 DEF SetRec, WInv, SetsInv
    <3>5. /\ sets' \in Seq(SetRec)
          /\ Len(sets') = Len(sets) + 1
          /\ \A i \in 1..Len(sets) : sets'[i] = sets[i]
          /\ sets'[Len(sets) + 1] = new
      BY <1>1, <3>1, <3>4, AppendProperties
    <3>6. new.id = Len(sets) + 1 /\ new.full = TRUE
      BY <3>2, <3>3
    <3> HIDE DEF new
    <3>7. \A i \in 1..Len(sets') : sets'[i].id = i /\ sets'[i].full = TRUE
      BY <1>1, <3>5, <3>6 DEF WInv, SetsInv
    <3> QED BY <1>1, <3>2, <3>5, <3>7 DEF WInv, SetsInv, Keeps
  <2>3. ASSUME NEW i \in DOMAIN sets, RollBack(i) PROVE SetsInv' /\ Keeps
    <3>0. sets[i] \in SetRec
      BY <1>1, ElementOfSeq
    <3>1. sets[i].ver \in Versions
      BY <3>0 DEF SetRec
    <3> QED BY <2>3, <1>1, <3>1 DEF RollBack, WInv, SetsInv, Keeps
  <2>4. ASSUME NEW i \in DOMAIN sets, ScaleSet(i) PROVE SetsInv' /\ Keeps
    <3>1. PICK n \in {0, 1} : sets' = [sets EXCEPT ![i] = [sets[i] EXCEPT !.want = n]]
      BY <2>4 DEF ScaleSet
    <3>2. sets[i] \in SetRec
      BY <1>1, ElementOfSeq
    <3> DEFINE new == [sets[i] EXCEPT !.want = n]
    <3>3. new \in SetRec
      BY <3>2 DEF SetRec
    <3>4. new.id = sets[i].id /\ new.full = sets[i].full /\ new.ver = sets[i].ver
      BY <3>2 DEF SetRec
    <3>5. sets' = [sets EXCEPT ![i] = new]
      BY <3>1
    <3> HIDE DEF new
    <3>6. /\ sets' \in Seq(SetRec) /\ Len(sets') = Len(sets)
          /\ \A j \in 1..Len(sets) : sets'[j] = IF j = i THEN new ELSE sets[j]
      BY <1>1, <3>3, <3>5, ExceptSeq
    <3> QED BY <1>1, <2>4, <3>4, <3>6 DEF ScaleSet, WInv, SetsInv, Keeps
  <2> QED BY <2>1, <2>2, <2>3, <2>4
<1> QED BY <1>2, <1>3, ClusterInv

LEMMA InformerInv ==
  ASSUME WInv, (\E i \in DOMAIN sets : Notice(i)) \/ Take \/ Restart
  PROVE  WInv'
<1>1. sets \in Seq(SetRec) /\ Len(sets) \in Nat /\ DOMAIN sets = 1..Len(sets)
  BY LenProperties DEF WInv, SetsInv
<1>2. UNCHANGED <<dep, sets, arrivals>>
  BY DEF Notice, Take, Restart, cluster
<1>3. SetsInv'
  BY <1>2 DEF WInv, SetsInv
<1>4. CASE Restart
  <2>1. ArrivalsInv'
    BY <1>2, <1>4 DEF Restart, WInv, ArrivalsInv, OwnSet
  <2>2. QueueInv' /\ HandInv'
    BY <1>4 DEF Restart, Done, QueueInv, HandInv
  <2> QED BY <1>3, <2>1, <2>2 DEF WInv
<1>5. ASSUME NEW i \in DOMAIN sets, Notice(i) PROVE WInv'
  <2>1. OfASet(sets[i])
    BY <1>1, ElementOfSeq DEF WInv, SetsInv, OfASet
  <2>2. queue' = Append(queue, sets[i]) /\ UNCHANGED <<pc, ev, ver, services>>
    BY <1>5 DEF Notice, handler
  <2>3. queue \in Seq(SetRec) /\ Len(queue) \in Nat /\ sets[i] \in SetRec
    BY <2>1, LenProperties DEF WInv, QueueInv, OfASet
  <2>4. /\ queue' \in Seq(SetRec) /\ Len(queue') = Len(queue) + 1
        /\ \A k \in 1..Len(queue) : queue'[k] = queue[k]
        /\ queue'[Len(queue) + 1] = sets[i]
    BY <2>2, <2>3, AppendProperties
  <2>5. \A k \in 1..Len(queue') : OfASet(queue'[k])
    BY <2>1, <2>3, <2>4 DEF WInv, QueueInv
  <2>6. QueueInv'
    BY <1>2, <2>4, <2>5 DEF QueueInv, OfASet
  <2>7. HandInv' /\ ArrivalsInv'
    BY <1>2, <2>2 DEF WInv, HandInv, ArrivalsInv, OfASet, OwnSet
  <2> QED BY <1>3, <2>6, <2>7 DEF WInv
<1>6. CASE Take
  <2>1. /\ queue # <<>> /\ queue' = Tail(queue) /\ ev' = Head(queue)
        /\ pc' = "managedBy" /\ UNCHANGED <<ver, services>>
    BY <1>6 DEF Take
  <2>2. queue \in Seq(SetRec)
    BY DEF WInv, QueueInv
  <2>3. /\ Len(queue) \in Nat /\ Len(queue) > 0
        /\ Head(queue) = queue[1]
        /\ Tail(queue) \in Seq(SetRec)
        /\ Len(Tail(queue)) = Len(queue) - 1
        /\ \A k \in 1..Len(Tail(queue)) : Tail(queue)[k] = queue[k + 1]
    BY <2>1, <2>2, LenProperties, EmptySeq, HeadTailProperties
  <2>4. OfASet(ev') /\ \A k \in 1..Len(queue') : OfASet(queue'[k])
    BY <2>1, <2>3 DEF WInv, QueueInv
  <2>5. QueueInv' /\ HandInv'
    BY <1>2, <2>1, <2>3, <2>4 DEF QueueInv, HandInv, OfASet
  <2>6. ArrivalsInv'
    BY <1>2, <2>1 DEF WInv, ArrivalsInv, OwnSet
  <2> QED BY <1>3, <2>5, <2>6 DEF WInv
<1> QED BY <1>4, <1>5, <1>6

LEMMA ReadInv ==
  ASSUME WInv, ReadManagedBy \/ ReadVersion
  PROVE  WInv'
<1>1. UNCHANGED <<dep, sets, queue, services, arrivals>>
  BY DEF ReadManagedBy, ReadVersion, HandlerOnly, cluster
<1>2. SetsInv' /\ QueueInv' /\ ArrivalsInv'
  BY <1>1 DEF WInv, SetsInv, QueueInv, ArrivalsInv, OfASet, OwnSet
<1>3. CASE ReadManagedBy
  <2>1. pc = "managedBy" /\ (Done \/ (pc' = "version" /\ UNCHANGED <<ev, ver>>))
    <3>1. PICK m \in {helm, Unset} :
             IF m = TRUE THEN pc' = "version" /\ UNCHANGED <<ev, ver>> ELSE Done
      BY <1>3 DEF ReadManagedBy
    <3>2. pc = "managedBy"
      BY <1>3 DEF ReadManagedBy
    <3> QED BY <3>1, <3>2
  <2>2. HandInv'
    BY <1>1, <2>1 DEF Done, WInv, HandInv, OfASet
  <2> QED BY <1>2, <2>2 DEF WInv
<1>4. CASE ReadVersion
  <2>1. /\ pc = "version"
        /\ Done \/ \E v \in Versions : /\ LabelOrDeployment(ev.full, ev.ver, dep.ver, v)
                                       /\ pc' = "create" /\ ver' = v /\ UNCHANGED ev
    <3>1. PICK v \in Versions \cup {Unset} :
             /\ LabelOrDeployment(ev.full, ev.ver, dep.ver, v)
             /\ IF v # Unset /\ ev.want # 0
                THEN pc' = "create" /\ ver' = v /\ UNCHANGED ev
                ELSE Done
      BY <1>4 DEF ReadVersion
    <3> QED BY <1>4, <3>1 DEF ReadVersion
  <2>2. OfASet(ev)
    BY <2>1 DEF WInv, HandInv
  <2>3. Done \/ (pc' = "create" /\ ver' = ev.ver /\ UNCHANGED ev)
    BY <2>1, <2>2 DEF LabelOrDeployment, OfASet
  <2>4. HandInv'
    BY <1>1, <2>2, <2>3 DEF Done, HandInv, OfASet
  <2> QED BY <1>2, <2>4 DEF WInv
<1> QED BY <1>3, <1>4

LEMMA WriteInv ==
  ASSUME Honest, WInv, Create \/ Patch
  PROVE  WInv'
<1>1. UNCHANGED <<dep, sets, queue, services>>
  BY DEF Create, Patch, HandlerOnly, cluster
<1>2. SetsInv' /\ QueueInv'
  BY <1>1 DEF WInv, SetsInv, QueueInv, OfASet
<1>3. OfASet(ev) /\ ver = ev.ver /\ ver \in Versions /\ Slug[ver] \in Slugs
  BY DEF Create, Patch, WInv, HandInv, OfASet, SetRec, Slugs
<1>4. ASSUME NEW r \in ArrivalRec, r.version = ver, r.replicaSet = ev.id,
             arrivals' = [arrivals EXCEPT ![Slug[ver]] = r]
      PROVE  ArrivalsInv'
  <2>1. arrivals' \in [Slugs -> ArrivalRec \cup {Unset}]
    BY <1>4 DEF WInv, ArrivalsInv
  <2>2. ASSUME NEW s \in Slugs PROVE OwnSet(s)'
    <3>1. CASE s = Slug[ver]
      <4>1. arrivals'[s] = r
        BY <1>3, <1>4, <3>1 DEF WInv, ArrivalsInv
      <4> QED BY <1>1, <1>3, <1>4, <3>1, <4>1 DEF OwnSet, OfASet
    <3>2. CASE s # Slug[ver]
      <4>1. arrivals'[s] = arrivals[s]
        BY <1>4, <3>2 DEF WInv, ArrivalsInv
      <4> QED BY <1>1, <4>1 DEF OwnSet, WInv, ArrivalsInv
    <3> QED BY <3>1, <3>2
  <2> QED BY <1>1, <2>1, <2>2 DEF WInv, ArrivalsInv
<1>5. CASE UNCHANGED arrivals
  <2>1. ArrivalsInv'
    BY <1>1, <1>5 DEF WInv, ArrivalsInv, OwnSet
  <2>2. HandInv'
    BY <1>1, <1>3, <1>5 DEF Create, Patch, Done, Known, HandInv, OfASet
  <2> QED BY <1>2, <2>1, <2>2 DEF WInv
<1>6. CASE Create /\ arrivals' # arrivals
  <2> DEFINE r == [version |-> ver, replicaSet |-> ev.id, config |-> services]
  <2>1. arrivals' = [arrivals EXCEPT ![Slug[ver]] = r] /\ Done
    BY <1>6 DEF Create
  <2>2. r \in ArrivalRec
    BY <1>3 DEF ArrivalRec, OfASet, SetRec, WInv, ArrivalsInv
  <2>3. r.version = ver /\ r.replicaSet = ev.id
    OBVIOUS
  <2> HIDE DEF r
  <2>4. ArrivalsInv'
    BY <1>4, <2>1, <2>2, <2>3
  <2>5. HandInv'
    BY <2>1 DEF Done, HandInv
  <2> QED BY <1>2, <2>4, <2>5 DEF WInv
<1>7. CASE Patch /\ arrivals' # arrivals
  <2> DEFINE old == arrivals[Slug[ver]]
             new == IF services = Unset THEN old.config ELSE services
             r   == [[old EXCEPT !.replicaSet = ev.id] EXCEPT !.config = new]
  <2>1. arrivals' = [arrivals EXCEPT ![Slug[ver]].replicaSet = ev.id,
                       ![Slug[ver]].config = IF services = Unset THEN @ ELSE services]
        /\ Done
    BY <1>7 DEF Patch
  <2>2. old \in ArrivalRec /\ old # Unset
    BY <1>3, <1>7 DEF Patch, WInv, HandInv, ArrivalsInv
  <2>3. old.version = ver
    BY <1>3, <2>2 DEF Honest, WInv, ArrivalsInv, OwnSet, ArrivalRec
  <2>4. new \in Values \cup {Unset}
    BY <2>2 DEF WInv, ArrivalsInv, ArrivalRec
  <2>5. arrivals' = [arrivals EXCEPT ![Slug[ver]] = r]
    BY <1>3, <2>1, <2>2 DEF WInv, ArrivalsInv, ArrivalRec
  <2>6. ev.id \in Nat
    BY <1>3 DEF OfASet, SetRec
  <2> HIDE DEF new
  <2>7. r \in ArrivalRec /\ r.version = ver /\ r.replicaSet = ev.id
    BY <2>2, <2>3, <2>4, <2>6 DEF ArrivalRec
  <2> HIDE DEF r
  <2>8. ArrivalsInv'
    BY <1>4, <2>5, <2>7
  <2>9. HandInv'
    BY <2>1 DEF Done, HandInv
  <2> QED BY <1>2, <2>8, <2>9 DEF WInv
<1> QED BY <1>5, <1>6, <1>7

LEMMA NextInv == IInv /\ [Next]_vars => IInv'
<1> SUFFICES ASSUME Honest, WInv, [Next]_vars PROVE WInv'
  BY DEF IInv, Honest
<1>1. CASE UNCHANGED vars
  BY <1>1 DEF vars, WInv, SetsInv, QueueInv, HandInv, ArrivalsInv, OfASet, OwnSet
<1> QED BY <1>1, DeploymentInv, InformerInv, ReadInv, WriteInv DEF Next, Handle

\* An Arrival names a ReplicaSet of its own version.
THEOREM ArrivalsNameTheirOwn == Spec => [](Honest => NamesItsOwn)
<1>1. IInv => (Honest => NamesItsOwn)
  BY DEF IInv, WInv, ArrivalsInv, OwnSet, NamesItsOwn
<1> QED BY <1>1, InitInv, NextInv, PTL DEF Spec

-----------------------------------------------------------------------------
(* Whatever charts label and names clash: what the handler goes on with       *)
(* becomes an Arrival.                                                        *)

\* What an event in hand and the version read for it say of each other.
Hand ==
    /\ IF pc = "idle" THEN ev = NoEvent ELSE ev \in SetRec
    /\ pc \in {"create", "patch"} => ver \in Versions /\ (ev.full => ver = ev.ver)
    /\ pc = "patch" => arrivals[Slug[ver]] # Unset

HInv ==
    /\ sets \in Seq(SetRec) /\ queue \in Seq(SetRec) /\ dep \in [ver : Versions, rs : Nat]
    /\ Hand
    /\ services \in Values \cup {Unset}
    /\ arrivals \in [Slugs -> ArrivalRec \cup {Unset}]
    /\ budget \in [errors : Nat, starts : Nat]

LEMMA InitHand == Init => HInv
<1> SUFFICES ASSUME Init PROVE HInv
  OBVIOUS
<1>1. Hand
  BY DEF Init, Hand
<1>2. dep \in [ver : Versions, rs : Nat]
  BY DEF Init
<1>3. arrivals \in [Slugs -> ArrivalRec \cup {Unset}]
  BY DEF Init
<1>4. budget \in [errors : Nat, starts : Nat]
  BY DEF Init
<1> QED BY <1>1, <1>2, <1>3, <1>4 DEF Init, HInv

LEMMA ClusterHand ==
  ASSUME HInv,
         \/ \E v \in Versions : Release(v)
         \/ MakeSet
         \/ \E i \in DOMAIN sets : RollBack(i) \/ ScaleSet(i)
  PROVE  HInv'
<1>1. /\ sets \in Seq(SetRec) /\ Len(sets) \in Nat /\ DOMAIN sets = 1..Len(sets)
      /\ dep \in [ver : Versions, rs : Nat]
  BY LenProperties DEF HInv
<1>2. UNCHANGED <<queue, pc, ev, ver, services, arrivals, budget>>
  BY DEF Release, MakeSet, RollBack, ScaleSet, ClusterOnly, handler
<1>3. sets' \in Seq(SetRec) /\ dep' \in [ver : Versions, rs : Nat]
  <2>1. ASSUME NEW v \in Versions, Release(v)
        PROVE  sets' \in Seq(SetRec) /\ dep' \in [ver : Versions, rs : Nat]
    BY <2>1, <1>1 DEF Release
  <2>2. CASE MakeSet
    <3>1. PICK full \in FullLabels, n \in StartSizes :
            sets' = Append(sets, [id |-> dep.rs, ver |-> dep.ver, full |-> full, want |-> n])
      BY <2>2 DEF MakeSet
    <3>2. n \in {0, 1} /\ full \in BOOLEAN
      BY WatcherAssumption
    <3>3. [id |-> dep.rs, ver |-> dep.ver, full |-> full, want |-> n] \in SetRec
      BY <1>1, <3>2 DEF SetRec
    <3>4. dep' = dep
      BY <2>2 DEF MakeSet
    <3> QED BY <1>1, <3>1, <3>3, <3>4, AppendProperties
  <2>3. ASSUME NEW i \in DOMAIN sets, RollBack(i)
        PROVE  sets' \in Seq(SetRec) /\ dep' \in [ver : Versions, rs : Nat]
    <3>1. sets[i] \in SetRec
      BY <1>1, ElementOfSeq
    <3> QED BY <2>3, <1>1, <3>1 DEF RollBack, SetRec
  <2>4. ASSUME NEW i \in DOMAIN sets, ScaleSet(i)
        PROVE  sets' \in Seq(SetRec) /\ dep' \in [ver : Versions, rs : Nat]
    <3>1. PICK n \in {0, 1} : sets' = [sets EXCEPT ![i] = [sets[i] EXCEPT !.want = n]]
      BY <2>4 DEF ScaleSet
    <3>2. sets[i] \in SetRec
      BY <1>1, ElementOfSeq
    <3>3. [sets[i] EXCEPT !.want = n] \in SetRec
      BY <3>2 DEF SetRec
    <3>4. dep' = dep
      BY <2>4 DEF ScaleSet
    <3> QED BY <1>1, <3>1, <3>3, <3>4, ExceptSeq
  <2> QED BY <2>1, <2>2, <2>3, <2>4
<1> QED BY <1>2, <1>3 DEF HInv, Hand

LEMMA InformerHand ==
  ASSUME HInv, (\E i \in DOMAIN sets : Notice(i)) \/ Take \/ Restart
  PROVE  HInv'
<1>1. sets \in Seq(SetRec) /\ Len(sets) \in Nat /\ DOMAIN sets = 1..Len(sets)
         /\ queue \in Seq(SetRec)
  BY LenProperties DEF HInv
<1>2. UNCHANGED <<dep, sets, arrivals>>
  BY DEF Notice, Take, Restart, cluster
<1>3. ASSUME NEW i \in DOMAIN sets, Notice(i) PROVE HInv'
  <2>1. sets[i] \in SetRec
    BY <1>1, ElementOfSeq
  <2>2. queue' \in Seq(SetRec)
    BY <1>1, <1>3, <2>1, AppendProperties DEF Notice
  <2> QED BY <1>2, <1>3, <2>2 DEF Notice, handler, HInv, Hand
<1>4. CASE Take
  <2>1. Head(queue) \in SetRec /\ Tail(queue) \in Seq(SetRec)
    BY <1>1, <1>4, HeadTailProperties DEF Take
  <2> QED BY <1>2, <1>4, <2>1 DEF Take, HInv, Hand
<1>5. CASE Restart
  <2>1. <<>> \in Seq(SetRec)
    OBVIOUS
  <2>2. budget.starts + 1 \in Nat /\ budget' = [budget EXCEPT !.starts = budget.starts + 1]
    BY <1>5 DEF Restart, HInv
  <2>3. budget' \in [errors : Nat, starts : Nat]
    BY <2>2 DEF HInv
  <2> QED BY <1>2, <1>5, <2>1, <2>3 DEF Restart, Done, HInv, Hand
<1> QED BY <1>3, <1>4, <1>5

\* A failed request is counted.
LEMMA Spends ==
  ASSUME HInv, Spend
  PROVE  budget' \in [errors : Nat, starts : Nat] /\ budget' # budget
<1>1. budget.errors + 1 \in Nat /\ budget.errors + 1 # budget.errors
         /\ budget' = [budget EXCEPT !.errors = budget.errors + 1]
  BY DEF Spend, HInv
<1>2. budget'.errors = budget.errors + 1
  BY <1>1 DEF HInv
<1>3. budget' \in [errors : Nat, starts : Nat]
  BY <1>1 DEF HInv
<1> QED BY <1>1, <1>2, <1>3

LEMMA Reads ==
  ASSUME HInv, NEW full, NEW onSet, NEW onDep, NEW read,
         LabelOrDeployment(full, onSet, onDep, read)
  PROVE  /\ budget' \in [errors : Nat, starts : Nat]
         /\ full => read = onSet
BY Spends DEF LabelOrDeployment, HInv

LEMMA ReadHand ==
  ASSUME HInv, ReadManagedBy \/ ReadVersion
  PROVE  /\ HInv'
         /\ Through /\ helm /\ ev.full /\ ev.want # 0 => FALSE
<1>1. UNCHANGED <<helm, dep, sets, queue, services, arrivals>>
  BY DEF ReadManagedBy, ReadVersion, HandlerOnly, cluster
<1>2. ev \in SetRec
  BY DEF ReadManagedBy, ReadVersion, HInv, Hand
<1>3. CASE ReadManagedBy
  <2>1. PICK m \in {helm, Unset} :
          /\ LabelOrDeployment(ev.full, helm, helm, m)
          /\ IF m = TRUE THEN pc' = "version" /\ UNCHANGED <<ev, ver>> ELSE Done
    BY <1>3 DEF ReadManagedBy
  <2>2. budget' \in [errors : Nat, starts : Nat] /\ (ev.full => m = helm)
    BY <2>1, Reads
  <2>3. Hand'
    BY <1>2, <2>1 DEF Done, Hand
  <2>4. HInv'
    BY <1>1, <2>2, <2>3 DEF HInv
  <2>5. Through /\ helm /\ ev.full => FALSE
    BY <2>1, <2>2 DEF Through
  <2> QED BY <2>4, <2>5
<1>4. CASE ReadVersion
  <2>1. PICK v \in Versions \cup {Unset} :
          /\ LabelOrDeployment(ev.full, ev.ver, dep.ver, v)
          /\ IF v # Unset /\ ev.want # 0
             THEN pc' = "create" /\ ver' = v /\ UNCHANGED ev
             ELSE Done
    BY <1>4 DEF ReadVersion
  <2>2. budget' \in [errors : Nat, starts : Nat] /\ (ev.full => v = ev.ver)
    BY <2>1, Reads
  <2>3. Hand'
    BY <1>2, <2>1, <2>2 DEF Done, Hand
  <2>4. HInv'
    BY <1>1, <2>2, <2>3 DEF HInv
  <2>5. ev.ver \in Versions /\ Unset \notin Versions
    BY <1>2, WatcherAssumption DEF SetRec
  <2>6. Through /\ ev.full /\ ev.want # 0 => FALSE
    BY <2>1, <2>2, <2>5 DEF Through
  <2> QED BY <2>4, <2>6
<1> QED BY <1>3, <1>4

LEMMA WriteHand ==
  ASSUME HInv, Create \/ Patch
  PROVE  /\ HInv'
         /\ Through /\ ev.full => arrivals'[Slug[ev.ver]] # Unset
<1>1. UNCHANGED <<dep, sets, queue, services>>
  BY DEF Create, Patch, HandlerOnly, cluster
<1>2. /\ ev \in SetRec /\ ver \in Versions /\ Slug[ver] \in Slugs
      /\ ev.full => ver = ev.ver
  BY DEF Create, Patch, HInv, Hand, Slugs
<1>3. ev.id \in Nat /\ Unset \notin ArrivalRec
  BY <1>2, WatcherAssumption DEF SetRec, ArrivalRec
<1>4. ASSUME NEW r \in ArrivalRec, Done, UNCHANGED budget,
             arrivals' = [arrivals EXCEPT ![Slug[ver]] = r]
      PROVE  HInv' /\ (ev.full => arrivals'[Slug[ev.ver]] # Unset)
  <2>1. arrivals' \in [Slugs -> ArrivalRec \cup {Unset}] /\ arrivals'[Slug[ver]] = r
    BY <1>2, <1>4 DEF HInv
  <2>2. Hand'
    BY <1>4 DEF Done, Hand
  <2> QED BY <1>1, <1>2, <1>3, <1>4, <2>1, <2>2 DEF HInv
<1>5. CASE UNCHANGED arrivals
  <2>1. CASE Spend /\ Done
    <3>1. budget' \in [errors : Nat, starts : Nat] /\ ~Through
      BY <2>1, Spends DEF Through
    <3>2. Hand'
      BY <2>1 DEF Done, Hand
    <3> QED BY <1>1, <1>5, <3>1, <3>2 DEF HInv
  <2>2. CASE Create /\ Known /\ pc' = "patch" /\ UNCHANGED <<ev, ver, arrivals, budget>>
    <3>1. Hand'
      BY <1>2, <2>2 DEF Known, Hand
    <3>2. ~Through
      BY <2>2 DEF Through
    <3> QED BY <1>1, <2>2, <3>1, <3>2 DEF HInv
  <2>3. CASE Create /\ ~Known /\ arrivals' = [arrivals EXCEPT ![Slug[ver]] =
                            [version |-> ver, replicaSet |-> ev.id, config |-> services]]
    <3>1. arrivals'[Slug[ver]] = [version |-> ver, replicaSet |-> ev.id, config |-> services]
      BY <1>2, <2>3 DEF HInv
    <3>2. [version |-> ver, replicaSet |-> ev.id, config |-> services] \in ArrivalRec
      BY <1>2, <1>3 DEF ArrivalRec, HInv
    <3> QED BY <1>3, <1>5, <2>3, <3>1, <3>2 DEF Known
  <2>4. CASE Patch /\ UNCHANGED budget
    <3>1. Done /\ arrivals[Slug[ver]] # Unset
      BY <2>4 DEF Patch, HInv, Hand
    <3>2. Hand'
      BY <3>1 DEF Done, Hand
    <3> QED BY <1>1, <1>2, <1>5, <2>4, <3>1, <3>2 DEF HInv
  <2> QED BY <1>5, <2>1, <2>2, <2>3, <2>4 DEF Create, Patch
<1>6. CASE Create /\ arrivals' # arrivals
  <2>1. /\ arrivals' = [arrivals EXCEPT ![Slug[ver]] =
                          [version |-> ver, replicaSet |-> ev.id, config |-> services]]
        /\ Done /\ UNCHANGED budget
    BY <1>6 DEF Create
  <2>2. [version |-> ver, replicaSet |-> ev.id, config |-> services] \in ArrivalRec
    BY <1>2, <1>3 DEF ArrivalRec, HInv
  <2> QED BY <1>4, <2>1, <2>2
<1>7. CASE Patch /\ arrivals' # arrivals
  <2> DEFINE old == arrivals[Slug[ver]]
             new == IF services = Unset THEN old.config ELSE services
             r   == [[old EXCEPT !.replicaSet = ev.id] EXCEPT !.config = new]
  <2>1. /\ arrivals' = [arrivals EXCEPT ![Slug[ver]].replicaSet = ev.id,
                         ![Slug[ver]].config = IF services = Unset THEN @ ELSE services]
        /\ Done /\ UNCHANGED budget
    BY <1>7 DEF Patch
  <2>2. old \in ArrivalRec
    BY <1>2, <1>7 DEF Patch, HInv, Hand
  <2>3. new \in Values \cup {Unset}
    BY <2>2 DEF HInv, ArrivalRec
  <2>4. arrivals' = [arrivals EXCEPT ![Slug[ver]] = r]
    BY <1>2, <2>1, <2>2 DEF HInv, ArrivalRec
  <2> HIDE DEF new
  <2>5. r \in ArrivalRec
    BY <1>3, <2>2, <2>3 DEF ArrivalRec
  <2> HIDE DEF r
  <2> QED BY <1>4, <2>1, <2>4, <2>5
<1> QED BY <1>5, <1>6, <1>7

\* Nothing but an empty ReplicaSet or a failed request is passed over.
THEOREM NothingPassedOver == Spec => NoticedArrives
<1> DEFINE Arrives == Through /\ helm /\ ev.full /\ ev.want # 0
                        => arrivals'[Slug[ev.ver]] # Unset
<1>1. ASSUME HInv, [Next]_vars PROVE HInv' /\ [Arrives]_vars
  <2>1. CASE UNCHANGED vars
    BY <1>1, <2>1 DEF vars, HInv, Hand
  <2>2. CASE \/ \E v \in Versions : Release(v)
             \/ MakeSet
             \/ \E i \in DOMAIN sets : RollBack(i) \/ ScaleSet(i)
    <3>1. ~Through
      BY <2>2 DEF Release, MakeSet, RollBack, ScaleSet, ClusterOnly, handler, Through
    <3> QED BY <1>1, <2>2, <3>1, ClusterHand
  <2>3. CASE (\E i \in DOMAIN sets : Notice(i)) \/ Take
    <3>1. ~Through
      BY <1>1, <2>3 DEF Notice, Take, handler, Through, HInv, Hand
    <3> QED BY <1>1, <2>3, <3>1, InformerHand
  <2>4. CASE Restart
    <3>1. budget' # budget
      BY <1>1, <2>4 DEF Restart, HInv
    <3> QED BY <1>1, <2>4, <3>1, InformerHand DEF Through
  <2>5. CASE ReadManagedBy \/ ReadVersion
    BY <1>1, <2>5, ReadHand
  <2>6. CASE Create \/ Patch
    BY <1>1, <2>6, WriteHand
  <2> QED BY <1>1, <2>1, <2>2, <2>3, <2>4, <2>5, <2>6 DEF Next, Handle
<1>2. HInv /\ [Next]_vars => HInv' /\ [Arrives]_vars
  BY <1>1
<1> HIDE DEF Arrives
<1>3. NoticedArrives <=> [][Arrives]_vars
  BY PTL DEF NoticedArrives, Arrives
<1> QED BY <1>2, <1>3, InitHand, PTL DEF Spec
-----------------------------------------------------------------------------
(* Types, and the bound of the queue.  A model of MaxSets ReplicaSets needs a  *)
(* queue no longer than that because the informer reports none of them twice   *)
(* to one process: the reports that wait are of different ReplicaSets.         *)

ClusterTypes ==
    /\ helm \in BOOLEAN
    /\ dep \in [ver : Versions, rs : 1..MaxSets]
    /\ sets \in Seq(ReplicaSet) /\ Len(sets) <= MaxSets
    /\ \A i \in 1..Len(sets) : sets[i].id = i

InformerTypes ==
    /\ seen \subseteq 1..Len(sets)
    /\ queue \in Seq(ReplicaSet)
    /\ \A k \in 1..Len(queue) : queue[k].id \in seen
    /\ \A k, l \in 1..Len(queue) : queue[k].id = queue[l].id => k = l

HandTypes ==
    /\ pc \in {"idle", "managedBy", "version", "create", "patch"}
    /\ IF pc = "idle" THEN ev = NoEvent ELSE ev \in ReplicaSet
    /\ ver \in Versions \cup {Unset}
    /\ pc \in {"create", "patch"} => ver \in Versions
    /\ pc = "patch" => arrivals[Slug[ver]] # Unset

RecordTypes ==
    /\ services \in Values \cup {Unset}
    /\ arrivals \in [Slugs -> Arrival \cup {Unset}]

BudgetTypes == budget \in [errors : 0..MaxErrors, starts : 0..MaxStarts]

TInv == ClusterTypes /\ InformerTypes /\ HandTypes /\ RecordTypes /\ BudgetTypes

LEMMA SlugsOwn == \A v \in Versions : Slug[v] \in Slugs
BY DEF Slugs

LEMMA BoundsAreNumbers == MaxSets \in Nat /\ MaxSets > 0 /\ MaxErrors \in Nat /\ MaxStarts \in Nat
BY WatcherAssumption

LEMMA SetFields ==
  ASSUME NEW r \in ReplicaSet
  PROVE  r.id \in 1..MaxSets /\ r.ver \in Versions /\ r.full \in BOOLEAN /\ r.want \in {0, 1}
BY DEF ReplicaSet

\* A ReplicaSet numbered 1 or more is not the event that means none.
LEMMA EventsHaveNumbers ==
  ASSUME NEW r \in ReplicaSet
  PROVE  r # NoEvent
<1>1. r.id # 0
  <2>1. r.id \in 1..MaxSets
    BY SetFields
  <2> QED BY ONLY <2>1, BoundsAreNumbers
<1> QED BY <1>1 DEF NoEvent

\* Reports of different ReplicaSets are no more than the ReplicaSets may be.
LEMMA ReportsFit ==
  ASSUME NEW q \in Seq(ReplicaSet),
         \A k, l \in 1..Len(q) : q[k].id = q[l].id => k = l
  PROVE  Len(q) <= MaxSets
<1> SUFFICES ASSUME ~(Len(q) <= MaxSets) PROVE FALSE
  OBVIOUS
<1> DEFINE f == [k \in 1..Len(q) |-> q[k].id]
<1>1. Len(q) \in Nat /\ MaxSets \in Nat
  BY BoundsAreNumbers, LenProperties
<1>2. IsFiniteSet(1..Len(q)) /\ Cardinality(1..Len(q)) = Len(q)
  <2>1. 1 \in Int /\ Len(q) \in Int
    BY <1>1
  <2>2. /\ IsFiniteSet(1..Len(q))
        /\ Cardinality(1..Len(q)) = IF 1 > Len(q) THEN 0 ELSE Len(q) - 1 + 1
    BY ONLY <2>1, FS_Interval
  <2> QED BY ONLY <1>1, <2>2
<1>3. IsFiniteSet(1..MaxSets) /\ Cardinality(1..MaxSets) = MaxSets
  <2>1. 1 \in Int /\ MaxSets \in Int
    BY <1>1
  <2>2. /\ IsFiniteSet(1..MaxSets)
        /\ Cardinality(1..MaxSets) = IF 1 > MaxSets THEN 0 ELSE MaxSets - 1 + 1
    BY ONLY <2>1, FS_Interval
  <2> QED BY ONLY <1>1, <2>2
<1>4. Cardinality(1..MaxSets) < Cardinality(1..Len(q))
  BY <1>1, <1>2, <1>3
<1>5. f \in [1..Len(q) -> 1..MaxSets]
  <2>1. ASSUME NEW k \in 1..Len(q) PROVE q[k].id \in 1..MaxSets
    BY <2>1, ElementOfSeq, SetFields
  <2> QED BY <2>1
<1>6. \A k \in 1..Len(q) : f[k] = q[k].id
  OBVIOUS
<1> HIDE DEF f
<1>7. \E k, l \in 1..Len(q) : k # l /\ f[k] = f[l]
  BY ONLY <1>2, <1>3, <1>4, <1>5, FS_PigeonHole
<1> QED BY <1>6, <1>7

LEMMA InitTypes == Init => TInv
<1> SUFFICES ASSUME Init PROVE TInv
  OBVIOUS
<1>1. 1 \in 1..MaxSets
  BY ONLY BoundsAreNumbers
<1>2. ClusterTypes
  <2>1. dep \in [ver : Versions, rs : 1..MaxSets]
    BY <1>1 DEF Init
  <2>2. sets = <<>> /\ helm \in BOOLEAN
    BY DEF Init
  <2>3. sets \in Seq(ReplicaSet) /\ Len(sets) = 0
    BY <2>2
  <2>4. Len(sets) <= MaxSets
    BY ONLY <2>3, BoundsAreNumbers
  <2> QED BY <2>1, <2>2, <2>3, <2>4 DEF ClusterTypes
<1>3. InformerTypes
  BY DEF Init, InformerTypes
<1>4. HandTypes
  BY DEF Init, HandTypes
<1>5. RecordTypes
  BY DEF Init, RecordTypes
<1>6. BudgetTypes
  <2>1. 0 \in 0..MaxErrors /\ 0 \in 0..MaxStarts
    BY ONLY BoundsAreNumbers
  <2> QED BY <2>1 DEF Init, BudgetTypes
<1> QED BY <1>2, <1>3, <1>4, <1>5, <1>6 DEF TInv

LEMMA ClusterKeepsTypes ==
  ASSUME TInv,
         \/ \E v \in Versions : Release(v)
         \/ MakeSet
         \/ \E i \in DOMAIN sets : RollBack(i) \/ ScaleSet(i)
  PROVE  TInv'
<1>1. /\ sets \in Seq(ReplicaSet) /\ Len(sets) \in Nat /\ DOMAIN sets = 1..Len(sets)
      /\ dep \in [ver : Versions, rs : 1..MaxSets] /\ Len(sets) <= MaxSets
      /\ \A i \in 1..Len(sets) : sets[i].id = i
  BY LenProperties DEF TInv, ClusterTypes
<1>2. UNCHANGED <<helm, seen, queue, pc, ev, ver, services, arrivals, budget>>
  BY DEF Release, MakeSet, RollBack, ScaleSet, ClusterOnly, handler
<1>3. ClusterTypes' /\ Len(sets') >= Len(sets)
  <2>1. ASSUME NEW v \in Versions, Release(v) PROVE ClusterTypes' /\ Len(sets') >= Len(sets)
    <3>1. Len(sets) < MaxSets /\ dep' = [ver |-> v, rs |-> Len(sets) + 1] /\ sets' = sets
      BY <2>1 DEF Release
    <3>2. Len(sets) + 1 \in 1..MaxSets
      BY <1>1, <3>1, BoundsAreNumbers
    <3>3. dep' \in [ver : Versions, rs : 1..MaxSets]
      BY <3>1, <3>2
    <3>4. Len(sets') >= Len(sets)
      BY <1>1, <3>1
    <3> QED BY <1>2, <3>1, <3>3, <3>4 DEF TInv, ClusterTypes
  <2>2. CASE MakeSet
    <3>1. PICK full \in FullLabels, n \in StartSizes :
            sets' = Append(sets, [id |-> dep.rs, ver |-> dep.ver, full |-> full, want |-> n])
      BY <2>2 DEF MakeSet
    <3>2. dep.rs = Len(sets) + 1 /\ dep' = dep
      BY <2>2 DEF MakeSet
    <3>3. n \in {0, 1} /\ full \in BOOLEAN
      BY WatcherAssumption
    <3> DEFINE new == [id |-> dep.rs, ver |-> dep.ver, full |-> full, want |-> n]
    <3>4. new \in ReplicaSet /\ new.id = Len(sets) + 1
      BY <1>1, <3>2, <3>3 DEF ReplicaSet
    <3> HIDE DEF new
    <3>5. sets' = Append(sets, new)
      BY <3>1 DEF new
    <3>6. /\ sets' \in Seq(ReplicaSet)
          /\ Len(sets') = Len(sets) + 1
          /\ \A i \in 1..Len(sets) : sets'[i] = sets[i]
          /\ sets'[Len(sets) + 1] = new
      BY <1>1, <3>4, <3>5, AppendProperties
    <3>7. Len(sets) + 1 \in 1..MaxSets
      BY <1>1, <3>2
    <3>8. Len(sets') <= MaxSets /\ Len(sets') >= Len(sets)
      BY <1>1, <3>6, <3>7, BoundsAreNumbers
    <3>9. \A i \in 1..Len(sets') : sets'[i].id = i
      BY <1>1, <3>4, <3>6
    <3> QED BY <1>1, <1>2, <3>2, <3>6, <3>8, <3>9 DEF TInv, ClusterTypes
  <2>3. ASSUME NEW i \in DOMAIN sets, RollBack(i) PROVE ClusterTypes' /\ Len(sets') >= Len(sets)
    <3>1. sets[i] \in ReplicaSet
      BY <1>1, ElementOfSeq
    <3>2. sets[i].ver \in Versions
      BY <3>1, SetFields
    <3>3. i \in 1..MaxSets
      BY <1>1, BoundsAreNumbers
    <3>4. dep' = [ver |-> sets[i].ver, rs |-> i] /\ sets' = sets
      BY <2>3 DEF RollBack
    <3>5. dep' \in [ver : Versions, rs : 1..MaxSets]
      BY <3>2, <3>3, <3>4
    <3>6. Len(sets') >= Len(sets)
      BY <1>1, <3>4
    <3> QED BY <1>2, <3>4, <3>5, <3>6 DEF TInv, ClusterTypes
  <2>4. ASSUME NEW i \in DOMAIN sets, ScaleSet(i) PROVE ClusterTypes' /\ Len(sets') >= Len(sets)
    <3>1. PICK n \in {0, 1} : sets' = [sets EXCEPT ![i] = [sets[i] EXCEPT !.want = n]]
      BY <2>4 DEF ScaleSet
    <3>2. sets[i] \in ReplicaSet
      BY <1>1, ElementOfSeq
    <3> DEFINE new == [sets[i] EXCEPT !.want = n]
    <3>3. new \in ReplicaSet /\ new.id = sets[i].id
      BY <3>2 DEF ReplicaSet
    <3> HIDE DEF new
    <3>4. sets' = [sets EXCEPT ![i] = new]
      BY <3>1 DEF new
    <3>5. /\ sets' \in Seq(ReplicaSet) /\ Len(sets') = Len(sets)
          /\ \A j \in 1..Len(sets) : sets'[j] = IF j = i THEN new ELSE sets[j]
      BY <1>1, <3>3, <3>4, ExceptSeq
    <3>6. \A j \in 1..Len(sets') : sets'[j].id = j
      BY <1>1, <3>3, <3>5
    <3>7. dep' = dep
      BY <2>4 DEF ScaleSet
    <3>8. Len(sets') <= MaxSets /\ Len(sets') >= Len(sets)
      BY <1>1, <3>5
    <3> QED BY <1>1, <1>2, <3>5, <3>6, <3>7, <3>8 DEF TInv, ClusterTypes
  <2> QED BY <2>1, <2>2, <2>3, <2>4
<1>4. InformerTypes'
  <2>1. Len(sets') \in Nat
    BY <1>3, LenProperties DEF ClusterTypes
  <2>2. 1..Len(sets) \subseteq 1..Len(sets')
    BY <1>1, <1>3, <2>1
  <2>3. seen' \subseteq 1..Len(sets')
    BY <1>2, <2>2 DEF TInv, InformerTypes
  <2> QED BY <1>2, <2>3 DEF TInv, InformerTypes
<1>5. HandTypes' /\ RecordTypes' /\ BudgetTypes'
  BY <1>2 DEF TInv, HandTypes, RecordTypes, BudgetTypes
<1> QED BY <1>3, <1>4, <1>5 DEF TInv

LEMMA NoticeKeepsTypes ==
  ASSUME TInv, NEW i \in DOMAIN sets, Notice(i)
  PROVE  TInv'
<1>1. /\ sets \in Seq(ReplicaSet) /\ DOMAIN sets = 1..Len(sets) /\ sets[i].id = i
      /\ queue \in Seq(ReplicaSet) /\ Len(queue) \in Nat
  BY LenProperties DEF TInv, ClusterTypes, InformerTypes
<1>2. /\ i \notin seen /\ seen' = seen \cup {i} /\ queue' = Append(queue, sets[i])
      /\ UNCHANGED <<helm, dep, sets, pc, ev, ver, services, arrivals, budget>>
  BY DEF Notice, cluster, handler
<1>3. sets[i] \in ReplicaSet
  BY <1>1, ElementOfSeq
<1>4. /\ queue' \in Seq(ReplicaSet) /\ Len(queue') = Len(queue) + 1
      /\ \A k \in 1..Len(queue) : queue'[k] = queue[k]
      /\ queue'[Len(queue) + 1] = sets[i]
  BY <1>1, <1>2, <1>3, AppendProperties
<1>5. InformerTypes'
  <2>1. seen' \subseteq 1..Len(sets')
    BY <1>1, <1>2 DEF TInv, InformerTypes
  <2>2. \A k \in 1..Len(queue') : k \in 1..Len(queue) \/ k = Len(queue) + 1
    BY ONLY <1>1, <1>4
  <2>3. \A k \in 1..Len(queue) : queue[k].id \in seen
    BY DEF TInv, InformerTypes
  <2>4. \A k \in 1..Len(queue') : queue'[k].id \in seen'
    BY <1>1, <1>2, <1>4, <2>2, <2>3
  <2>5. ASSUME NEW k \in 1..Len(queue'), NEW l \in 1..Len(queue'), queue'[k].id = queue'[l].id
        PROVE  k = l
    <3>1. CASE k \in 1..Len(queue) /\ l \in 1..Len(queue)
      BY <1>4, <2>5, <3>1 DEF TInv, InformerTypes
    <3>2. CASE k = Len(queue) + 1 /\ l = Len(queue) + 1
      BY <3>2
    <3>3. CASE k \in 1..Len(queue) /\ l = Len(queue) + 1
      BY <1>1, <1>2, <1>4, <2>3, <2>5, <3>3
    <3>4. CASE l \in 1..Len(queue) /\ k = Len(queue) + 1
      BY <1>1, <1>2, <1>4, <2>3, <2>5, <3>4
    <3> QED BY <2>2, <3>1, <3>2, <3>3, <3>4
  <2> QED BY <1>4, <2>1, <2>4, <2>5 DEF InformerTypes
<1>6. ClusterTypes' /\ HandTypes' /\ RecordTypes' /\ BudgetTypes'
  BY <1>2 DEF TInv, ClusterTypes, HandTypes, RecordTypes, BudgetTypes
<1> QED BY <1>5, <1>6 DEF TInv

LEMMA TakeKeepsTypes ==
  ASSUME TInv, Take
  PROVE  TInv'
<1>1. /\ queue # <<>> /\ pc = "idle" /\ pc' = "managedBy" /\ ev' = Head(queue)
      /\ queue' = Tail(queue)
      /\ UNCHANGED <<helm, dep, sets, seen, ver, services, arrivals, budget>>
  BY DEF Take, cluster
<1>2. queue \in Seq(ReplicaSet)
  BY DEF TInv, InformerTypes
<1>3. /\ Len(queue) \in Nat /\ Len(queue) > 0
      /\ Head(queue) = queue[1]
      /\ Tail(queue) \in Seq(ReplicaSet)
      /\ Len(Tail(queue)) = Len(queue) - 1
      /\ \A k \in 1..Len(Tail(queue)) : Tail(queue)[k] = queue[k + 1]
  BY <1>1, <1>2, LenProperties, EmptySeq, HeadTailProperties
<1>4. InformerTypes'
  <2>1. \A k \in 1..Len(queue') : k \in Nat /\ k + 1 \in 1..Len(queue)
    BY ONLY <1>1, <1>3
  <2>2. \A k \in 1..Len(queue') : queue'[k] = queue[k + 1]
    BY <1>1, <1>3
  <2>3. \A k \in 1..Len(queue') : queue'[k].id \in seen'
    BY <1>1, <2>1, <2>2 DEF TInv, InformerTypes
  <2>4. ASSUME NEW k \in 1..Len(queue'), NEW l \in 1..Len(queue'), queue'[k].id = queue'[l].id
        PROVE  k = l
    <3>1. k + 1 = l + 1
      BY <2>1, <2>2, <2>4 DEF TInv, InformerTypes
    <3>2. k \in Nat /\ l \in Nat
      BY <2>1
    <3> QED BY ONLY <3>1, <3>2
  <2> QED BY <1>1, <1>3, <2>3, <2>4 DEF TInv, InformerTypes
<1>5. HandTypes'
  <2>1. 1 \in 1..Len(queue)
    BY ONLY <1>3
  <2>2. Head(queue) \in ReplicaSet
    BY <1>2, <1>3, <2>1, ElementOfSeq
  <2> QED BY <1>1, <2>2 DEF TInv, HandTypes
<1>6. ClusterTypes' /\ RecordTypes' /\ BudgetTypes'
  BY <1>1 DEF TInv, ClusterTypes, RecordTypes, BudgetTypes
<1> QED BY <1>4, <1>5, <1>6 DEF TInv

LEMMA RestartKeepsTypes ==
  ASSUME TInv, Restart
  PROVE  TInv'
<1>1. /\ seen' = {} /\ queue' = <<>> /\ pc' = "idle" /\ ev' = NoEvent /\ ver' = Unset
      /\ services' \in Values \cup {Unset} /\ UNCHANGED <<helm, dep, sets, arrivals>>
  BY DEF Restart, Done, cluster
<1>2. BudgetTypes'
  <2>1. budget \in [errors : 0..MaxErrors, starts : 0..MaxStarts]
    BY DEF TInv, BudgetTypes
  <2>2. budget.starts < MaxStarts /\ budget' = [budget EXCEPT !.starts = budget.starts + 1]
    BY DEF Restart
  <2>3. budget.starts + 1 \in 0..MaxStarts
    <3>1. budget.starts \in 0..MaxStarts
      BY <2>1
    <3> QED BY ONLY <2>2, <3>1, BoundsAreNumbers
  <2> QED BY <2>1, <2>2, <2>3 DEF BudgetTypes
<1>3. InformerTypes'
  <2>1. queue' \in Seq(ReplicaSet) /\ Len(queue') = 0
    BY <1>1
  <2> QED BY <1>1, <2>1 DEF InformerTypes
<1>4. HandTypes'
  BY <1>1 DEF HandTypes
<1>5. ClusterTypes' /\ RecordTypes'
  BY <1>1 DEF TInv, ClusterTypes, RecordTypes
<1> QED BY <1>2, <1>3, <1>4, <1>5 DEF TInv

LEMMA SpendWithin ==
  ASSUME BudgetTypes, Spend
  PROVE  BudgetTypes'
<1>1. budget \in [errors : 0..MaxErrors, starts : 0..MaxStarts]
  BY DEF BudgetTypes
<1>2. budget.errors < MaxErrors /\ budget' = [budget EXCEPT !.errors = budget.errors + 1]
  BY DEF Spend
<1>3. budget.errors + 1 \in 0..MaxErrors
  <2>1. budget.errors \in 0..MaxErrors
    BY <1>1
  <2> QED BY ONLY <1>2, <2>1, BoundsAreNumbers
<1> QED BY <1>1, <1>2, <1>3 DEF BudgetTypes

LEMMA ReadWithin ==
  ASSUME BudgetTypes, NEW full, NEW onSet, NEW onDep, NEW read,
         LabelOrDeployment(full, onSet, onDep, read)
  PROVE  BudgetTypes'
<1>1. UNCHANGED budget \/ Spend
  BY DEF LabelOrDeployment
<1> QED BY <1>1, SpendWithin DEF BudgetTypes

LEMMA ReadKeepsTypes ==
  ASSUME TInv, ReadManagedBy \/ ReadVersion
  PROVE  TInv'
<1>1. UNCHANGED <<helm, dep, sets, seen, queue, services, arrivals>>
  BY DEF ReadManagedBy, ReadVersion, HandlerOnly, cluster
<1>2. ClusterTypes' /\ InformerTypes' /\ RecordTypes'
  BY <1>1 DEF TInv, ClusterTypes, InformerTypes, RecordTypes
<1>3. BudgetTypes /\ ev \in ReplicaSet
  BY DEF ReadManagedBy, ReadVersion, TInv, HandTypes
<1>4. CASE ReadManagedBy
  <2>1. PICK m \in {helm, Unset} :
          /\ LabelOrDeployment(ev.full, helm, helm, m)
          /\ IF m = TRUE THEN pc' = "version" /\ UNCHANGED <<ev, ver>> ELSE Done
    BY <1>4 DEF ReadManagedBy
  <2>2. BudgetTypes'
    BY <1>3, <2>1, ReadWithin
  <2>3. HandTypes'
    BY <1>3, <2>1 DEF Done, TInv, HandTypes
  <2> QED BY <1>2, <2>2, <2>3 DEF TInv
<1>5. CASE ReadVersion
  <2>1. PICK v \in Versions \cup {Unset} :
          /\ LabelOrDeployment(ev.full, ev.ver, dep.ver, v)
          /\ IF v # Unset /\ ev.want # 0
             THEN pc' = "create" /\ ver' = v /\ UNCHANGED ev
             ELSE Done
    BY <1>5 DEF ReadVersion
  <2>2. BudgetTypes'
    BY <1>3, <2>1, ReadWithin
  <2>3. HandTypes'
    BY <1>3, <2>1 DEF Done, HandTypes
  <2> QED BY <1>2, <2>2, <2>3 DEF TInv
<1> QED BY <1>4, <1>5

LEMMA WriteKeepsTypes ==
  ASSUME TInv, Create \/ Patch
  PROVE  TInv'
<1>1. UNCHANGED <<helm, dep, sets, seen, queue, services>>
  BY DEF Create, Patch, HandlerOnly, cluster
<1>2. ClusterTypes' /\ InformerTypes'
  BY <1>1 DEF TInv, ClusterTypes, InformerTypes
<1>3. /\ ev \in ReplicaSet /\ ver \in Versions /\ BudgetTypes
      /\ services \in Values \cup {Unset}
      /\ arrivals \in [Slugs -> Arrival \cup {Unset}]
  BY DEF Create, Patch, TInv, HandTypes, RecordTypes
<1>4. Slug[ver] \in Slugs /\ ev.id \in 1..MaxSets
  BY <1>3, SlugsOwn, SetFields
<1>5. BudgetTypes'
  <2>1. UNCHANGED budget \/ Spend
    BY DEF Create, Patch
  <2> QED BY <1>3, <2>1, SpendWithin DEF BudgetTypes
<1>6. HandTypes'
  <2>1. Done \/ (Known /\ pc' = "patch" /\ UNCHANGED <<ev, ver, arrivals>>)
    BY DEF Create, Patch
  <2> QED BY <1>3, <2>1 DEF Done, Known, HandTypes
<1>7. RecordTypes'
  <2>1. CASE UNCHANGED arrivals
    BY <1>1, <1>3, <2>1 DEF RecordTypes
  <2>2. CASE Create /\ arrivals' # arrivals
    <3> DEFINE r == [version |-> ver, replicaSet |-> ev.id, config |-> services]
    <3>1. arrivals' = [arrivals EXCEPT ![Slug[ver]] = r]
      BY <2>2 DEF Create
    <3>2. r \in Arrival
      BY <1>3, <1>4 DEF Arrival
    <3> HIDE DEF r
    <3> QED BY <1>1, <1>3, <3>1, <3>2 DEF RecordTypes
  <2>3. CASE Patch /\ arrivals' # arrivals
    <3> DEFINE old == arrivals[Slug[ver]]
               new == IF services = Unset THEN old.config ELSE services
               r   == [[old EXCEPT !.replicaSet = ev.id] EXCEPT !.config = new]
    <3>1. arrivals' = [arrivals EXCEPT ![Slug[ver]].replicaSet = ev.id,
                         ![Slug[ver]].config = IF services = Unset THEN @ ELSE services]
      BY <2>3 DEF Patch
    <3>2. old \in Arrival
      BY <1>3, <1>4, <2>3 DEF Patch, TInv, HandTypes
    <3>3. new \in Values \cup {Unset}
      BY <1>3, <3>2 DEF Arrival
    <3>4. arrivals' = [arrivals EXCEPT ![Slug[ver]] = r]
      BY <1>3, <1>4, <3>1, <3>2 DEF Arrival
    <3> HIDE DEF new
    <3>5. r \in Arrival
      BY <1>4, <3>2, <3>3 DEF Arrival
    <3> HIDE DEF r
    <3> QED BY <1>1, <1>3, <3>4, <3>5 DEF RecordTypes
  <2> QED BY <2>1, <2>2, <2>3 DEF Create, Patch
<1> QED BY <1>2, <1>5, <1>6, <1>7 DEF TInv

LEMMA NextTypes == TInv /\ [Next]_vars => TInv'
<1> SUFFICES ASSUME TInv, [Next]_vars PROVE TInv'
  OBVIOUS
<1>1. CASE UNCHANGED vars
  BY <1>1 DEF vars, TInv, ClusterTypes, InformerTypes, HandTypes, RecordTypes, BudgetTypes
<1> QED BY <1>1, ClusterKeepsTypes, NoticeKeepsTypes, TakeKeepsTypes, RestartKeepsTypes,
           ReadKeepsTypes, WriteKeepsTypes DEF Next, Handle

LEMMA TypesHold == TInv => TypeOK
<1> SUFFICES ASSUME TInv PROVE TypeOK
  OBVIOUS
<1>1. /\ sets \in Seq(ReplicaSet) /\ DOMAIN sets = 1..Len(sets)
      /\ queue \in Seq(ReplicaSet) /\ DOMAIN queue = 1..Len(queue)
  BY LenProperties DEF TInv, ClusterTypes, InformerTypes
<1>2. \A i \in DOMAIN sets : sets[i] \in ReplicaSet /\ sets[i].id = i
  BY <1>1, ElementOfSeq DEF TInv, ClusterTypes
<1>3. \A k \in DOMAIN queue : queue[k] \in ReplicaSet /\ queue[k].id \in seen
  BY <1>1, ElementOfSeq DEF TInv, InformerTypes
<1>4. Len(queue) <= MaxSets
  BY <1>1, ReportsFit DEF TInv, InformerTypes
<1>5. ev \in ReplicaSet \cup {NoEvent} /\ (ev = NoEvent <=> pc = "idle")
  BY EventsHaveNumbers DEF TInv, HandTypes
<1>6. ver \in Versions \cup {Unset} /\ (pc \in {"create", "patch"} => ver # Unset)
  BY WatcherAssumption DEF TInv, HandTypes
<1>7. seen \subseteq DOMAIN sets
  BY <1>1 DEF TInv, InformerTypes
<1> QED BY <1>2, <1>3, <1>4, <1>5, <1>6, <1>7
        DEF TInv, ClusterTypes, HandTypes, RecordTypes, BudgetTypes, TypeOK

\* The ReplicaSets are numbered as they were created, a report in the queue or
\* in hand is of one of them, a version has been read whenever an Arrival is to
\* be written, and as many reports as there are ReplicaSets fit in the queue.
THEOREM WatcherTypes == Spec => []TypeOK
BY InitTypes, NextTypes, TypesHold, PTL DEF Spec
=============================================================================
