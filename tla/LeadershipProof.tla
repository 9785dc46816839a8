-------------------------- MODULE LeadershipProof --------------------------
(***************************************************************************)
(* For every number of replicas, and all durations that leave a leader the   *)
(* time to stop before its Lease is free: two replicas never lead at once,   *)
(* and the liveness probe restarts hung leaders only.                        *)
(***************************************************************************)
EXTENDS Leadership, TLAPS

USE LeadershipAssumption DEF LeadershipAssumption, Patience, Limit

-----------------------------------------------------------------------------
\* A replica's process ends: what Gone leaves behind.
LEMMA GoneType ==
    ASSUME TypeOK, NEW p \in Replicas, Gone(p)
    PROVE  /\ pc' \in [Replicas -> Pcs]
           /\ since' \in [Replicas -> 0..(Limit + 1)]
           /\ hung' \in [Replicas -> BOOLEAN]
           /\ work' \in [Replicas -> Works]
<1>1. pc' \in [Replicas -> Pcs]
  BY DEF TypeOK, Gone, Move, Pcs
<1>2. 0 \in 0..(Limit + 1)
  OBVIOUS
<1>3. since' \in [Replicas -> 0..(Limit + 1)]
  BY <1>2 DEF TypeOK, Gone
<1>4. hung' \in [Replicas -> BOOLEAN]
  BY Zenon DEF TypeOK, Gone
<1>5. work' \in [Replicas -> Works]
  BY DEF TypeOK, Gone, Works
<1>. QED  BY <1>1, <1>3, <1>4, <1>5

LEMMA FailType ==
    ASSUME TypeOK, Fail \/ UNCHANGED failures
    PROVE  failures' \in 0..MaxFailures
BY DEF TypeOK, Fail

LEMMA OlderType ==
    ASSUME NEW most \in Nat, NEW n \in 0..most
    PROVE  Older(n, most) \in 0..most
BY DEF Older

LEMMA TickType == ASSUME TypeOK, Tick PROVE TypeOK'
<1>1. age' \in 0..LeaseDuration
  BY OlderType DEF TypeOK, Tick
<1>2. since' \in [Replicas -> 0..(Limit + 1)]
  <2>1. Limit + 1 \in Nat
    OBVIOUS
  <2>2. \A p \in Replicas : Older(since[p], Limit + 1) \in 0..(Limit + 1)
    BY <2>1, OlderType DEF TypeOK
  <2>. QED  BY <2>2 DEF TypeOK, Tick
<1>. QED  BY <1>1, <1>2 DEF TypeOK, Tick

LEMMA StepType == ASSUME TypeOK, [Next]_vars PROVE TypeOK'
<1>1. ASSUME NEW p \in Replicas, Boot(p) PROVE TypeOK'
  BY <1>1 DEF TypeOK, Boot, Move, Pcs
<1>2. ASSUME NEW p \in Replicas, Acquire(p) PROVE TypeOK'
  <2>1. pc' \in [Replicas -> Pcs]
    BY <1>2 DEF TypeOK, Acquire, Take, Move, Pcs
  <2>2. work' \in [Replicas -> Works]
    BY <1>2 DEF TypeOK, Acquire, Take, Works
  <2>3. 0 \in 0..(Limit + 1) /\ 0 \in 0..LeaseDuration
    OBVIOUS
  <2>4. since' \in [Replicas -> 0..(Limit + 1)]
    BY <1>2, <2>3 DEF TypeOK, Acquire, Take
  <2>. QED  BY <1>2, <2>1, <2>2, <2>3, <2>4 DEF TypeOK, Acquire, Take
<1>3. ASSUME NEW p \in Replicas, Renew(p) PROVE TypeOK'
  BY <1>3 DEF TypeOK, Renew
<1>4. ASSUME NEW p \in Replicas, GiveUp(p) PROVE TypeOK'
  BY <1>4 DEF TypeOK, GiveUp, Fail, Move, Pcs
<1>5. ASSUME NEW p \in Replicas, Release(p) PROVE TypeOK'
  BY <1>5 DEF TypeOK, Release, Move, Pcs
<1>6. ASSUME NEW p \in Replicas, Exit(p) PROVE TypeOK'
  BY <1>6, GoneType DEF TypeOK, Exit
<1>7. ASSUME NEW p \in Replicas, StartWatcher(p) PROVE TypeOK'
  <2>1. work' \in [Replicas -> Works]
    BY <1>7 DEF TypeOK, StartWatcher, Works
  <2>2. failures' \in 0..MaxFailures
    BY <1>7, FailType DEF StartWatcher
  <2>. QED  BY <1>7, <2>1, <2>2 DEF TypeOK, StartWatcher
<1>8. ASSUME NEW p \in Replicas, StartController(p) PROVE TypeOK'
  <2>1. work' \in [Replicas -> Works]
    BY <1>8 DEF TypeOK, StartController, Works
  <2>2. failures' \in 0..MaxFailures
    BY <1>8, FailType DEF StartController
  <2>. QED  BY <1>8, <2>1, <2>2 DEF TypeOK, StartController
<1>9. ASSUME NEW p \in Replicas, Die(p) PROVE TypeOK'
  BY <1>9, GoneType DEF TypeOK, Die, Fail
<1>10. ASSUME NEW p \in Replicas, Hang(p) PROVE TypeOK'
  BY <1>10 DEF TypeOK, Hang, Fail
<1>11. ASSUME NEW p \in Replicas, Restart(p) PROVE TypeOK'
  BY <1>11, GoneType DEF TypeOK, Restart
<1>12. ASSUME UNCHANGED vars PROVE TypeOK'
  BY <1>12 DEF TypeOK, vars
<1>. QED
  BY <1>1, <1>2, <1>3, <1>4, <1>5, <1>6, <1>7, <1>8, <1>9, <1>10, <1>11, <1>12,
     TickType DEF Next

\* Type correctness of the replicas' model.
THEOREM LeadershipTypes == Spec => []TypeOK
<1>1. Init => TypeOK
  BY DEF Init, TypeOK, Pcs, Works
<1>. QED  BY <1>1, StepType, PTL DEF Spec

-----------------------------------------------------------------------------
(* Who leads holds the Lease and renewed it at most Patience ago.            *)

\* A step by which p, at most, stops leading, and the Lease stays as it is.
LEMMA Stepdown ==
    ASSUME TypeOK, LeaseInv, NEW p \in Replicas,
           \A q \in Replicas \ {p} : /\ pc'[q] = pc[q] /\ hung'[q] = hung[q]
                                     /\ since'[q] = since[q],
           ~Leads(p)',
           age' = age,
           holder' = holder \/ (holder = p /\ holder' = NoReplica)
    PROVE  LeaseInv'
BY DEF LeaseInv, Leads, TypeOK

\* Nobody else can be leading when a Lease is taken.
LEMMA AcquireInv ==
    ASSUME TypeOK, LeaseInv, NEW p \in Replicas, Acquire(p)
    PROVE  LeaseInv'
<1>1. \A q \in Replicas : q # p => ~Leads(q)
  BY DEF LeaseInv, TypeOK, Acquire
<1>. QED  BY <1>1 DEF LeaseInv, Leads, TypeOK, Acquire, Take, Move

LEMMA TickInv == ASSUME TypeOK, LeaseInv, Tick PROVE LeaseInv'
<1>. SUFFICES ASSUME NEW p \in Replicas, Leads(p)
              PROVE  holder' = p /\ age' = since'[p] /\ since'[p] <= Patience
  BY DEF LeaseInv, Leads, Tick
<1>1. holder = p /\ age = since[p] /\ since[p] \in Nat
  BY DEF LeaseInv, TypeOK
<1>2. since[p] < Patience
  BY <1>1 DEF Tick, Leads
<1>3. age' = age + 1 /\ since'[p] = since[p] + 1
  BY <1>1, <1>2 DEF Tick, Leads, Older
<1>. QED  BY <1>1, <1>2, <1>3 DEF Tick

LEMMA StepLease == ASSUME TypeOK, LeaseInv, [Next]_vars PROVE LeaseInv'
<1>1. ASSUME NEW p \in Replicas, Boot(p) PROVE LeaseInv'
  BY <1>1, Stepdown DEF Boot, Move, TypeOK, Leads
<1>2. ASSUME NEW p \in Replicas, Renew(p) PROVE LeaseInv'
  BY <1>2 DEF LeaseInv, Leads, TypeOK, Renew
<1>3. ASSUME NEW p \in Replicas, GiveUp(p) PROVE LeaseInv'
  BY <1>3, Stepdown DEF GiveUp, Move, TypeOK, Leads
<1>4. ASSUME NEW p \in Replicas, Release(p) PROVE LeaseInv'
  BY <1>4, Stepdown DEF Release, Move, TypeOK, Leads
<1>5. ASSUME NEW p \in Replicas, Exit(p) PROVE LeaseInv'
  BY <1>5, Stepdown DEF Exit, Gone, Move, TypeOK, Leads
<1>6. ASSUME NEW p \in Replicas, StartWatcher(p) \/ StartController(p) PROVE LeaseInv'
  BY <1>6 DEF LeaseInv, Leads, StartWatcher, StartController
<1>7. ASSUME NEW p \in Replicas, Die(p) PROVE LeaseInv'
  BY <1>7, Stepdown DEF Die, Gone, Move, TypeOK, Leads
<1>8. ASSUME NEW p \in Replicas, Hang(p) PROVE LeaseInv'
  BY <1>8, Stepdown DEF Hang, TypeOK, Leads
<1>9. ASSUME NEW p \in Replicas, Restart(p) PROVE LeaseInv'
  BY <1>9, Stepdown DEF Restart, Gone, Move, TypeOK, Leads
<1>10. ASSUME UNCHANGED vars PROVE LeaseInv'
  BY <1>10 DEF LeaseInv, Leads, vars
<1>. QED
  BY <1>1, <1>2, <1>3, <1>4, <1>5, <1>6, <1>7, <1>8, <1>9, <1>10, AcquireInv,
     TickInv DEF Next

THEOREM LeadersHoldTheLease == Spec => []LeaseInv
<1>1. Init => LeaseInv
  BY DEF Init, LeaseInv, Leads
<1>2. TypeOK /\ LeaseInv /\ [Next]_vars => LeaseInv'
  BY StepLease
<1>. QED  BY <1>1, <1>2, LeadershipTypes, PTL DEF Spec

\* Two replicas never lead at once, because the Lease has one holder.
THEOREM OneLeader == Spec => []SoleLeader
<1>1. LeaseInv => SoleLeader
  BY DEF LeaseInv, SoleLeader
<1>. QED  BY <1>1, LeadersHoldTheLease, PTL

\* A leader that does not hang never looks unhealthy: it has renewed, or given
\* up, long before the watchdog's limit.
THEOREM ProbeSparesTheHealthy == Spec => []OnlyHungRestart
<1>1. TypeOK /\ LeaseInv => OnlyHungRestart
  BY DEF LeaseInv, OnlyHungRestart, Leads, Unhealthy, TypeOK
<1>. QED  BY <1>1, LeadersHoldTheLease, LeadershipTypes, PTL
=============================================================================
