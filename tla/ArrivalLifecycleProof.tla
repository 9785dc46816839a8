----------------------- MODULE ArrivalLifecycleProof -----------------------
(***************************************************************************)
(* The promises of ArrivalLifecycle, for every number of Arrivals and       *)
(* packs, every cooldown and every clock.                                   *)
(***************************************************************************)
EXTENDS ArrivalLifecycle, TLAPS

LEMMA TypeCorrect == Spec => []TypeOK
<1> USE LifecycleAssumption
    DEF TypeOK, Phases, Waiting, Verdicts, Status, Settled, Unsettled, AllOf
<1>1. Init => TypeOK
  BY DEF Init
<1>2. TypeOK /\ [Next]_vars => TypeOK'
  <2> SUFFICES ASSUME TypeOK, [Next]_vars PROVE TypeOK'
    OBVIOUS
  <2>1. CASE Tick
    BY <2>1 DEF Tick
  <2>2. CASE UNCHANGED vars
    BY <2>2 DEF vars
  <2>3. ASSUME NEW a \in Arrivals,
               \/ Skip(a) \/ Unskip(a) \/ Start(a) \/ Evidence(a) \/ Abort(a)
               \/ Progress(a) \/ Settle(a) \/ Expire(a) \/ Reopen(a) \/ Announce(a)
        PROVE  TypeOK'
    <3>1. CASE Skip(a)     BY <3>1 DEF Skip, Become, Stamp
    <3>2. CASE Unskip(a)   BY <3>2 DEF Unskip, Become
    <3>3. CASE Start(a)    BY <3>3 DEF Start, Become
    <3>4. CASE Evidence(a) BY <3>4 DEF Evidence, Become
    <3>5. CASE Abort(a)    BY <3>5 DEF Abort, Become, Stamp
    <3>6. CASE Progress(a) BY <3>6 DEF Progress, Become
    <3>7. CASE Settle(a)   BY <3>7 DEF Settle, Become, Stamp, Verdict
    <3>8. CASE Expire(a)   BY <3>8 DEF Expire, Become, Stamp
    <3>9. CASE Reopen(a)   BY <3>9 DEF Reopen, Become
    <3>10. CASE Announce(a) BY <3>10 DEF Announce
    <3> QED BY <2>3, <3>1, <3>2, <3>3, <3>4, <3>5, <3>6, <3>7, <3>8, <3>9, <3>10
  <2> QED BY <2>1, <2>2, <2>3 DEF Next
<1> QED BY <1>1, <1>2, PTL DEF Spec

\* Phase and status.tests of an Arrival agree in every reachable state: no
\* sequence of dispatches, polls, aborts, timeouts and retests leaves a Passed
\* with an entry that did not pass, or a verdict with an open entry.
THEOREM VerdictsAgree == Spec => []VerdictAgrees
<1> USE LifecycleAssumption
    DEF Phases, Waiting, Verdicts, Status, Settled, Unsettled, AllOf
<1>1. Init => VerdictAgrees
  BY DEF Init, VerdictAgrees
<1>2. TypeOK /\ VerdictAgrees /\ [Next]_vars => VerdictAgrees'
  <2> SUFFICES ASSUME TypeOK, VerdictAgrees, [Next]_vars
               PROVE  VerdictAgrees'
    OBVIOUS
  <2> USE DEF TypeOK, VerdictAgrees
  <2>1. CASE UNCHANGED <<phase, tests>>
    BY <2>1
  <2>2. ASSUME NEW a \in Arrivals, Skip(a) \/ Unskip(a) \/ Reopen(a) PROVE VerdictAgrees'
    BY <2>2 DEF Skip, Unskip, Reopen, Become
  <2>3. ASSUME NEW a \in Arrivals, Start(a) \/ Evidence(a) PROVE VerdictAgrees'
    BY <2>3 DEF Start, Evidence, Become
  <2>4. ASSUME NEW a \in Arrivals, Abort(a) PROVE VerdictAgrees'
    BY <2>4 DEF Abort, Become
  <2>5. ASSUME NEW a \in Arrivals, Progress(a) PROVE VerdictAgrees'
    BY <2>5 DEF Progress, Become
  <2>6. ASSUME NEW a \in Arrivals, Settle(a) PROVE VerdictAgrees'
    BY <2>6 DEF Settle, Become, Verdict
  <2>7. ASSUME NEW a \in Arrivals, Expire(a) PROVE VerdictAgrees'
    BY <2>7 DEF Expire, Become
  <2> QED
    BY <2>1, <2>2, <2>3, <2>4, <2>5, <2>6, <2>7 DEF Next, Tick, Announce, vars
<1> QED BY <1>1, <1>2, TypeCorrect, PTL DEF Spec

\* No timestamp lies ahead of the clock.
LEMMA PastOnly == Spec => []NothingFromTheFuture
<1> USE LifecycleAssumption DEF NothingFromTheFuture
<1>1. Init => NothingFromTheFuture
  <2> SUFFICES ASSUME Init, NEW a \in Arrivals
               PROVE  finalizedAt[a] <= clock /\ \A t \in rollouts[a] : 1 <= t /\ t <= clock
    OBVIOUS
  <2>1. finalizedAt[a] = 0 /\ rollouts[a] = {1} /\ clock = 1
    BY Zenon DEF Init
  <2> QED BY <2>1
<1>2. TypeOK /\ NothingFromTheFuture /\ [Next]_vars => NothingFromTheFuture'
  <2> SUFFICES ASSUME TypeOK, NothingFromTheFuture, [Next]_vars
               PROVE  NothingFromTheFuture'
    OBVIOUS
  <2> USE DEF TypeOK
  <2>1. CASE UNCHANGED <<finalizedAt, rollouts, clock>>
    BY <2>1
  <2>2. CASE Tick
    <3> SUFFICES ASSUME NEW a \in Arrivals, NEW t \in rollouts[a]
                 PROVE  /\ finalizedAt[a] <= clock + 1
                        /\ 1 <= t /\ t <= clock + 1
      BY <2>2 DEF Tick
    <3>1. t \in Nat /\ finalizedAt[a] \in Nat /\ clock \in Nat
      OBVIOUS
    <3>2. finalizedAt[a] <= clock /\ 1 <= t /\ t <= clock
      OBVIOUS
    <3> QED BY <3>1, <3>2
  <2>3. ASSUME NEW a \in Arrivals, Skip(a) \/ Abort(a) \/ Settle(a) \/ Expire(a)
        PROVE  NothingFromTheFuture'
    BY <2>3 DEF Skip, Abort, Settle, Expire, Stamp
  <2>4. ASSUME NEW a \in Arrivals, Announce(a) PROVE NothingFromTheFuture'
    BY <2>4 DEF Announce
  <2>5. ASSUME NEW a \in Arrivals,
               Unskip(a) \/ Start(a) \/ Evidence(a) \/ Progress(a) \/ Reopen(a)
        PROVE  NothingFromTheFuture'
    BY <2>1, <2>5 DEF Unskip, Start, Evidence, Progress, Reopen
  <2>6. CASE UNCHANGED vars
    BY <2>1, <2>6 DEF vars
  <2> QED BY <2>2, <2>3, <2>4, <2>5, <2>6 DEF Next
<1> QED BY <1>1, <1>2, TypeCorrect, PTL DEF Spec

\* A verdict is only ever left after the cooldown has really elapsed, in
\* whatever order rollouts are announced: deployedAt is never in the future, so
\* a deployedAt past finalizedAt + Cooldown puts the clock past it too.
THEOREM VerdictsOutliveCooldown == Spec => VerdictOutlivesCooldown
<1>1. TypeOK /\ NothingFromTheFuture /\ [Next]_vars =>
        [\A a \in Arrivals : phase[a] \in Verdicts /\ phase'[a] # phase[a]
                               => clock > finalizedAt[a] + Cooldown]_vars
  <2> SUFFICES ASSUME TypeOK, NothingFromTheFuture, Next,
                      NEW a \in Arrivals, phase[a] \in Verdicts, phase'[a] # phase[a]
               PROVE  clock > finalizedAt[a] + Cooldown
    BY DEF vars
  <2> USE DEF TypeOK, Verdicts, Waiting
  <2>1. PICK b \in Arrivals : Reopen(b) \/ (phase[b] \notin Verdicts /\
                                \E ph, ts : Become(b, ph, ts))
    BY DEF Next, Tick, Announce, Skip, Unskip, Start, Evidence, Abort, Progress,
           Settle, Expire
  <2>2. a = b
    BY <2>1 DEF Reopen, Become
  <2>3. Reopen(a)
    BY <2>1, <2>2
  <2>4. PICK t \in rollouts[a] : t > finalizedAt[a] + Cooldown
    BY <2>3 DEF Reopen
  <2>5. t <= clock /\ t \in Nat
    BY DEF NothingFromTheFuture
  <2> QED BY <2>4, <2>5, LifecycleAssumption
<1> QED BY <1>1, TypeCorrect, PastOnly, PTL DEF Spec, VerdictOutlivesCooldown
=============================================================================
