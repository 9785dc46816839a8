-------------------------- MODULE ArrivalLifecycle --------------------------
(***************************************************************************)
(* What the controller promises about one Arrival's .status, whoever        *)
(* reconciles it and however often: the phase machine of reconcileOne, the  *)
(* verdict that goes with each terminal phase, and the one way out of it.   *)
(***************************************************************************)
EXTENDS Integers

CONSTANTS Arrivals,   \* names of the Arrival objects
          Packs,      \* the test packs an Arrival declares in spec.testPacks
          Cooldown,   \* retestCooldown, in clock units
          MaxClock    \* bound of a model: the largest clock value

\* A verdict needs a pack: handlePending gets past its first check only with a
\* non-empty spec.testPacks.
ASSUME LifecycleAssumption ==
    Packs # {} /\ Cooldown \in Nat /\ MaxClock \in Nat \ {0}

VARIABLES phase,        \* status.phase
          tests,        \* status.tests: the status of each pack's entry
          finalizedAt,  \* status.finalizedAt, 0 when absent
          rollouts,     \* every value spec.deployedAt ever took
          clock         \* wall-clock time

vars == <<phase, tests, finalizedAt, rollouts, clock>>

\* "New": status.phase is absent, the empty string to the code.
Waiting  == {"New", "Pending"}
Verdicts == {"Passed", "Failed", "Timeout"}
Phases   == Waiting \cup Verdicts \cup {"Testing", "Skipped"}
Unsettled == {"Pending", "Running"}
Settled   == {"Passed", "Failed", "Timeout"}
\* "none" in every position is the empty status.tests.
Status   == Unsettled \cup Settled \cup {"none"}

AllOf(s) == [p \in Packs |-> s]

TypeOK ==
    /\ phase \in [Arrivals -> Phases]
    /\ tests \in [Arrivals -> [Packs -> Status]]
    /\ finalizedAt \in [Arrivals -> Nat]
    /\ rollouts \in [Arrivals -> SUBSET Nat]
    /\ clock \in Nat

Init ==
    /\ phase = [a \in Arrivals |-> "New"]
    /\ tests = [a \in Arrivals |-> AllOf("none")]
    /\ finalizedAt = [a \in Arrivals |-> 0]
    /\ clock = 1
    /\ rollouts = [a \in Arrivals |-> {1}]

Become(a, ph, ts) ==
    /\ phase' = [phase EXCEPT ![a] = ph]
    /\ tests' = [tests EXCEPT ![a] = ts]

Stamp(a) == \E t \in 1..clock : finalizedAt' = [finalizedAt EXCEPT ![a] = t]

-----------------------------------------------------------------------------
\* No packs declared: nothing to test.
Skip(a) ==
    /\ phase[a] \in Waiting
    /\ Become(a, "Skipped", tests[a])
    /\ Stamp(a)
    /\ UNCHANGED <<rollouts, clock>>

\* Packs declared after all.
Unskip(a) ==
    /\ phase[a] = "Skipped"
    /\ Become(a, "Pending", tests[a])
    /\ UNCHANGED <<finalizedAt, rollouts, clock>>

\* Every pack dispatched.
Start(a) ==
    /\ phase[a] \in Waiting
    /\ Become(a, "Testing", AllOf("Running"))
    /\ UNCHANGED <<finalizedAt, rollouts, clock>>

\* A failed dispatch records what it did dispatch, the phase still waiting.
Evidence(a) ==
    /\ phase[a] \in Waiting
    /\ \E ts \in [Packs -> Unsettled] : Become(a, phase[a], ts)
    /\ UNCHANGED <<finalizedAt, rollouts, clock>>

\* A failed gate or dispatch ends the Arrival.
Abort(a) ==
    /\ phase[a] \in Waiting
    /\ \E ts \in [Packs -> {"none", "Failed"}] : Become(a, "Failed", ts)
    /\ Stamp(a)
    /\ UNCHANGED <<rollouts, clock>>

\* The packs' results so far: a settled pack keeps its result.
Extends(old, new) ==
    \A p \in Packs : \/ new[p] = old[p]
                     \/ old[p] \in Unsettled /\ new[p] \in Settled

Progress(a) ==
    /\ phase[a] = "Testing"
    /\ \E ts \in [Packs -> {"Running", "Passed", "Failed"}] :
          Extends(tests[a], ts) /\ Become(a, "Testing", ts)
    /\ UNCHANGED <<finalizedAt, rollouts, clock>>

\* Mutant: a failed pack does not fail the Arrival.
VerdictIgnoringFailures(ts) ==
    IF \E p \in Packs : ts[p] = "Timeout" THEN "Timeout" ELSE "Passed"

\* The verdict that a settled list of results deserves.
Verdict(ts) == IF \E p \in Packs : ts[p] = "Timeout" THEN "Timeout"
               ELSE IF \E p \in Packs : ts[p] = "Failed" THEN "Failed"
               ELSE "Passed"

\* All packs polled to a result.
Settle(a) ==
    /\ phase[a] = "Testing"
    /\ \E ts \in [Packs -> {"Passed", "Failed"}] :
          Extends(tests[a], ts) /\ Become(a, Verdict(ts), ts)
    /\ Stamp(a)
    /\ UNCHANGED <<rollouts, clock>>

\* The wall-clock ceiling: what has not settled times out.
Expire(a) ==
    /\ phase[a] = "Testing"
    /\ \E ts \in [Packs -> Settled] :
          /\ \A p \in Packs : ts[p] = IF tests[a][p] \in Unsettled
                                      THEN "Timeout" ELSE tests[a][p]
          /\ Become(a, "Timeout", ts)
    /\ Stamp(a)
    /\ UNCHANGED <<rollouts, clock>>

\* Mutant: any rollout reopens.
ReopenAtOnce(a) ==
    /\ phase[a] \in Verdicts
    /\ \E t \in rollouts[a] : t > finalizedAt[a]
    /\ Become(a, "Pending", AllOf("none"))
    /\ UNCHANGED <<finalizedAt, rollouts, clock>>

\* The only way out of a verdict: a rollout later than the verdict by more
\* than the cooldown.
Reopen(a) ==
    /\ phase[a] \in Verdicts
    /\ finalizedAt[a] > 0
    /\ \E t \in rollouts[a] : t > finalizedAt[a] + Cooldown
    /\ Become(a, "Pending", AllOf("none"))
    /\ UNCHANGED <<finalizedAt, rollouts, clock>>

\* The watcher writes spec.deployedAt: no later than now.
Announce(a) ==
    /\ \E t \in 1..clock : rollouts' = [rollouts EXCEPT ![a] = @ \cup {t}]
    /\ UNCHANGED <<phase, tests, finalizedAt, clock>>

Tick ==
    /\ clock < MaxClock
    /\ clock' = clock + 1
    /\ UNCHANGED <<phase, tests, finalizedAt, rollouts>>

Next == \/ Tick
        \/ \E a \in Arrivals :
              \/ Skip(a) \/ Unskip(a) \/ Start(a) \/ Evidence(a) \/ Abort(a)
              \/ Progress(a) \/ Settle(a) \/ Expire(a) \/ Reopen(a)
              \/ Announce(a)

Spec == Init /\ [][Next]_vars

-----------------------------------------------------------------------------
\* The phase and the entries of status.tests tell one story: Passed means that
\* every declared pack passed, Failed that none is left open and not all of
\* them passed, Timeout that none is left open, and Testing that every pack has
\* been dispatched.
VerdictAgrees ==
    \A a \in Arrivals :
        /\ phase[a] = "Passed" => tests[a] = AllOf("Passed")
        /\ phase[a] = "Failed" =>
              /\ \A p \in Packs : tests[a][p] \in {"none", "Passed", "Failed"}
              /\ tests[a] # AllOf("Passed")
        /\ phase[a] = "Timeout" => \A p \in Packs : tests[a][p] \in Settled
        /\ phase[a] = "Testing" =>
              \A p \in Packs : tests[a][p] \in {"Running", "Passed", "Failed"}

\* Nobody rolls out or finalizes in the future.
NothingFromTheFuture ==
    \A a \in Arrivals :
        finalizedAt[a] <= clock /\ \A t \in rollouts[a] : 1 <= t /\ t <= clock

\* A verdict stands for longer than the cooldown, however many ReplicaSets the
\* rollout that follows it brings up and in whatever order they are announced.
VerdictOutlivesCooldown ==
    [][\A a \in Arrivals : phase[a] \in Verdicts /\ phase'[a] # phase[a]
                              => clock > finalizedAt[a] + Cooldown]_vars
=============================================================================
